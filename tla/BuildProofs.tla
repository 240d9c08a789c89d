----------------------------- MODULE BuildProofs -----------------------------
(***************************************************************************)
(* Theorems about what a build accepts: the parameters of handlers and     *)
(* providers, for any providers, and the middlewares around each handler,  *)
(* for any routers.                                                        *)
(*                                                                         *)
(* A resolution goes down by calls that are left, the functions that can   *)
(* be called are found bottom up in rounds, and a walk goes down by the    *)
(* height of what is under a router.  Each of the three is unfolded once,  *)
(* number by number, and what they do is shown by climbing the numbers.    *)
(***************************************************************************)
EXTENDS DeclarationProofs, BuildProperties

(***************************************************************************)
(* Resolving, call by call.                                                *)
(***************************************************************************)

\* What comes of a call when none is left.
NoCalls(ctx) ==
    [f \in DOMAIN ctx.params |-> [stack \in SUBSET ParamNames(ctx) |-> "recursion"]]

\* What comes of each call, by the number of calls that are left.
Calls(ctx) == CHOOSE c : c = [n \in 0 .. MaxDepth |->
                  IF n = 0 THEN NoCalls(ctx) ELSE Kwargs(ctx, c[n - 1])]

\* Calls can be played for any number of calls that are left.
LEMMA CallsUpTo ==
    ASSUME NEW ctx
    PROVE  \A m \in Nat : \E f : f = [n \in 0 .. m |->
               IF n = 0 THEN NoCalls(ctx) ELSE Kwargs(ctx, f[n - 1])]
<1> DEFINE Unfolds(f, m) == f = [n \in 0 .. m |->
               IF n = 0 THEN NoCalls(ctx) ELSE Kwargs(ctx, f[n - 1])]
           S == {m \in Nat : \E f : Unfolds(f, m)}
<1>1. 0 \in S
  <2>1. Unfolds([n \in 0 .. 0 |-> NoCalls(ctx)], 0)
    OBVIOUS
  <2> QED
    BY <2>1
<1>2. ASSUME NEW m \in Nat, m \in S
      PROVE  m + 1 \in S
  <2>1. PICK f : Unfolds(f, m)
    BY <1>2
  <2> DEFINE g == [n \in 0 .. m + 1 |->
                      IF n <= m THEN f[n] ELSE Kwargs(ctx, f[n - 1])]
  <2>2. ASSUME NEW n \in 0 .. m + 1
        PROVE  g[n] = IF n = 0 THEN NoCalls(ctx) ELSE Kwargs(ctx, g[n - 1])
    <3>1. CASE n = 0
      <4>1. 0 \in 0 .. m /\ 0 \in 0 .. m + 1
        OBVIOUS
      <4>2. g[0] = f[0] /\ f[0] = NoCalls(ctx)
        BY <4>1, <2>1
      <4> QED
        BY <4>2, <3>1
    <3>2. CASE n # 0
      <4>1. n - 1 \in 0 .. m /\ n - 1 \in 0 .. m + 1 /\ n - 1 <= m
        BY <3>2
      <4>2. g[n - 1] = f[n - 1]
        BY <4>1
      <4>3. CASE n <= m
        <5>1. n \in 0 .. m
          BY <4>3
        <5>2. f[n] = Kwargs(ctx, f[n - 1])
          BY <5>1, <2>1, <3>2
        <5>3. g[n] = f[n]
          BY <4>3
        <5> HIDE DEF g
        <5> QED
          BY <5>2, <5>3, <4>2, <3>2
      <4>4. CASE ~ (n <= m)
        <5>1. g[n] = Kwargs(ctx, f[n - 1])
          BY <4>4
        <5> HIDE DEF g
        <5> QED
          BY <5>1, <4>2, <3>2
      <4> QED
        BY <4>3, <4>4
    <3> QED
      BY <3>1, <3>2
  <2>3. Unfolds(g, m + 1)
    <3>1. g = [n \in 0 .. m + 1 |-> g[n]]
      OBVIOUS
    <3> HIDE DEF g
    <3> QED
      BY <3>1, <2>2
  <2>4. \E h : Unfolds(h, m + 1)
    <3> HIDE DEF g, Unfolds
    <3> QED
      BY <2>3
  <2> QED
    BY <2>4
<1>3. Nat \subseteq S
  <2> HIDE DEF S
  <2> QED
    BY <1>1, <1>2, Climb
<1> QED
  BY <1>3

\* Each call is played by those that have one call less.
LEMMA CallByCall ==
    ASSUME NEW ctx, MaxDepth \in Nat
    PROVE  /\ Calls(ctx)[0] = NoCalls(ctx)
           /\ \A n \in 1 .. MaxDepth : Calls(ctx)[n] = Kwargs(ctx, Calls(ctx)[n - 1])
<1> DEFINE Unfolds(f) == f = [n \in 0 .. MaxDepth |->
               IF n = 0 THEN NoCalls(ctx) ELSE Kwargs(ctx, f[n - 1])]
<1>1. \E f : Unfolds(f)
  BY CallsUpTo
<1>2. Calls(ctx) = CHOOSE f : Unfolds(f)
  BY DEF Calls
<1>3. Unfolds(Calls(ctx))
  <2> HIDE DEF Unfolds
  <2> QED
    BY <1>1, <1>2
<1> DEFINE p == Calls(ctx)
<1>4. p = [n \in 0 .. MaxDepth |->
               IF n = 0 THEN NoCalls(ctx) ELSE Kwargs(ctx, p[n - 1])]
  BY <1>3
<1> HIDE DEF p, Unfolds
<1>5. \A n \in 0 .. MaxDepth :
          p[n] = IF n = 0 THEN NoCalls(ctx) ELSE Kwargs(ctx, p[n - 1])
  BY <1>4
<1>6. p[0] = NoCalls(ctx)
  BY <1>5
<1>7. \A n \in 1 .. MaxDepth : p[n] = Kwargs(ctx, p[n - 1])
  BY <1>5
<1> QED
  BY <1>6, <1>7 DEF p

\* The functions that can be called once those in known can be.
Grown(ctx, known) ==
    {fn \in DOMAIN ctx.params : \A p \in ToSet(ctx.params[fn]) : Had(p, ctx, known)}

Size(ctx) == Cardinality(DOMAIN ctx.params)

\* The rounds in which the functions are found that can be called.
Rounds(ctx) == CHOOSE r : r = [n \in 0 .. Size(ctx) |->
                  IF n = 0 THEN {} ELSE Grown(ctx, r[n - 1])]

\* There are as many rounds as one likes.
LEMMA RoundsUpTo ==
    ASSUME NEW ctx
    PROVE  \A m \in Nat : \E f : f = [n \in 0 .. m |->
               IF n = 0 THEN {} ELSE Grown(ctx, f[n - 1])]
<1> DEFINE Unfolds(f, m) == f = [n \in 0 .. m |->
               IF n = 0 THEN {} ELSE Grown(ctx, f[n - 1])]
           S == {m \in Nat : \E f : Unfolds(f, m)}
<1>1. 0 \in S
  <2>1. Unfolds([n \in 0 .. 0 |-> {}], 0)
    OBVIOUS
  <2> QED
    BY <2>1
<1>2. ASSUME NEW m \in Nat, m \in S
      PROVE  m + 1 \in S
  <2>1. PICK f : Unfolds(f, m)
    BY <1>2
  <2> DEFINE g == [n \in 0 .. m + 1 |->
                      IF n <= m THEN f[n] ELSE Grown(ctx, f[n - 1])]
  <2>2. ASSUME NEW n \in 0 .. m + 1
        PROVE  g[n] = IF n = 0 THEN {} ELSE Grown(ctx, g[n - 1])
    <3>1. CASE n = 0
      <4>1. 0 \in 0 .. m /\ 0 \in 0 .. m + 1
        OBVIOUS
      <4>2. g[0] = f[0] /\ f[0] = {}
        BY <4>1, <2>1
      <4> QED
        BY <4>2, <3>1
    <3>2. CASE n # 0
      <4>1. n - 1 \in 0 .. m /\ n - 1 \in 0 .. m + 1 /\ n - 1 <= m
        BY <3>2
      <4>2. g[n - 1] = f[n - 1]
        BY <4>1
      <4>3. CASE n <= m
        <5>1. n \in 0 .. m
          BY <4>3
        <5>2. f[n] = Grown(ctx, f[n - 1])
          BY <5>1, <2>1, <3>2
        <5>3. g[n] = f[n]
          BY <4>3
        <5> HIDE DEF g
        <5> QED
          BY <5>2, <5>3, <4>2, <3>2
      <4>4. CASE ~ (n <= m)
        <5>1. g[n] = Grown(ctx, f[n - 1])
          BY <4>4
        <5> HIDE DEF g
        <5> QED
          BY <5>1, <4>2, <3>2
      <4> QED
        BY <4>3, <4>4
    <3> QED
      BY <3>1, <3>2
  <2>3. Unfolds(g, m + 1)
    <3>1. g = [n \in 0 .. m + 1 |-> g[n]]
      OBVIOUS
    <3> HIDE DEF g
    <3> QED
      BY <3>1, <2>2
  <2>4. \E h : Unfolds(h, m + 1)
    <3> HIDE DEF g, Unfolds
    <3> QED
      BY <2>3
  <2> QED
    BY <2>4
<1>3. Nat \subseteq S
  <2> HIDE DEF S
  <2> QED
    BY <1>1, <1>2, Climb
<1> QED
  BY <1>3

\* Each round comes from the one before it.
LEMMA RoundByRound ==
    ASSUME NEW ctx, Size(ctx) \in Nat
    PROVE  /\ Rounds(ctx)[0] = {}
           /\ \A n \in 1 .. Size(ctx) : Rounds(ctx)[n] = Grown(ctx, Rounds(ctx)[n - 1])
<1> DEFINE Unfolds(f) == f = [n \in 0 .. Size(ctx) |->
               IF n = 0 THEN {} ELSE Grown(ctx, f[n - 1])]
<1>1. \E f : Unfolds(f)
  BY RoundsUpTo
<1>2. Rounds(ctx) = CHOOSE f : Unfolds(f)
  BY DEF Rounds
<1>3. Unfolds(Rounds(ctx))
  <2> HIDE DEF Unfolds
  <2> QED
    BY <1>1, <1>2
<1> DEFINE p == Rounds(ctx)
<1>4. p = [n \in 0 .. Size(ctx) |->
               IF n = 0 THEN {} ELSE Grown(ctx, p[n - 1])]
  BY <1>3
<1> HIDE DEF p, Unfolds
<1>5. \A n \in 0 .. Size(ctx) :
          p[n] = IF n = 0 THEN {} ELSE Grown(ctx, p[n - 1])
  BY <1>4
<1>6. p[0] = {}
  BY <1>5
<1>7. \A n \in 1 .. Size(ctx) : p[n] = Grown(ctx, p[n - 1])
  BY <1>5
<1> QED
  BY <1>6, <1>7 DEF p

\* What is found is what the last round has found.
LEMMA LastRound ==
    ASSUME NEW ctx
    PROVE  Grounded(ctx) = Rounds(ctx)[Size(ctx)]
BY DEF Grounded, Rounds, Grown, Size

\* A handler is given all the calls there are.
LEMMA AllCalls ==
    ASSUME NEW ctx, NEW fn
    PROVE  ResolveKwargs(fn, ctx) = Calls(ctx)[MaxDepth][fn][{}]
BY DEF ResolveKwargs, Calls, NoCalls

\* The resolutions of a function's parameters fail as the first one does that fails.
LEMMA FirstFails ==
    ASSUME NEW outcomes, DOMAIN outcomes \subseteq Nat
    PROVE  /\ First(outcomes) = "ok" <=> \A i \in DOMAIN outcomes : outcomes[i] = "ok"
           /\ First(outcomes) # "ok" => \E i \in DOMAIN outcomes : First(outcomes) = outcomes[i]
<1> DEFINE all == {<<i, outcomes[i]>> : i \in DOMAIN outcomes}
           failed == {one \in all : one[2] # "ok"}
           bad == {i \in DOMAIN outcomes : outcomes[i] # "ok"}
           first == CHOOSE one \in failed : \A other \in failed : one[1] <= other[1]
<1>1. First(outcomes) = IF failed = {} THEN "ok" ELSE first[2]
  BY DEF First
<1>2. \A i \in bad : <<i, outcomes[i]>> \in failed
  OBVIOUS
<1>3. ASSUME NEW one \in failed
      PROVE  one[1] \in bad /\ one[2] = outcomes[one[1]]
  <2>1. PICK i \in DOMAIN outcomes : one = <<i, outcomes[i]>>
    OBVIOUS
  <2>2. one[2] # "ok"
    OBVIOUS
  <2>3. one[1] = i /\ one[2] = outcomes[i]
    BY <2>1
  <2> HIDE DEF failed
  <2> QED
    BY <2>2, <2>3
<1>4. CASE failed = {}
  BY <1>1, <1>2, <1>4
<1>5. CASE failed # {}
  <2>1. bad # {} /\ bad \subseteq Nat
    BY <1>3, <1>5
  <2>2. PICK i \in bad : \A j \in bad : i <= j
    <3> HIDE DEF bad
    <3> QED
      BY <2>1, Smallest
  <2>3. <<i, outcomes[i]>> \in failed
    BY <1>2
  <2>4. \A other \in failed : <<i, outcomes[i]>>[1] <= other[1]
    BY <1>3, <2>2
  <2>5. first \in failed
    <3> HIDE DEF failed
    <3> QED
      BY <2>3, <2>4
  <2> HIDE DEF first, failed
  <2>6. first[1] \in bad /\ first[2] = outcomes[first[1]]
    BY <1>3, <2>5
  <2> QED
    BY <1>1, <1>5, <2>6
<1> QED
  BY <1>4, <1>5

(***************************************************************************)
(* What is injected is taken to be of finitely many functions, each with   *)
(* its parameters in order; what provides a value is one of them.          *)
(***************************************************************************)

ParamsOf(fn, ctx) == ToSet(ctx.params[fn])

WellFormed(ctx) ==
    /\ IsFiniteSet(DOMAIN ctx.params) /\ IsFiniteSet(DOMAIN ctx.factories)
    /\ ctx.resolver \in DOMAIN ctx.params
    /\ \A n \in DOMAIN ctx.factories : ctx.factories[n] \in DOMAIN ctx.params
    /\ \A fn \in DOMAIN ctx.params :
          /\ DOMAIN ctx.params[fn] \subseteq Nat
          /\ \A p \in ParamsOf(fn, ctx) : p.kind = "depends" => p.of \in DOMAIN ctx.params

\* A call succeeds if all its parameters are resolved, and fails as one of them.
LEMMA CallFails ==
    ASSUME NEW ctx, WellFormed(ctx), NEW call,
           NEW fn \in DOMAIN ctx.params, NEW stack \in SUBSET ParamNames(ctx)
    PROVE  /\ Kwargs(ctx, call)[fn][stack] = "ok" <=>
                 \A p \in ParamsOf(fn, ctx) : Resolve(p, ctx, stack, call) = "ok"
           /\ Kwargs(ctx, call)[fn][stack] # "ok" =>
                 \E p \in ParamsOf(fn, ctx) :
                     Kwargs(ctx, call)[fn][stack] = Resolve(p, ctx, stack, call)
<1> DEFINE outcomes == [i \in DOMAIN ctx.params[fn] |->
                           Resolve(ctx.params[fn][i], ctx, stack, call)]
           k == Kwargs(ctx, call)[fn][stack]
<1>1. k = First(outcomes)
  BY DEF Kwargs
<1>2. /\ DOMAIN outcomes = DOMAIN ctx.params[fn]
      /\ \A i \in DOMAIN ctx.params[fn] :
            outcomes[i] = Resolve(ctx.params[fn][i], ctx, stack, call)
  OBVIOUS
<1>3. DOMAIN ctx.params[fn] \subseteq Nat
  BY DEF WellFormed
<1> HIDE DEF k, outcomes
<1>4. /\ k = "ok" <=> \A i \in DOMAIN outcomes : outcomes[i] = "ok"
      /\ k # "ok" => \E i \in DOMAIN outcomes : k = outcomes[i]
  BY <1>1, <1>2, <1>3, FirstFails
<1>5. k = "ok" <=> \A p \in ParamsOf(fn, ctx) : Resolve(p, ctx, stack, call) = "ok"
  BY <1>2, <1>4 DEF ParamsOf, ToSet
<1>6. k # "ok" => \E p \in ParamsOf(fn, ctx) : k = Resolve(p, ctx, stack, call)
  BY <1>2, <1>4 DEF ParamsOf, ToSet
<1> QED
  BY <1>5, <1>6 DEF k

\* The names of parameters can be put on a stack.
LEMMA Stacks ==
    ASSUME NEW ctx, NEW fn \in DOMAIN ctx.params, NEW p \in ParamsOf(fn, ctx),
           NEW stack \in SUBSET ParamNames(ctx)
    PROVE  stack \cup {p.name} \in SUBSET ParamNames(ctx) /\ {} \in SUBSET ParamNames(ctx)
  BY DEF ParamNames, ParamsOf

\* How a parameter is resolved.
LEMMA HowResolved ==
    ASSUME NEW ctx, NEW p, NEW stack, NEW call
    PROVE  LET r == Resolve(p, ctx, stack, call)
               source == Source(p.name, ctx)
               more == stack \cup {p.name}
           IN /\ p.kind = "depends" => r = call[p.of][more]
              /\ p.kind # "depends" =>
                    /\ p.name \in stack => r = "circular"
                    /\ p.name \notin stack =>
                          /\ source = "principal" => r = call[ctx.resolver][{}]
                          /\ source = "factory" => r = call[ctx.factories[p.name]][more]
                          /\ source \notin {"principal", "factory"} =>
                                /\ r \in {"ok", "missing"}
                                /\ r = "ok" <=> (source # "none" \/ p.kind = "plain")
  BY DEF Resolve

\* A factory is one of the functions.
LEMMA FactoryOf ==
    ASSUME NEW ctx, WellFormed(ctx), NEW name, Source(name, ctx) = "factory"
    PROVE  name \in DOMAIN ctx.factories /\ ctx.factories[name] \in DOMAIN ctx.params
  BY DEF WellFormed, Source

(***************************************************************************)
(* The rounds.                                                             *)
(***************************************************************************)

\* What is had with fewer functions is had with more.
LEMMA HadWithMore ==
    ASSUME NEW ctx, NEW p, NEW less, NEW more, less \subseteq more, Had(p, ctx, less)
    PROVE  Had(p, ctx, more)
  BY DEF Had

\* So a round that starts from more finds more.
LEMMA GrownIsMonotonic ==
    ASSUME NEW ctx, NEW less, NEW more, less \subseteq more
    PROVE  Grown(ctx, less) \subseteq Grown(ctx, more)
  BY HadWithMore DEF Grown

\* Each round finds what the one before it has found, and only functions.
LEMMA RoundsGrow ==
    ASSUME NEW ctx, WellFormed(ctx)
    PROVE  \A n \in 1 .. Size(ctx) : Rounds(ctx)[n - 1] \subseteq Rounds(ctx)[n]
<1> DEFINE R == Rounds(ctx)
           N == Size(ctx)
           T == {n \in Nat : n + 1 <= N => R[n] \subseteq R[n + 1]}
<1>1. N \in Nat
  BY FS_CardinalityType DEF WellFormed, Size
<1>2. R[0] = {} /\ \A n \in 1 .. N : R[n] = Grown(ctx, R[n - 1])
  BY <1>1, RoundByRound
<1> HIDE DEF R, N
<1>3. 0 \in T
  BY <1>2
<1>4. ASSUME NEW n \in Nat, n \in T
      PROVE  n + 1 \in T
  <2> SUFFICES ASSUME (n + 1) + 1 <= N
               PROVE  R[n + 1] \subseteq R[(n + 1) + 1]
    OBVIOUS
  <2> DEFINE a == R[n]
             b == R[n + 1]
             c == R[(n + 1) + 1]
  <2>1. n + 1 \in 1 .. N /\ (n + 1) - 1 = n
    BY <1>1
  <2>2. (n + 1) + 1 \in 1 .. N /\ ((n + 1) + 1) - 1 = n + 1
    BY <1>1
  <2>3. b = Grown(ctx, a)
    BY <1>2, <2>1
  <2>4. c = Grown(ctx, b)
    BY <1>2, <2>2
  <2>5. a \subseteq b
    BY <1>1, <1>4
  <2> HIDE DEF a, b, c
  <2>6. b \subseteq c
    BY <2>3, <2>4, <2>5, GrownIsMonotonic
  <2> QED
    BY <2>6 DEF b, c
<1>5. Nat \subseteq T
  <2> HIDE DEF T
  <2> QED
    BY <1>3, <1>4, Climb
<1>6. ASSUME NEW n \in 1 .. N
      PROVE  R[n - 1] \subseteq R[n]
  <2>1. n - 1 \in Nat /\ (n - 1) + 1 = n /\ (n - 1) + 1 <= N
    BY <1>1
  <2>2. n - 1 \in T
    <3> HIDE DEF T
    <3> QED
      BY <1>5, <2>1
  <2> QED
    BY <2>1, <2>2
<1> QED
  BY <1>6 DEF R, N

\* After as many rounds as there are functions, nothing more is found.
LEMMA RoundsSettle ==
    ASSUME NEW ctx, WellFormed(ctx)
    PROVE  Grown(ctx, Grounded(ctx)) \subseteq Grounded(ctx)
<1> DEFINE R == Rounds(ctx)
           N == Size(ctx)
           all == DOMAIN ctx.params
           Settled(n) == Grown(ctx, R[n]) = R[n]
           T == {n \in Nat : n <= N => (Settled(n) \/ Cardinality(R[n]) >= n)}
<1>1. N \in Nat /\ IsFiniteSet(all) /\ N = Cardinality(all)
  BY FS_CardinalityType DEF WellFormed, Size
<1>2. R[0] = {} /\ \A n \in 1 .. N : R[n] = Grown(ctx, R[n - 1])
  BY <1>1, RoundByRound
<1>3. \A n \in 1 .. N : R[n - 1] \subseteq R[n]
  BY RoundsGrow
<1>4. Grounded(ctx) = R[N]
  BY LastRound
<1> HIDE DEF R, N
<1>5. \A s : Grown(ctx, s) \subseteq all
  BY DEF Grown
<1> HIDE DEF all
<1>6. 0 \in T
  BY <1>2, FS_EmptySet
<1>7. ASSUME NEW n \in Nat, n \in T
      PROVE  n + 1 \in T
  <2> SUFFICES ASSUME n + 1 <= N, ~ Settled(n + 1)
               PROVE  Cardinality(R[n + 1]) >= n + 1
    OBVIOUS
  <2> DEFINE a == R[n]
             b == R[n + 1]
  <2>1. n + 1 \in 1 .. N /\ (n + 1) - 1 = n /\ n <= N
    BY <1>1
  <2>2. b = Grown(ctx, a) /\ a \subseteq b
    BY <1>2, <1>3, <2>1
  <2>3. a # b
    BY <2>2
  <2>4. Cardinality(a) >= n
    BY <1>7, <2>1, <2>2, <2>3
  <2> HIDE DEF a, b
  <2>5. IsFiniteSet(b)
    BY <1>1, <1>5, <2>2, FS_Subset
  <2>6. Cardinality(a) < Cardinality(b)
    BY <2>2, <2>3, <2>5, FS_Subset, FS_CardinalityType
  <2>7. Cardinality(a) \in Nat /\ Cardinality(b) \in Nat
    BY <2>2, <2>5, FS_Subset, FS_CardinalityType
  <2>8. Cardinality(b) >= n + 1
    BY <2>4, <2>6, <2>7
  <2> QED
    BY <2>8 DEF b
<1>8. Nat \subseteq T
  <2> HIDE DEF T
  <2> QED
    BY <1>6, <1>7, Climb
<1>9. Settled(N) \/ Cardinality(R[N]) >= N
  BY <1>1, <1>8
<1>10. CASE Settled(N)
  BY <1>4, <1>10
<1>11. CASE Cardinality(R[N]) >= N
  <2> DEFINE last == R[N]
  <2>1. last \subseteq all
    <3>1. CASE N = 0
      BY <1>2, <3>1
    <3>2. CASE N # 0
      <4>1. N \in 1 .. N
        BY <1>1, <3>2
      <4>2. last = Grown(ctx, R[N - 1])
        BY <1>2, <4>1
      <4> QED
        BY <1>5, <4>2
    <3> QED
      BY <3>1, <3>2
  <2>2. Cardinality(last) >= N
    BY <1>11
  <2> HIDE DEF last
  <2>3. IsFiniteSet(last) /\ Cardinality(last) \in Nat /\ Cardinality(last) <= N
    BY <1>1, <2>1, FS_Subset, FS_CardinalityType
  <2>4. last = all
    <3>1. Cardinality(last) = Cardinality(all)
      BY <1>1, <2>2, <2>3
    <3> QED
      BY <1>1, <2>1, <3>1, FS_Subset
  <2>5. Grown(ctx, last) \subseteq last
    BY <1>5, <2>4
  <2> QED
    BY <1>4, <2>5 DEF last
<1> QED
  BY <1>9, <1>10, <1>11

(***************************************************************************)
(* What comes of a call.                                                   *)
(***************************************************************************)

\* The outcome of a call depends on those with one call less.
LEMMA OutcomeOfCall ==
    ASSUME NEW ctx, WellFormed(ctx), NEW n \in 1 .. MaxDepth,
           NEW fn \in DOMAIN ctx.params, NEW stack \in SUBSET ParamNames(ctx)
    PROVE  LET o == Calls(ctx)[n][fn][stack]
               below == Calls(ctx)[n - 1]
           IN /\ o = "ok" <=> \A p \in ParamsOf(fn, ctx) : Resolve(p, ctx, stack, below) = "ok"
              /\ o # "ok" => \E p \in ParamsOf(fn, ctx) : o = Resolve(p, ctx, stack, below)
<1>1. MaxDepth \in Nat
  BY InjectablesAssumption
<1>2. Calls(ctx)[n] = Kwargs(ctx, Calls(ctx)[n - 1])
  BY <1>1, CallByCall
<1> QED
  BY <1>2, CallFails

\* Without a call left, nothing comes of it.
LEMMA NoCallLeft ==
    ASSUME NEW ctx, NEW fn \in DOMAIN ctx.params, NEW stack \in SUBSET ParamNames(ctx)
    PROVE  Calls(ctx)[0][fn][stack] = "recursion"
<1>1. MaxDepth \in Nat
  BY InjectablesAssumption
<1>2. Calls(ctx)[0] = NoCalls(ctx)
  BY <1>1, CallByCall
<1> QED
  BY <1>2 DEF NoCalls

\* What is resolved can be had.
LEMMA OkCanBeHad ==
    ASSUME NEW ctx, WellFormed(ctx)
    PROVE  \A n \in 0 .. MaxDepth : \A fn \in DOMAIN ctx.params :
           \A stack \in SUBSET ParamNames(ctx) :
               Calls(ctx)[n][fn][stack] = "ok" => fn \in Grounded(ctx)
<1> DEFINE C == Calls(ctx)
           F == DOMAIN ctx.params
           K == SUBSET ParamNames(ctx)
           G == Grounded(ctx)
           Right(n) == \A fn \in F : \A stack \in K : C[n][fn][stack] = "ok" => fn \in G
           T == {n \in Nat : n <= MaxDepth => Right(n)}
<1>1. MaxDepth \in Nat
  BY InjectablesAssumption
<1>2. 0 \in T
  BY NoCallLeft
<1>3. ASSUME NEW n \in Nat, n \in T
      PROVE  n + 1 \in T
  <2> SUFFICES ASSUME n + 1 <= MaxDepth, NEW fn \in F, NEW stack \in K,
                      C[n + 1][fn][stack] = "ok"
               PROVE  fn \in G
    OBVIOUS
  <2> DEFINE below == C[n]
  <2>1. n + 1 \in 1 .. MaxDepth /\ (n + 1) - 1 = n
    BY <1>1
  <2>2. \A f \in F : \A k \in K : below[f][k] = "ok" => f \in G
    BY <1>1, <1>3, <2>1
  <2>3. \A p \in ParamsOf(fn, ctx) : Resolve(p, ctx, stack, below) = "ok"
    <3>1. C[n + 1][fn][stack] = "ok" <=>
              \A p \in ParamsOf(fn, ctx) : Resolve(p, ctx, stack, C[(n + 1) - 1]) = "ok"
      BY <2>1, OutcomeOfCall
    <3> QED
      BY <2>1, <3>1
  <2> HIDE DEF C, below, G, T
  <2>4. ASSUME NEW p \in ParamsOf(fn, ctx)
        PROVE  Had(p, ctx, G)
    <3> DEFINE source == Source(p.name, ctx)
               deeper == stack \cup {p.name}
    <3>1. deeper \in K /\ {} \in K
      BY Stacks
    <3>2. p.kind = "depends" => p.of \in F
      BY DEF WellFormed
    <3>3. ctx.resolver \in F
      BY DEF WellFormed
    <3>4. source = "factory" => ctx.factories[p.name] \in F
      BY FactoryOf
    <3>5. Resolve(p, ctx, stack, below) = "ok"
      BY <2>3
    <3>6. p.kind = "depends" => below[p.of][deeper] = "ok"
      BY <3>5, HowResolved
    <3>7. p.kind # "depends" =>
              /\ source = "principal" => below[ctx.resolver][{}] = "ok"
              /\ source = "factory" => below[ctx.factories[p.name]][deeper] = "ok"
              /\ source = "none" => p.kind = "plain"
      BY <3>5 DEF Resolve
    <3> HIDE DEF deeper, K, F
    <3>8. p.kind = "depends" => p.of \in G
      BY <2>2, <3>1, <3>2, <3>6
    <3>9. p.kind # "depends" /\ source = "principal" => ctx.resolver \in G
      BY <2>2, <3>1, <3>3, <3>7
    <3>10. p.kind # "depends" /\ source = "factory" => ctx.factories[p.name] \in G
      BY <2>2, <3>1, <3>4, <3>7
    <3> QED
      BY <3>7, <3>8, <3>9, <3>10 DEF Had
  <2>5. fn \in Grown(ctx, G)
    BY <2>4 DEF Grown, ParamsOf
  <2> QED
    BY <2>5, RoundsSettle DEF G
<1>4. Nat \subseteq T
  <2> HIDE DEF T
  <2> QED
    BY <1>2, <1>3, Climb
<1>5. ASSUME NEW n \in 0 .. MaxDepth
      PROVE  Right(n)
  <2>1. n \in Nat /\ n <= MaxDepth /\ n \in T
    BY <1>1, <1>4
  <2> HIDE DEF Right
  <2> QED
    BY <2>1
<1> QED
  BY <1>5

\* A function that is found in a round is found in one for the first time.
LEMMA FoundFirst ==
    ASSUME NEW ctx, WellFormed(ctx), NEW n \in 0 .. Size(ctx), NEW fn, fn \in Rounds(ctx)[n]
    PROVE  \E m \in 1 .. n : fn \in Rounds(ctx)[m] /\ fn \notin Rounds(ctx)[m - 1]
<1> DEFINE R == Rounds(ctx)
           T == {m \in 0 .. n : fn \in R[m]}
<1>1. Size(ctx) \in Nat
  BY FS_CardinalityType DEF WellFormed, Size
<1>2. R[0] = {}
  BY <1>1, RoundByRound
<1>3. n \in T /\ T \subseteq Nat
  BY <1>1
<1>4. PICK m \in T : \A k \in T : m <= k
  <2> HIDE DEF T
  <2> QED
    BY <1>3, Smallest
<1>5. m # 0
  BY <1>2
<1>6. m \in Nat /\ m <= n /\ fn \in R[m]
  BY <1>1
<1>7. m \in 1 .. n /\ m - 1 \in 0 .. n
  BY <1>1, <1>5, <1>6
<1>8. ~ (m <= m - 1)
  BY <1>6
<1>9. m - 1 \notin T
  <2> HIDE DEF T
  <2> QED
    BY <1>4, <1>8
<1>10. fn \notin R[m - 1]
  BY <1>7, <1>9
<1> QED
  BY <1>6, <1>7, <1>10

\* What is found in a round is found in all later ones.
LEMMA FoundForGood ==
    ASSUME NEW ctx, WellFormed(ctx), NEW m \in Nat, NEW n \in 0 .. Size(ctx), m <= n
    PROVE  Rounds(ctx)[m] \subseteq Rounds(ctx)[n]
<1> DEFINE R == Rounds(ctx)
           N == Size(ctx)
           T == {k \in Nat : m + k <= N => R[m] \subseteq R[m + k]}
<1>1. N \in Nat
  BY FS_CardinalityType DEF WellFormed, Size
<1>2. \A k \in 1 .. N : R[k - 1] \subseteq R[k]
  BY RoundsGrow
<1> HIDE DEF R, N
<1>3. 0 \in T
  OBVIOUS
<1>4. ASSUME NEW k \in Nat, k \in T
      PROVE  k + 1 \in T
  <2> SUFFICES ASSUME m + (k + 1) <= N
               PROVE  R[m] \subseteq R[m + (k + 1)]
    OBVIOUS
  <2> DEFINE l == m + (k + 1)
  <2>1. l \in 1 .. N /\ l - 1 = m + k /\ m + k <= N
    BY <1>1
  <2> HIDE DEF l
  <2>2. R[l - 1] \subseteq R[l]
    BY <1>2, <2>1
  <2>3. R[m] \subseteq R[m + k]
    BY <1>4, <2>1
  <2>4. R[m] \subseteq R[l]
    BY <2>1, <2>2, <2>3
  <2> QED
    BY <2>4 DEF l
<1>5. Nat \subseteq T
  <2> HIDE DEF T
  <2> QED
    BY <1>3, <1>4, Climb
<1>6. n - m \in Nat /\ m + (n - m) = n /\ n <= N
  BY <1>1 DEF N
<1>7. n - m \in T
  <2> HIDE DEF T
  <2> QED
    BY <1>5, <1>6
<1>8. R[m] \subseteq R[n]
  BY <1>6, <1>7
<1> QED
  BY <1>8 DEF R

\* A stack holds only names whose providers are not known yet.
FoundSoFar(ctx, stack, known) ==
    \A x \in stack : Source(x, ctx) = "factory" /\ ctx.factories[x] \notin known

\* Without Depends, what is found in a round is resolved with as many calls: what is on
\* the stack has been found later.
LEMMA FoundIsResolved ==
    ASSUME NEW ctx, WellFormed(ctx), Size(ctx) <= MaxDepth,
           \A f \in DOMAIN ctx.params : \A p \in ParamsOf(f, ctx) : p.kind # "depends"
    PROVE  \A left \in 0 .. MaxDepth : \A n \in 1 .. Size(ctx) :
           \A fn \in DOMAIN ctx.params : \A stack \in SUBSET ParamNames(ctx) :
               /\ n <= left
               /\ fn \in Rounds(ctx)[n] /\ fn \notin Rounds(ctx)[n - 1]
               /\ FoundSoFar(ctx, stack, Rounds(ctx)[n - 1])
               => Calls(ctx)[left][fn][stack] = "ok"
<1> DEFINE C == Calls(ctx)
           R == Rounds(ctx)
           N == Size(ctx)
           F == DOMAIN ctx.params
           K == SUBSET ParamNames(ctx)
           Due(left, n, fn, stack) ==
               /\ n <= left
               /\ fn \in R[n] /\ fn \notin R[n - 1]
               /\ FoundSoFar(ctx, stack, R[n - 1])
           Right(left) == \A n \in 1 .. N : \A fn \in F : \A stack \in K :
               Due(left, n, fn, stack) => C[left][fn][stack] = "ok"
           T == {left \in Nat : left <= MaxDepth => Right(left)}
<1>1. MaxDepth \in Nat
  BY InjectablesAssumption
<1>2. N \in Nat
  BY FS_CardinalityType DEF WellFormed, Size
<1>3. \A n \in 1 .. N : R[n] = Grown(ctx, R[n - 1])
  BY <1>2, RoundByRound
<1>4. 0 \in T
  <2>1. \A n \in 1 .. N : ~ (n <= 0)
    BY <1>2
  <2> QED
    BY <2>1
<1>5. ASSUME NEW left \in Nat, left \in T
      PROVE  left + 1 \in T
  <2> SUFFICES ASSUME left + 1 <= MaxDepth, NEW n \in 1 .. N, NEW fn \in F, NEW stack \in K,
                      Due(left + 1, n, fn, stack)
               PROVE  C[left + 1][fn][stack] = "ok"
    OBVIOUS
  <2> DEFINE below == C[left]
             known == R[n - 1]
  <2>1. left + 1 \in 1 .. MaxDepth /\ (left + 1) - 1 = left /\ left <= MaxDepth
    BY <1>1
  <2>2. Right(left)
    BY <1>5, <2>1
  <2>3. n \in Nat /\ n - 1 \in 0 .. N /\ n - 1 <= left /\ n - 1 \in Nat
    BY <1>2, <1>1
  <2>4. \A p \in ParamsOf(fn, ctx) : Had(p, ctx, known)
    BY <1>3 DEF Grown, ParamsOf
  <2>5. FoundSoFar(ctx, stack, known)
    OBVIOUS
  <2>6. ASSUME NEW f \in F, f \in known, NEW k \in K, FoundSoFar(ctx, k, known),
               NEW more, more \in K, more = k \/ \E x : more = k \cup {x}
                             /\ Source(x, ctx) = "factory" /\ ctx.factories[x] = f
        PROVE  below[f][more] = "ok"
    <3>1. PICK m \in 1 .. n - 1 : f \in R[m] /\ f \notin R[m - 1]
      BY <2>3, <2>6, FoundFirst
    <3>2. m - 1 \in Nat /\ m - 1 <= n - 1 /\ m \in 1 .. N /\ m <= left
      BY <1>1, <1>2, <2>3
    <3>3. R[m - 1] \subseteq known
      BY <2>3, <3>2, FoundForGood
    <3> HIDE DEF R, known
    <3>4. FoundSoFar(ctx, k, R[m - 1])
      BY <2>6, <3>3 DEF FoundSoFar
    <3>5. FoundSoFar(ctx, more, R[m - 1])
      BY <2>6, <3>1, <3>4 DEF FoundSoFar
    <3>6. Due(left, m, f, more)
      BY <3>1, <3>2, <3>5
    <3> HIDE DEF Due, F, K, C
    <3>7. C[left][f][more] = "ok"
      BY <2>2, <2>6, <3>2, <3>6
    <3> QED
      BY <3>7
  <2>7. ASSUME NEW p \in ParamsOf(fn, ctx)
        PROVE  Resolve(p, ctx, stack, below) = "ok"
    <3> DEFINE source == Source(p.name, ctx)
               deeper == stack \cup {p.name}
               made == ctx.factories[p.name]
    <3>1. p.kind # "depends" /\ Had(p, ctx, known)
      BY <2>4
    <3> HIDE DEF known, C, R, T
    <3>2. /\ source = "principal" => ctx.resolver \in known
          /\ source = "factory" => made \in known
          /\ source = "none" => p.kind = "plain"
      BY <3>1 DEF Had
    <3>3. p.name \notin stack
      BY <2>5, <3>2 DEF FoundSoFar
    <3>4. deeper \in K /\ {} \in K
      BY Stacks
    <3>5. source = "principal" => below[ctx.resolver][{}] = "ok"
      <4>1. FoundSoFar(ctx, {}, known)
        BY DEF FoundSoFar
      <4>2. ctx.resolver \in F
        BY DEF WellFormed
      <4> HIDE DEF below, F, K
      <4> QED
        BY <2>6, <3>2, <3>4, <4>1, <4>2
    <3>6. source = "factory" => below[made][deeper] = "ok"
      <4>1. source = "factory" => made \in F
        BY FactoryOf
      <4> HIDE DEF below, F, K
      <4> QED
        BY <2>5, <2>6, <3>2, <3>4, <4>1
    <3>7. source \notin {"principal", "factory"} => Resolve(p, ctx, stack, below) = "ok"
      BY <3>1, <3>2, <3>3, HowResolved
    <3>8. /\ source = "principal" => Resolve(p, ctx, stack, below) = below[ctx.resolver][{}]
          /\ source = "factory" => Resolve(p, ctx, stack, below) = below[made][deeper]
      BY <3>1, <3>3 DEF Resolve
    <3> HIDE DEF source, deeper, below
    <3> QED
      BY <3>5, <3>6, <3>7, <3>8
  <2>8. C[left + 1][fn][stack] = "ok" <=>
            \A p \in ParamsOf(fn, ctx) : Resolve(p, ctx, stack, C[(left + 1) - 1]) = "ok"
    BY <2>1, OutcomeOfCall
  <2> HIDE DEF C
  <2> QED
    BY <2>1, <2>7, <2>8
<1>6. Nat \subseteq T
  <2> HIDE DEF T
  <2> QED
    BY <1>4, <1>5, Climb
<1>7. ASSUME NEW left \in 0 .. MaxDepth
      PROVE  Right(left)
  <2>1. left \in Nat /\ left <= MaxDepth /\ left \in T
    BY <1>1, <1>6
  <2> HIDE DEF Right
  <2> QED
    BY <2>1
<1> QED
  BY <1>7

\* A handler gets its parameters exactly if they can be had.
LEMMA ResolvedIffHad ==
    ASSUME NEW ctx, WellFormed(ctx), Size(ctx) <= MaxDepth, NEW fn \in DOMAIN ctx.params
    PROVE  ResolvesWhatCanBeHad(fn, ctx)
<1> DEFINE depends == {p \in UNION {ToSet(ctx.params[f]) : f \in DOMAIN ctx.params} :
                          p.kind = "depends"}
           N == Size(ctx)
<1>1. MaxDepth \in Nat /\ N \in Nat
  BY InjectablesAssumption, FS_CardinalityType DEF WellFormed, Size
<1>2. ResolveKwargs(fn, ctx) = Calls(ctx)[MaxDepth][fn][{}]
  BY AllCalls
<1>3. {} \in SUBSET ParamNames(ctx) /\ MaxDepth \in 0 .. MaxDepth
  BY <1>1
<1>4. ResolveKwargs(fn, ctx) = "ok" => fn \in Grounded(ctx)
  BY <1>2, <1>3, OkCanBeHad
<1>5. ASSUME depends = {}, fn \in Grounded(ctx)
      PROVE  ResolveKwargs(fn, ctx) = "ok"
  <2>1. \A f \in DOMAIN ctx.params : \A p \in ParamsOf(f, ctx) : p.kind # "depends"
    BY <1>5 DEF ParamsOf
  <2>2. fn \in Rounds(ctx)[N] /\ N \in 0 .. N
    BY <1>1, <1>5, LastRound
  <2>3. PICK m \in 1 .. N : fn \in Rounds(ctx)[m] /\ fn \notin Rounds(ctx)[m - 1]
    BY <2>2, FoundFirst
  <2>4. FoundSoFar(ctx, {}, Rounds(ctx)[m - 1])
    BY DEF FoundSoFar
  <2>5. m <= MaxDepth
    BY <1>1
  <2>6. Calls(ctx)[MaxDepth][fn][{}] = "ok"
    BY <1>3, <2>1, <2>3, <2>4, <2>5, FoundIsResolved
  <2> QED
    BY <1>2, <2>6
<1> QED
  BY <1>4, <1>5 DEF ResolvesWhatCanBeHad

\* What is found in a round ends with as many calls, whatever is on the stack.
LEMMA FoundEnds ==
    ASSUME NEW ctx, WellFormed(ctx)
    PROVE  \A left \in 0 .. MaxDepth : \A n \in 0 .. Size(ctx) :
           \A fn \in DOMAIN ctx.params : \A stack \in SUBSET ParamNames(ctx) :
               n <= left /\ fn \in Rounds(ctx)[n] => Calls(ctx)[left][fn][stack] # "recursion"
<1> DEFINE C == Calls(ctx)
           R == Rounds(ctx)
           N == Size(ctx)
           F == DOMAIN ctx.params
           K == SUBSET ParamNames(ctx)
           Right(left) == \A n \in 0 .. N : \A fn \in F : \A stack \in K :
               n <= left /\ fn \in R[n] => C[left][fn][stack] # "recursion"
           T == {left \in Nat : left <= MaxDepth => Right(left)}
<1>1. MaxDepth \in Nat
  BY InjectablesAssumption
<1>2. N \in Nat
  BY FS_CardinalityType DEF WellFormed, Size
<1>3. R[0] = {} /\ \A n \in 1 .. N : R[n] = Grown(ctx, R[n - 1])
  BY <1>2, RoundByRound
<1>4. 0 \in T
  <2>1. \A n \in 0 .. N : n <= 0 => n = 0
    BY <1>2
  <2> HIDE DEF R, C
  <2> QED
    BY <1>3, <2>1
<1>5. ASSUME NEW left \in Nat, left \in T
      PROVE  left + 1 \in T
  <2> SUFFICES ASSUME left + 1 <= MaxDepth, NEW n \in 0 .. N, NEW fn \in F, NEW stack \in K,
                      n <= left + 1, fn \in R[n]
               PROVE  C[left + 1][fn][stack] # "recursion"
    OBVIOUS
  <2> DEFINE below == C[left]
             known == R[n - 1]
             o == C[left + 1][fn][stack]
  <2>1. left + 1 \in 1 .. MaxDepth /\ (left + 1) - 1 = left /\ left <= MaxDepth
    BY <1>1
  <2>2. Right(left)
    BY <1>5, <2>1
  <2>3. n # 0
    BY <1>3
  <2>4. n \in 1 .. N /\ n - 1 \in 0 .. N /\ n - 1 <= left
    BY <1>2, <2>3
  <2>5. \A p \in ParamsOf(fn, ctx) : Had(p, ctx, known)
    BY <1>3, <2>4 DEF Grown, ParamsOf
  <2> HIDE DEF C, R, K, F
  <2>6. \A f \in F : \A k \in K : f \in known => below[f][k] # "recursion"
    BY <2>2, <2>4
  <2>7. ASSUME NEW p \in ParamsOf(fn, ctx)
        PROVE  Resolve(p, ctx, stack, below) # "recursion"
    <3> DEFINE source == Source(p.name, ctx)
               deeper == stack \cup {p.name}
               made == ctx.factories[p.name]
    <3> HIDE DEF below, known
    <3>1. Had(p, ctx, known)
      BY <2>5
    <3>2. deeper \in K /\ {} \in K
      BY Stacks DEF K, F
    <3>3. ctx.resolver \in F /\ (source = "factory" => made \in F)
          /\ (p.kind = "depends" => p.of \in F)
      BY FactoryOf DEF WellFormed, F
    <3> HIDE DEF deeper
    <3>4. p.kind = "depends" => below[p.of][deeper] # "recursion"
      BY <2>6, <3>1, <3>2, <3>3 DEF Had
    <3>5. p.kind # "depends" /\ source = "principal" => below[ctx.resolver][{}] # "recursion"
      BY <2>6, <3>1, <3>2, <3>3 DEF Had
    <3>6. p.kind # "depends" /\ source = "factory" => below[made][deeper] # "recursion"
      BY <2>6, <3>1, <3>2, <3>3 DEF Had
    <3> QED
      BY <3>4, <3>5, <3>6 DEF Resolve, deeper
  <2>8. o # "ok" => \E p \in ParamsOf(fn, ctx) : o = Resolve(p, ctx, stack, C[(left + 1) - 1])
    BY <2>1, OutcomeOfCall DEF C, F, K
  <2> HIDE DEF o
  <2>9. o # "recursion"
    BY <2>1, <2>7, <2>8
  <2> QED
    BY <2>9 DEF o
<1>6. Nat \subseteq T
  <2> HIDE DEF T
  <2> QED
    BY <1>4, <1>5, Climb
<1>7. ASSUME NEW left \in 0 .. MaxDepth
      PROVE  Right(left)
  <2>1. left \in Nat /\ left <= MaxDepth /\ left \in T
    BY <1>1, <1>6
  <2> HIDE DEF Right
  <2> QED
    BY <2>1
<1> QED
  BY <1>7

\* A default is evaluated before the function that has it exists.
MadeInOrder(ctx, made) ==
    /\ made \in [DOMAIN ctx.params -> 1 .. Size(ctx)]
    /\ \A fn \in DOMAIN ctx.params : \A p \in ParamsOf(fn, ctx) :
          p.kind = "depends" => made[p.of] < made[fn]

\* The names with a provider that are not on the stack.
Open(ctx, stack) == Cardinality(DOMAIN ctx.factories \ stack)

\* How many calls are still to be made, at most, before it comes to the resolver.
ToGo(ctx, made, fn, stack) == Open(ctx, stack) * Size(ctx) + made[fn]

\* A name that is put on the stack is one less that can be.
LEMMA OneLessOpen ==
    ASSUME NEW ctx, WellFormed(ctx), NEW stack, NEW name
    PROVE  /\ Open(ctx, stack) \in Nat /\ Open(ctx, stack \cup {name}) \in Nat
           /\ Open(ctx, stack \cup {name}) <= Open(ctx, stack)
           /\ name \in DOMAIN ctx.factories \ stack =>
                 Open(ctx, stack \cup {name}) = Open(ctx, stack) - 1
<1> DEFINE all == DOMAIN ctx.factories
           was == all \ stack
           is == all \ (stack \cup {name})
<1>1. IsFiniteSet(all)
  BY DEF WellFormed
<1>2. IsFiniteSet(was)
  BY <1>1, FS_Subset
<1>3. is = was \ {name}
  OBVIOUS
<1> HIDE DEF was, is
<1>4. /\ IsFiniteSet(is)
      /\ Cardinality(is) = IF name \in was THEN Cardinality(was) - 1 ELSE Cardinality(was)
  BY <1>2, <1>3, FS_RemoveElement
<1>5. Cardinality(was) \in Nat /\ Cardinality(is) \in Nat
  BY <1>2, <1>4, FS_CardinalityType
<1> QED
  BY <1>4, <1>5 DEF Open, was, is

\* A parameter that is resolved by a call leaves less to go, unless it is the resolver's.
LEMMA LessToGo ==
    ASSUME NEW ctx, WellFormed(ctx), NEW made, MadeInOrder(ctx, made),
           NEW fn \in DOMAIN ctx.params, NEW p \in ParamsOf(fn, ctx),
           NEW stack \in SUBSET ParamNames(ctx)
    PROVE  LET deeper == stack \cup {p.name}
           IN /\ ToGo(ctx, made, fn, stack) \in Nat \ {0}
              /\ p.kind = "depends" =>
                    ToGo(ctx, made, p.of, deeper) < ToGo(ctx, made, fn, stack)
              /\ (p.name \notin stack /\ Source(p.name, ctx) = "factory") =>
                    ToGo(ctx, made, ctx.factories[p.name], deeper) < ToGo(ctx, made, fn, stack)
<1> DEFINE deeper == stack \cup {p.name}
           N == Size(ctx)
           a == Open(ctx, stack)
           b == Open(ctx, deeper)
           F == DOMAIN ctx.params
<1>1. N \in Nat
  BY FS_CardinalityType DEF WellFormed, Size
<1>2. a \in Nat /\ b \in Nat /\ b <= a
  BY OneLessOpen
<1>3. \A f \in F : made[f] \in 1 .. N
  BY DEF MadeInOrder
<1>4. (p.name \notin stack /\ Source(p.name, ctx) = "factory") =>
          b = a - 1 /\ ctx.factories[p.name] \in F
  BY FactoryOf, OneLessOpen
<1>5. p.kind = "depends" => p.of \in F /\ made[p.of] < made[fn]
  BY DEF WellFormed, MadeInOrder
<1>6. /\ ToGo(ctx, made, fn, stack) = a * N + made[fn]
      /\ \A f \in F : ToGo(ctx, made, f, deeper) = b * N + made[f]
  BY DEF ToGo
<1> HIDE DEF N, a, b, F, deeper
<1>7. a * N \in Nat /\ b * N \in Nat /\ b * N <= a * N
  BY <1>1, <1>2, TimesIsMonotonic
<1>8. b = a - 1 => b * N + N = a * N
  BY <1>1, <1>2
<1>9. made[fn] \in 1 .. N
  BY <1>3 DEF F
<1>10. ToGo(ctx, made, fn, stack) \in Nat \ {0}
  BY <1>6, <1>7, <1>9
<1>11. p.kind = "depends" => ToGo(ctx, made, p.of, deeper) < ToGo(ctx, made, fn, stack)
  <2> SUFFICES ASSUME p.kind = "depends"
               PROVE  ToGo(ctx, made, p.of, deeper) < ToGo(ctx, made, fn, stack)
    OBVIOUS
  <2>1. made[p.of] \in 1 .. N /\ made[p.of] < made[fn]
    BY <1>3, <1>5
  <2>2. ToGo(ctx, made, p.of, deeper) = b * N + made[p.of]
    BY <1>5, <1>6
  <2> QED
    BY <1>1, <1>6, <1>7, <1>9, <2>1, <2>2
<1>12. (p.name \notin stack /\ Source(p.name, ctx) = "factory") =>
           ToGo(ctx, made, ctx.factories[p.name], deeper) < ToGo(ctx, made, fn, stack)
  <2> SUFFICES ASSUME p.name \notin stack, Source(p.name, ctx) = "factory"
               PROVE  ToGo(ctx, made, ctx.factories[p.name], deeper)
                          < ToGo(ctx, made, fn, stack)
    OBVIOUS
  <2> DEFINE f == ctx.factories[p.name]
  <2>1. made[f] \in 1 .. N /\ b * N + N = a * N
    BY <1>3, <1>4, <1>8
  <2>2. ToGo(ctx, made, f, deeper) = b * N + made[f]
    BY <1>4, <1>6
  <2> QED
    BY <1>1, <1>6, <1>7, <1>9, <2>1, <2>2
<1> QED
  BY <1>10, <1>11, <1>12 DEF deeper

\* If the resolver can be called, a call ends: with what is to go before it comes to the
\* resolver, and one round for each function below the resolver.
LEMMA CallsEnd ==
    ASSUME NEW ctx, WellFormed(ctx), NEW made, MadeInOrder(ctx, made),
           ctx.resolver \in Grounded(ctx)
    PROVE  \A left \in 0 .. MaxDepth : \A fn \in DOMAIN ctx.params :
           \A stack \in SUBSET ParamNames(ctx) :
               ToGo(ctx, made, fn, stack) + Size(ctx) <= left
               => Calls(ctx)[left][fn][stack] # "recursion"
<1> DEFINE C == Calls(ctx)
           N == Size(ctx)
           F == DOMAIN ctx.params
           K == SUBSET ParamNames(ctx)
           Right(left) == \A fn \in F : \A stack \in K :
               ToGo(ctx, made, fn, stack) + N <= left => C[left][fn][stack] # "recursion"
           T == {left \in Nat : left <= MaxDepth => Right(left)}
<1>1. MaxDepth \in Nat
  BY InjectablesAssumption
<1>2. N \in Nat
  BY FS_CardinalityType DEF WellFormed, Size
<1>3. ctx.resolver \in Rounds(ctx)[N] /\ N \in 0 .. N
  BY <1>2, LastRound
<1>4. \A fn \in F : \A stack \in K : ToGo(ctx, made, fn, stack) \in Nat \ {0}
  <2> SUFFICES ASSUME NEW fn \in F, NEW stack \in K
               PROVE  ToGo(ctx, made, fn, stack) \in Nat \ {0}
    OBVIOUS
  <2>1. Open(ctx, stack) \in Nat
    BY OneLessOpen
  <2>2. Open(ctx, stack) * N \in Nat
    BY <1>2, <2>1
  <2>3. made[fn] \in 1 .. N
    BY DEF MadeInOrder
  <2> HIDE DEF N
  <2>4. ToGo(ctx, made, fn, stack) = Open(ctx, stack) * N + made[fn]
    BY DEF ToGo, N
  <2> QED
    BY <1>2, <2>2, <2>3, <2>4
<1>5. 0 \in T
  <2> SUFFICES ASSUME NEW fn \in F, NEW stack \in K, ToGo(ctx, made, fn, stack) + N <= 0
               PROVE  FALSE
    OBVIOUS
  <2>1. ToGo(ctx, made, fn, stack) \in Nat \ {0}
    BY <1>4
  <2> HIDE DEF N
  <2> QED
    BY <1>2, <2>1
<1>6. ASSUME NEW left \in Nat, left \in T
      PROVE  left + 1 \in T
  <2> SUFFICES ASSUME left + 1 <= MaxDepth, NEW fn \in F, NEW stack \in K,
                      ToGo(ctx, made, fn, stack) + N <= left + 1
               PROVE  C[left + 1][fn][stack] # "recursion"
    OBVIOUS
  <2> DEFINE below == C[left]
             toGo == ToGo(ctx, made, fn, stack)
             o == C[left + 1][fn][stack]
  <2>1. left + 1 \in 1 .. MaxDepth /\ (left + 1) - 1 = left /\ left <= MaxDepth
        /\ left \in 0 .. MaxDepth
    BY <1>1
  <2>2. Right(left)
    BY <1>6, <2>1
  <2>3. toGo \in Nat \ {0}
    BY <1>4
  <2>4. toGo + N <= left + 1
    OBVIOUS
  <2> HIDE DEF N, C, K, F, toGo
  <2>5. N <= left /\ \A x \in Nat : x < toGo => x + N <= left
    BY <1>2, <2>3, <2>4
  <2>6. \A k \in K : below[ctx.resolver][k] # "recursion"
    <3>1. ctx.resolver \in F
      BY DEF WellFormed, F
    <3> QED
      BY <1>3, <2>1, <2>5, <3>1, FoundEnds DEF N, C, K, F
  <2>7. ASSUME NEW f \in F, NEW k \in K, ToGo(ctx, made, f, k) < toGo
        PROVE  below[f][k] # "recursion"
    <3>1. ToGo(ctx, made, f, k) \in Nat
      BY <1>4
    <3>2. ToGo(ctx, made, f, k) + N <= left
      BY <2>5, <2>7, <3>1
    <3> QED
      BY <2>2, <3>2
  <2>8. ASSUME NEW p \in ParamsOf(fn, ctx)
        PROVE  Resolve(p, ctx, stack, below) # "recursion"
    <3> DEFINE source == Source(p.name, ctx)
               deeper == stack \cup {p.name}
               maker == ctx.factories[p.name]
    <3> HIDE DEF below
    <3>1. deeper \in K /\ {} \in K
      BY Stacks DEF K, F
    <3>2. (source = "factory" => maker \in F) /\ (p.kind = "depends" => p.of \in F)
      BY FactoryOf DEF WellFormed, F
    <3>3. /\ p.kind = "depends" => ToGo(ctx, made, p.of, deeper) < toGo
          /\ (p.name \notin stack /\ source = "factory") =>
                ToGo(ctx, made, maker, deeper) < toGo
      BY LessToGo DEF F, K, toGo
    <3> HIDE DEF deeper
    <3>4. p.kind = "depends" => below[p.of][deeper] # "recursion"
      BY <2>7, <3>1, <3>2, <3>3
    <3>5. below[ctx.resolver][{}] # "recursion"
      BY <2>6, <3>1
    <3>6. (p.name \notin stack /\ source = "factory") => below[maker][deeper] # "recursion"
      BY <2>7, <3>1, <3>2, <3>3
    <3> QED
      BY <3>4, <3>5, <3>6 DEF Resolve, deeper
  <2>9. o # "ok" => \E p \in ParamsOf(fn, ctx) : o = Resolve(p, ctx, stack, C[(left + 1) - 1])
    BY <2>1, OutcomeOfCall DEF C, F, K
  <2> HIDE DEF o
  <2>10. o # "recursion"
    BY <2>1, <2>8, <2>9
  <2> QED
    BY <2>10 DEF o
<1>7. Nat \subseteq T
  <2> HIDE DEF T
  <2> QED
    BY <1>5, <1>6, Climb
<1>8. ASSUME NEW left \in 0 .. MaxDepth
      PROVE  Right(left)
  <2>1. left \in Nat /\ left <= MaxDepth /\ left \in T
    BY <1>1, <1>7
  <2> HIDE DEF Right
  <2> QED
    BY <2>1
<1> QED
  BY <1>8

\* Python allows as many calls as a name and a function, on the longest way there can be,
\* and the resolver of the principal once, may take.
WithinTheLimit(ctx) == (Cardinality(DOMAIN ctx.factories) + 2) * Size(ctx) <= MaxDepth

\* What injection is about: a default is evaluated before the function that has it, and
\* there are not so many functions that Python gives up.
IsContext(ctx) ==
    /\ WellFormed(ctx)
    /\ WithinTheLimit(ctx)
    /\ \E made : MadeInOrder(ctx, made)

\* With what a context has, the limit allows for everything there is to go.
LEMMA LimitSuffices ==
    ASSUME NEW ctx, WellFormed(ctx), WithinTheLimit(ctx), NEW made, MadeInOrder(ctx, made),
           NEW fn \in DOMAIN ctx.params
    PROVE  /\ Size(ctx) \in Nat /\ 2 <= MaxDepth /\ Size(ctx) <= MaxDepth
           /\ ToGo(ctx, made, fn, {}) + Size(ctx) <= MaxDepth
<1> DEFINE N == Size(ctx)
           c == Cardinality(DOMAIN ctx.factories)
<1>1. N \in Nat /\ c \in Nat
  BY FS_CardinalityType DEF WellFormed, Size
<1>2. (c + 2) * N <= MaxDepth /\ MaxDepth \in Nat
  BY InjectablesAssumption DEF WithinTheLimit
<1>3. made[fn] \in 1 .. N
  BY DEF MadeInOrder
<1>4. ToGo(ctx, made, fn, {}) = c * N + made[fn]
  BY DEF ToGo, Open
<1> HIDE DEF N, c
<1>5. (c + 2) * N = c * N + N + N /\ c * N \in Nat
  BY <1>1
<1>6. 1 <= N
  BY <1>1, <1>3
<1> QED
  BY <1>1, <1>2, <1>3, <1>4, <1>5, <1>6 DEF N

\* A circle is reported as one.
LEMMA CircleIsNamed ==
    ASSUME NEW ctx, IsContext(ctx), NEW fn \in DOMAIN ctx.params
    PROVE  CirclesAreNamed(fn, ctx)
<1> SUFFICES ASSUME ctx.resolver \in Grounded(ctx)
             PROVE  ResolveKwargs(fn, ctx) # "recursion"
  BY DEF CirclesAreNamed
<1>1. PICK made : MadeInOrder(ctx, made)
  BY DEF IsContext
<1>2. WellFormed(ctx) /\ WithinTheLimit(ctx)
  BY DEF IsContext
<1>3. ToGo(ctx, made, fn, {}) + Size(ctx) <= MaxDepth
  BY <1>1, <1>2, LimitSuffices
<1>4. {} \in SUBSET ParamNames(ctx) /\ MaxDepth \in 0 .. MaxDepth
  BY InjectablesAssumption
<1>5. Calls(ctx)[MaxDepth][fn][{}] # "recursion"
  BY <1>1, <1>2, <1>3, <1>4, CallsEnd
<1> QED
  BY <1>5, AllCalls

\* What a context is made of.
ContextFields == {"params", "reserved", "extras", "values", "factories", "principal", "resolver"}

\* A handler is nobody's provider, and not the resolver of the principal.
IsOnlyHandled(fn, ctx) ==
    /\ fn \in DOMAIN ctx.params /\ fn # ctx.resolver
    /\ \A n \in DOMAIN ctx.factories : ctx.factories[n] # fn

\* A handler that the build accepts has a source for each of its parameters.
LEMMA AcceptedHasSources ==
    ASSUME NEW ctx, IsContext(ctx), ContextFields \subseteq DOMAIN ctx,
           NEW fn, IsOnlyHandled(fn, ctx)
    PROVE  AcceptedHandlerHasItsSources(fn, ctx)
<1> DEFINE bare == [f \in DOMAIN ctx.params |-> IF f = fn THEN ctx.params[f] ELSE <<>>]
           own == [ctx EXCEPT !.params = [f \in DOMAIN @ |-> IF f = fn THEN @[f] ELSE <<>>]]
           F == DOMAIN ctx.params
           C == Calls(own)
<1> SUFFICES ASSUME Validate(fn, ctx, FALSE), ctx.known \subseteq ctx.extras
             PROVE  ResolveKwargs(fn, own) = "ok"
  BY DEF AcceptedHandlerHasItsSources
<1>1. own = [ctx EXCEPT !.params = bare]
  OBVIOUS
<1> HIDE DEF own
<1>2. /\ own.params = bare
      /\ own.factories = ctx.factories /\ own.resolver = ctx.resolver
      /\ own.extras = ctx.extras /\ own.reserved = ctx.reserved
      /\ own.principal = ctx.principal /\ own.values = ctx.values
  BY <1>1 DEF ContextFields
<1>3. DOMAIN bare = F /\ bare[fn] = ctx.params[fn] /\ fn \in F
  BY DEF IsOnlyHandled
<1>4. \A f \in F \ {fn} : bare[f] = <<>>
  OBVIOUS
<1> HIDE DEF bare
<1>5. ParamsOf(fn, own) = ParamsOf(fn, ctx)
  BY <1>2, <1>3 DEF ParamsOf
<1>6. \A f \in F \ {fn} : ParamsOf(f, own) = {} /\ DOMAIN own.params[f] = {}
  <2> DEFINE none == <<>>
  <2>1. DOMAIN none = {}
    OBVIOUS
  <2>2. \A f \in F \ {fn} : own.params[f] = none
    BY <1>2, <1>4
  <2> HIDE DEF none
  <2> QED
    BY <2>1, <2>2 DEF ParamsOf, ToSet
<1>7. WellFormed(ctx)
  BY DEF IsContext
<1>8. WellFormed(own)
  <2>1. \A f \in F : /\ DOMAIN own.params[f] \subseteq Nat
                     /\ \A p \in ParamsOf(f, own) : p.kind = "depends" => p.of \in F
    BY <1>2, <1>3, <1>5, <1>6, <1>7 DEF WellFormed
  <2> QED
    BY <1>2, <1>3, <1>7, <2>1 DEF WellFormed
<1>9. 2 <= MaxDepth /\ MaxDepth \in Nat /\ \A p \in ParamsOf(fn, ctx) : p.kind = "depends" => p.of # fn
  <2>1. PICK made : MadeInOrder(ctx, made)
    BY DEF IsContext
  <2>2. \A p \in ParamsOf(fn, ctx) : p.kind = "depends" => made[p.of] < made[fn]
    BY <1>3, <2>1 DEF MadeInOrder
  <2>3. made[fn] \in 1 .. Size(ctx) /\ Size(ctx) \in Nat
    BY <1>3, <1>7, <2>1, FS_CardinalityType DEF MadeInOrder, WellFormed, Size
  <2>4. ~ (made[fn] < made[fn])
    BY <2>3
  <2>5. 2 <= MaxDepth
    BY <1>3, <1>7, <2>1, LimitSuffices DEF IsContext
  <2> QED
    BY <2>2, <2>4, <2>5, InjectablesAssumption
<1>10. MaxDepth \in 1 .. MaxDepth /\ MaxDepth - 1 \in 1 .. MaxDepth
  BY <1>9
<1>11. \A f \in F \ {fn} : \A stack \in SUBSET ParamNames(own) : C[MaxDepth - 1][f][stack] = "ok"
  BY <1>2, <1>3, <1>6, <1>8, <1>10, OutcomeOfCall
<1>12. ASSUME NEW p \in ParamsOf(fn, ctx)
       PROVE  Resolve(p, own, {}, C[MaxDepth - 1]) = "ok"
  <2> DEFINE source == Source(p.name, own)
             below == C[MaxDepth - 1]
             deeper == {} \cup {p.name}
  <2>1. Supplies(p, ctx)
    BY DEF Validate, ParamsOf
  <2>2. source = "none" => p.kind # "required" /\ p.kind \in {"depends", "plain"}
    BY <1>2, <2>1 DEF Supplies, Source
  <2>3. deeper \in SUBSET ParamNames(own) /\ {} \in SUBSET ParamNames(own)
    BY <1>2, <1>3, <1>5, Stacks
  <2>4. p.kind = "depends" => p.of \in F \ {fn}
    BY <1>3, <1>7, <1>9 DEF WellFormed
  <2>5. own.resolver \in F \ {fn}
    BY <1>2, <1>7 DEF WellFormed, IsOnlyHandled
  <2>6. source = "factory" => own.factories[p.name] \in F \ {fn}
    BY <1>2, <1>3, <1>8, FactoryOf DEF IsOnlyHandled
  <2> HIDE DEF C, F
  <2>7. /\ p.kind = "depends" => below[p.of][deeper] = "ok"
        /\ below[own.resolver][{}] = "ok"
        /\ source = "factory" => below[own.factories[p.name]][deeper] = "ok"
    BY <1>11, <2>3, <2>4, <2>5, <2>6
  <2> HIDE DEF below
  <2>8. Resolve(p, own, {}, below) = "ok"
    BY <2>2, <2>7 DEF Resolve
  <2> QED
    BY <2>8 DEF below
<1>13. C[MaxDepth][fn][{}] = "ok"
  <2>1. {} \in SUBSET ParamNames(own)
    OBVIOUS
  <2> QED
    BY <1>2, <1>3, <1>5, <1>8, <1>10, <1>12, <2>1, OutcomeOfCall
<1> QED
  BY <1>13, AllCalls

\* The lint of annotations looks where injection looks.
LEMMA LintLooksThere ==
    ASSUME NEW ctx, ContextFields \subseteq DOMAIN ctx, NEW fn
    PROVE  LintIsNoFalseAlarm(fn, ctx)
<1> DEFINE given(p) == IF p.kind = "depends" THEN ctx.classes[p.of]
                       ELSE IF Source(p.name, ctx) = "factory"
                            THEN ctx.classes[ctx.factories[p.name]]
                       ELSE IF Source(p.name, ctx) = "value" THEN ctx.classes[p.name]
                       ELSE Unknown
<1> SUFFICES ASSUME Validate(fn, ctx, FALSE), ~ Validate(fn, ctx, TRUE), ctx.extras = ctx.known
             PROVE  \E p \in ToSet(ctx.params[fn]) :
                        Unknown \notin {p.class, given(p)} /\ <<given(p), p.class>> \notin Subclasses
  BY DEF LintIsNoFalseAlarm
<1>1. PICK p \in ToSet(ctx.params[fn]) : Conflicts(p, ctx)
  BY DEF Validate
<1> DEFINE seen == [ctx EXCEPT !.extras = ctx.known]
<1>2. Source(p.name, seen) = Source(p.name, ctx)
  <2>1. /\ seen.extras = ctx.extras /\ seen.reserved = ctx.reserved
        /\ seen.principal = ctx.principal /\ seen.values = ctx.values
        /\ seen.factories = ctx.factories
    BY DEF ContextFields
  <2> HIDE DEF seen
  <2> QED
    BY <2>1 DEF Source
<1>3. Provided(p, ctx) = given(p)
  BY <1>2 DEF Provided
<1> HIDE DEF given
<1> QED
  BY <1>1, <1>3 DEF Conflicts

\* A parameter is resolved exactly when the providers can supply it, and a circle among
\* them is reported, whatever the providers are.
THEOREM InjectionIsSound ==
    ASSUME input.kind = "handler" =>
               IsContext(input.ctx) /\ "handler" \in DOMAIN input.ctx.params
    PROVE  ResolutionIsSound
<1> SUFFICES ASSUME input.kind = "handler"
             PROVE  /\ ResolvesWhatCanBeHad("handler", input.ctx)
                    /\ CirclesAreNamed("handler", input.ctx)
  BY DEF ResolutionIsSound
<1>1. \E made : MadeInOrder(input.ctx, made)
  BY DEF IsContext
<1>2. Size(input.ctx) <= MaxDepth
  BY <1>1, LimitSuffices DEF IsContext
<1> QED
  BY <1>2, ResolvedIffHad, CircleIsNamed DEF IsContext

\* What the build accepts is injected, whatever the providers are.
THEOREM BuildMeansInjection ==
    ASSUME input.kind = "handler" =>
               /\ IsContext(input.ctx) /\ ContextFields \subseteq DOMAIN input.ctx
               /\ IsOnlyHandled("handler", input.ctx)
    PROVE  BuildAgreesWithInjection
  BY AcceptedHasSources, LintLooksThere DEF BuildAgreesWithInjection

(***************************************************************************)
(* The middlewares around a handler.                                       *)
(***************************************************************************)

\* The middleware that is wrapped as the n-th, around what has been wrapped.
Wrap(mws, n, inner) == <<mws[Len(mws) - n + 1]>> \o inner

\* f[n] is what the last n middlewares of the chain come to.
Wraps(f, m, mws, core) ==
    f = [n \in 0 .. m |-> IF n = 0 THEN core ELSE Wrap(mws, n, f[n - 1])]

\* A chain can be wrapped from its end up to any middleware.
LEMMA WrappedUpTo ==
    ASSUME NEW mws, NEW core
    PROVE  \A m \in Nat : \E f : Wraps(f, m, mws, core)
<1> DEFINE Unfolds(f, m) == f = [n \in 0 .. m |->
               IF n = 0 THEN core ELSE Wrap(mws, n, f[n - 1])]
           S == {m \in Nat : \E f : Unfolds(f, m)}
<1>1. 0 \in S
  <2>1. Unfolds([n \in 0 .. 0 |-> core], 0)
    OBVIOUS
  <2> QED
    BY <2>1
<1>2. ASSUME NEW m \in Nat, m \in S
      PROVE  m + 1 \in S
  <2>1. PICK f : Unfolds(f, m)
    BY <1>2
  <2> DEFINE g == [n \in 0 .. m + 1 |->
                      IF n <= m THEN f[n] ELSE Wrap(mws, n, f[n - 1])]
  <2>2. ASSUME NEW n \in 0 .. m + 1
        PROVE  g[n] = IF n = 0 THEN core ELSE Wrap(mws, n, g[n - 1])
    <3>1. CASE n = 0
      <4>1. 0 \in 0 .. m /\ 0 \in 0 .. m + 1
        OBVIOUS
      <4>2. g[0] = f[0] /\ f[0] = core
        BY <4>1, <2>1
      <4> QED
        BY <4>2, <3>1
    <3>2. CASE n # 0
      <4>1. n - 1 \in 0 .. m /\ n - 1 \in 0 .. m + 1 /\ n - 1 <= m
        BY <3>2
      <4>2. g[n - 1] = f[n - 1]
        BY <4>1
      <4>3. CASE n <= m
        <5>1. n \in 0 .. m
          BY <4>3
        <5>2. f[n] = Wrap(mws, n, f[n - 1])
          BY <5>1, <2>1, <3>2
        <5>3. g[n] = f[n]
          BY <4>3
        <5> HIDE DEF g
        <5> QED
          BY <5>2, <5>3, <4>2, <3>2
      <4>4. CASE ~ (n <= m)
        <5>1. g[n] = Wrap(mws, n, f[n - 1])
          BY <4>4
        <5> HIDE DEF g
        <5> QED
          BY <5>1, <4>2, <3>2
      <4> QED
        BY <4>3, <4>4
    <3> QED
      BY <3>1, <3>2
  <2>3. Unfolds(g, m + 1)
    <3>1. g = [n \in 0 .. m + 1 |-> g[n]]
      OBVIOUS
    <3> HIDE DEF g
    <3> QED
      BY <3>1, <2>2
  <2>4. \E h : Unfolds(h, m + 1)
    <3> HIDE DEF g, Unfolds
    <3> QED
      BY <2>3
  <2> QED
    BY <2>4
<1>3. Nat \subseteq S
  <2> HIDE DEF S
  <2> QED
    BY <1>1, <1>2, Climb
<1> QED
  BY <1>3 DEF Wraps

\* What is wrapped from the end has the first of the chain outermost.
LEMMA ComposedInOrder ==
    ASSUME NEW S, NEW mws \in Seq(S), NEW core \in Seq(S)
    PROVE  Compose(mws, core) = mws \o core
<1> DEFINE l == Len(mws)
           c == Len(core)
           wrapped == CHOOSE f : Wraps(f, l, mws, core)
           Right(n) == /\ wrapped[n] \in Seq(S) /\ Len(wrapped[n]) = n + c
                       /\ \A i \in 1 .. n : wrapped[n][i] = mws[l - n + i]
                       /\ \A i \in n + 1 .. n + c : wrapped[n][i] = core[i - n]
           T == {n \in Nat : n <= l => Right(n)}
<1>1. l \in Nat /\ c \in Nat
  BY LenProperties
<1>2. Compose(mws, core) = wrapped[l]
  BY DEF Compose, Wrap, Wraps
<1>3. \E f : Wraps(f, l, mws, core)
  BY <1>1, WrappedUpTo
<1>4. Wraps(wrapped, l, mws, core)
  BY <1>3
<1> HIDE DEF wrapped
<1>5. \A n \in 0 .. l :
          wrapped[n] = IF n = 0 THEN core ELSE Wrap(mws, n, wrapped[n - 1])
  BY <1>4 DEF Wraps
<1>6. 0 \in T
  <2>1. wrapped[0] = core
    <3>1. 0 \in 0 .. l
      BY <1>1
    <3> HIDE DEF l
    <3> QED
      BY <1>5, <3>1
  <2>2. \A i \in 0 + 1 .. 0 + c : i - 0 = i
    BY <1>1
  <2> HIDE DEF l
  <2> QED
    BY <1>1, <2>1, <2>2
<1>7. ASSUME NEW n \in Nat, n \in T
      PROVE  n + 1 \in T
  <2> SUFFICES ASSUME n + 1 <= l
               PROVE  Right(n + 1)
    OBVIOUS
  <2> DEFINE was == wrapped[n]
             mw == mws[l - n]
             one == <<mw>>
  <2>1. /\ n + 1 \in 0 .. l /\ n + 1 # 0 /\ (n + 1) - 1 = n /\ n <= l
        /\ l - n \in 1 .. l /\ l - (n + 1) + 1 = l - n
    BY <1>1
  <2>2. Right(n)
    BY <1>7, <2>1
  <2>3. wrapped[n + 1] = one \o was
    BY <1>5, <2>1 DEF Wrap
  <2>4. mw \in S
    BY <2>1, ElementOfSeq
  <2>5. one \in Seq(S) /\ Len(one) = 1 /\ one[1] = mw
    BY <2>4
  <2> HIDE DEF one, mw, was
  <2>6. was \in Seq(S) /\ Len(was) = n + c
    BY <2>2 DEF was
  <2>7. /\ one \o was \in Seq(S) /\ Len(one \o was) = 1 + (n + c)
        /\ \A i \in 1 .. 1 : (one \o was)[i] = one[i]
        /\ \A i \in 1 + 1 .. 1 + (n + c) : (one \o was)[i] = was[i - 1]
    <3> DEFINE both == one \o was
    <3>1. /\ both \in Seq(S) /\ Len(both) = Len(one) + Len(was)
          /\ \A i \in 1 .. Len(one) : both[i] = one[i]
          /\ \A i \in Len(one) + 1 .. Len(one) + Len(was) : both[i] = was[i - Len(one)]
      <4>1. one \in Seq(S) /\ was \in Seq(S)
        BY <2>5, <2>6
      <4> QED
        BY <4>1, JoinedTwo, Zenon
    <3> HIDE DEF both
    <3>2. /\ both \in Seq(S) /\ Len(both) = 1 + (n + c)
          /\ \A i \in 1 .. 1 : both[i] = one[i]
          /\ \A i \in 1 + 1 .. 1 + (n + c) : both[i] = was[i - 1]
      BY <2>5, <2>6, <3>1
    <3> QED
      BY <3>2 DEF both
  <2>8. ASSUME NEW i \in 1 .. n + 1
        PROVE  wrapped[n + 1][i] = mws[l - (n + 1) + i]
    <3>1. CASE i = 1
      BY <2>1, <2>3, <2>5, <2>7, <3>1 DEF mw
    <3>2. CASE i # 1
      <4>1. /\ i \in Nat /\ i - 1 \in 1 .. n /\ i \in 1 + 1 .. 1 + (n + c)
            /\ l - (n + 1) + i = l - n + (i - 1)
        BY <1>1, <3>2
      <4>2. wrapped[n + 1][i] = was[i - 1]
        BY <2>3, <2>7, <4>1
      <4>3. was[i - 1] = mws[l - n + (i - 1)]
        BY <2>2, <4>1 DEF was
      <4> QED
        BY <4>1, <4>2, <4>3
    <3> QED
      BY <3>1, <3>2
  <2>9. ASSUME NEW i \in (n + 1) + 1 .. (n + 1) + c
        PROVE  wrapped[n + 1][i] = core[i - (n + 1)]
    <3>1. /\ i \in 1 + 1 .. 1 + (n + c) /\ i - 1 \in n + 1 .. n + c
          /\ (i - 1) - n = i - (n + 1)
      BY <1>1
    <3>2. wrapped[n + 1][i] = was[i - 1]
      BY <2>3, <2>7, <3>1
    <3>3. was[i - 1] = core[(i - 1) - n]
      BY <2>2, <3>1 DEF was
    <3> QED
      BY <3>1, <3>2, <3>3
  <2>10. wrapped[n + 1] \in Seq(S) /\ Len(wrapped[n + 1]) = (n + 1) + c
    BY <1>1, <2>3, <2>7
  <2> HIDE DEF l, c
  <2> QED
    BY <2>8, <2>9, <2>10
<1>8. Nat \subseteq T
  <2> HIDE DEF T
  <2> QED
    BY <1>6, <1>7, Climb
<1>9. Right(l)
  <2> HIDE DEF Right
  <2> QED
    BY <1>1, <1>8
<1> DEFINE both == mws \o core
<1>10. /\ both \in Seq(S) /\ Len(both) = l + c
       /\ \A i \in 1 .. l : both[i] = mws[i]
       /\ \A i \in l + 1 .. l + c : both[i] = core[i - l]
  BY JoinedTwo
<1>11. \A i \in 1 .. l : l - l + i = i
  BY <1>1
<1> DEFINE all == wrapped[l]
<1>12. /\ all \in Seq(S) /\ Len(all) = l + c
       /\ \A i \in 1 .. l : all[i] = mws[i]
       /\ \A i \in l + 1 .. l + c : all[i] = core[i - l]
  BY <1>9, <1>11
<1> HIDE DEF both, all, l, c
<1>13. \A i \in 1 .. l + c : i \in 1 .. l \/ i \in l + 1 .. l + c
  BY <1>1
<1>14. \A i \in 1 .. l + c : all[i] = both[i]
  BY <1>10, <1>12, <1>13
<1>15. all = both
  BY <1>10, <1>12, <1>14, SeqEqual
<1> QED
  BY <1>2, <1>15 DEF all, both

(***************************************************************************)
(* Walking the routers, height by height.                                  *)
(***************************************************************************)

\* What comes of a walk that may go down no further.
NoWalk(tree) == [router \in DOMAIN tree.children |-> [outer \in Chains(tree) |-> <<>>]]

Count(tree) == Cardinality(DOMAIN tree.children)

\* What comes of each walk, by how far it may go down.
Walks(tree) == CHOOSE w : w = [n \in 0 .. Count(tree) |->
                  IF n = 0 THEN NoWalk(tree) ELSE WalkEach(tree, w[n - 1])]

\* Walks can be taken down to any depth.
LEMMA WalksUpTo ==
    ASSUME NEW tree
    PROVE  \A m \in Nat : \E f : f = [n \in 0 .. m |->
               IF n = 0 THEN NoWalk(tree) ELSE WalkEach(tree, f[n - 1])]
<1> DEFINE Unfolds(f, m) == f = [n \in 0 .. m |->
               IF n = 0 THEN NoWalk(tree) ELSE WalkEach(tree, f[n - 1])]
           S == {m \in Nat : \E f : Unfolds(f, m)}
<1>1. 0 \in S
  <2>1. Unfolds([n \in 0 .. 0 |-> NoWalk(tree)], 0)
    OBVIOUS
  <2> QED
    BY <2>1
<1>2. ASSUME NEW m \in Nat, m \in S
      PROVE  m + 1 \in S
  <2>1. PICK f : Unfolds(f, m)
    BY <1>2
  <2> DEFINE g == [n \in 0 .. m + 1 |->
                      IF n <= m THEN f[n] ELSE WalkEach(tree, f[n - 1])]
  <2>2. ASSUME NEW n \in 0 .. m + 1
        PROVE  g[n] = IF n = 0 THEN NoWalk(tree) ELSE WalkEach(tree, g[n - 1])
    <3>1. CASE n = 0
      <4>1. 0 \in 0 .. m /\ 0 \in 0 .. m + 1
        OBVIOUS
      <4>2. g[0] = f[0] /\ f[0] = NoWalk(tree)
        BY <4>1, <2>1
      <4> QED
        BY <4>2, <3>1
    <3>2. CASE n # 0
      <4>1. n - 1 \in 0 .. m /\ n - 1 \in 0 .. m + 1 /\ n - 1 <= m
        BY <3>2
      <4>2. g[n - 1] = f[n - 1]
        BY <4>1
      <4>3. CASE n <= m
        <5>1. n \in 0 .. m
          BY <4>3
        <5>2. f[n] = WalkEach(tree, f[n - 1])
          BY <5>1, <2>1, <3>2
        <5>3. g[n] = f[n]
          BY <4>3
        <5> HIDE DEF g
        <5> QED
          BY <5>2, <5>3, <4>2, <3>2
      <4>4. CASE ~ (n <= m)
        <5>1. g[n] = WalkEach(tree, f[n - 1])
          BY <4>4
        <5> HIDE DEF g
        <5> QED
          BY <5>1, <4>2, <3>2
      <4> QED
        BY <4>3, <4>4
    <3> QED
      BY <3>1, <3>2
  <2>3. Unfolds(g, m + 1)
    <3>1. g = [n \in 0 .. m + 1 |-> g[n]]
      OBVIOUS
    <3> HIDE DEF g
    <3> QED
      BY <3>1, <2>2
  <2>4. \E h : Unfolds(h, m + 1)
    <3> HIDE DEF g, Unfolds
    <3> QED
      BY <2>3
  <2> QED
    BY <2>4
<1>3. Nat \subseteq S
  <2> HIDE DEF S
  <2> QED
    BY <1>1, <1>2, Climb
<1> QED
  BY <1>3

\* Each walk is made of those that go down less.
LEMMA WalkByWalk ==
    ASSUME NEW tree, Count(tree) \in Nat
    PROVE  /\ Walks(tree)[0] = NoWalk(tree)
           /\ \A n \in 1 .. Count(tree) : Walks(tree)[n] = WalkEach(tree, Walks(tree)[n - 1])
<1> DEFINE Unfolds(f) == f = [n \in 0 .. Count(tree) |->
               IF n = 0 THEN NoWalk(tree) ELSE WalkEach(tree, f[n - 1])]
<1>1. \E f : Unfolds(f)
  BY WalksUpTo
<1>2. Walks(tree) = CHOOSE f : Unfolds(f)
  BY DEF Walks
<1>3. Unfolds(Walks(tree))
  <2> HIDE DEF Unfolds
  <2> QED
    BY <1>1, <1>2
<1> DEFINE p == Walks(tree)
<1>4. p = [n \in 0 .. Count(tree) |->
               IF n = 0 THEN NoWalk(tree) ELSE WalkEach(tree, p[n - 1])]
  BY <1>3
<1> HIDE DEF p, Unfolds
<1>5. \A n \in 0 .. Count(tree) :
          p[n] = IF n = 0 THEN NoWalk(tree) ELSE WalkEach(tree, p[n - 1])
  BY <1>4
<1>6. p[0] = NoWalk(tree)
  BY <1>5
<1>7. \A n \in 1 .. Count(tree) : p[n] = WalkEach(tree, p[n - 1])
  BY <1>5
<1> QED
  BY <1>6, <1>7 DEF p

\* The walk from the root may go down as far as there are routers.
LEMMA WholeWalk ==
    ASSUME NEW tree, NEW root
    PROVE  WalkFrom(tree, root) = Walks(tree)[Count(tree)][root][<<>>]
BY DEF WalkFrom, Walks, NoWalk, Count

(***************************************************************************)
(* The ways down from a router.                                            *)
(***************************************************************************)

\* The middlewares and the registrations of all routers.
MwsIn(tree) == UNION {ToSet(tree.mws[router]) : router \in DOMAIN tree.children}
RegsIn(tree) == UNION {ToSet(tree.regs[router]) : router \in DOMAIN tree.children}

\* A bot has finitely many routers, each with its children, middlewares and handlers in
\* order; a handler is registered by one router.
AreRouters(tree) ==
    /\ IsFiniteSet(DOMAIN tree.children)
    /\ \A r \in DOMAIN tree.children :
          /\ tree.children[r] \in Seq(DOMAIN tree.children)
          /\ tree.mws[r] \in Seq(MwsIn(tree))
          /\ tree.regs[r] \in Seq(RegsIn(tree))
    /\ \A r, s \in DOMAIN tree.children :
       \A i \in DOMAIN tree.regs[r], j \in DOMAIN tree.regs[s] :
          tree.regs[r][i].id = tree.regs[s][j].id => r = s /\ i = j

\* A way down over at most h routers.
IsPath(path, tree, router, h) ==
    /\ path \in Seq(DOMAIN tree.children)
    /\ Len(path) \in 1 .. h
    /\ path[1] = router
    /\ \A i \in 1 .. Len(path) - 1 : path[i + 1] \in ToSet(tree.children[path[i]])

\* The paths of the properties are the ways down over as many routers as there are.
LEMMA PathsAre ==
    ASSUME NEW tree, NEW router, NEW path, AreRouters(tree)
    PROVE  path \in Paths(tree, router) <=> IsPath(path, tree, router, Count(tree))
<1> DEFINE routers == DOMAIN tree.children
           N == Count(tree)
           lists == UNION {[1 .. n -> routers] : n \in 1 .. N}
<1>1. path \in lists <=> path \in Seq(routers) /\ Len(path) \in 1 .. N
  <2>1. ASSUME NEW n \in 1 .. N, path \in [1 .. n -> routers]
        PROVE  path \in Seq(routers) /\ Len(path) \in 1 .. N
    <3>1. n \in Nat
      BY FS_CardinalityType DEF AreRouters, Count
    <3>2. path \in Seq(routers) /\ Len(path) = n
      BY <2>1, <3>1
    <3> QED
      BY <3>2
  <2>2. ASSUME path \in Seq(routers), Len(path) \in 1 .. N
        PROVE  path \in lists
    <3>1. path \in [1 .. Len(path) -> routers]
      BY <2>2, LenProperties
    <3> QED
      BY <2>2, <3>1
  <2> QED
    BY <2>1, <2>2
<1> QED
  BY <1>1 DEF Paths, IsPath, Count

\* The middlewares along a path.
Along(tree, path) == FlattenSeq([i \in DOMAIN path |-> tree.mws[path[i]]])

\* q goes down from router as p does from one of its children.
Follows(q, router, p) ==
    /\ Len(q) = Len(p) + 1
    /\ q[1] = router
    /\ \A i \in 1 .. Len(p) : q[i + 1] = p[i]

\* The middlewares along a path, one router after the other.
LEMMA AlongByRouter ==
    ASSUME NEW tree, AreRouters(tree), NEW p \in Seq(DOMAIN tree.children)
    PROVE  /\ Along(tree, p) \in Chains(tree)
           /\ \E a : /\ a[0] = <<>>
                     /\ \A n \in 1 .. Len(p) : a[n] = a[n - 1] \o tree.mws[p[n]]
                     /\ Along(tree, p) = a[Len(p)]
                     /\ \A n \in 0 .. Len(p) : a[n] \in Chains(tree)
<1> DEFINE parts == [i \in DOMAIN p |-> tree.mws[p[i]]]
           S == MwsIn(tree)
<1>1. Len(p) \in Nat /\ DOMAIN p = 1 .. Len(p) /\ \A i \in 1 .. Len(p) : p[i] \in DOMAIN tree.children
  BY LenProperties, ElementOfSeq
<1>2. \A i \in 1 .. Len(p) : tree.mws[p[i]] \in Seq(S)
  BY <1>1 DEF AreRouters
<1>3. /\ parts \in Seq(Seq(S)) /\ Len(parts) = Len(p)
      /\ \A i \in 1 .. Len(p) : parts[i] = tree.mws[p[i]]
  <2> HIDE DEF S
  <2>1. parts \in [1 .. Len(p) -> Seq(S)]
    BY <1>1, <1>2
  <2>2. DOMAIN parts = 1 .. Len(p) /\ \A i \in 1 .. Len(p) : parts[i] = tree.mws[p[i]]
    BY <1>1
  <2> HIDE DEF parts
  <2> QED
    BY <1>1, <2>1, <2>2
<1>4. Along(tree, p) = FlattenSeq(parts) /\ Chains(tree) = Seq(S)
  BY DEF Along, Chains, MwsIn
<1> HIDE DEF parts, S
<1>5. PICK a : Joins(parts, a)
  BY <1>3, PartByPart
<1>6. /\ a[0] = <<>> /\ Along(tree, p) = a[Len(p)]
      /\ \A n \in 1 .. Len(p) : a[n] = a[n - 1] \o tree.mws[p[n]]
  BY <1>3, <1>4, <1>5 DEF Joins
<1> DEFINE T == {n \in Nat : n <= Len(p) => a[n] \in Seq(S)}
<1>7. 0 \in T
  BY <1>6, EmptySeq
<1>8. ASSUME NEW n \in Nat, n \in T
      PROVE  n + 1 \in T
  <2> SUFFICES ASSUME n + 1 <= Len(p)
               PROVE  a[n + 1] \in Seq(S)
    OBVIOUS
  <2>1. n + 1 \in 1 .. Len(p) /\ (n + 1) - 1 = n /\ n <= Len(p)
    BY <1>1
  <2>2. a[n + 1] = a[n] \o tree.mws[p[n + 1]] /\ a[n] \in Seq(S)
    BY <1>6, <1>8, <2>1
  <2>3. tree.mws[p[n + 1]] \in Seq(S)
    BY <1>2, <2>1
  <2> QED
    BY <2>2, <2>3, ConcatProperties
<1>9. Nat \subseteq T
  <2> HIDE DEF T
  <2> QED
    BY <1>7, <1>8, Climb
<1>10. \A n \in 0 .. Len(p) : a[n] \in Chains(tree)
  <2> SUFFICES ASSUME NEW n \in 0 .. Len(p)
               PROVE  a[n] \in Seq(S)
    BY <1>4
  <2>1. n \in Nat /\ n <= Len(p) /\ n \in T
    BY <1>1, <1>9
  <2> QED
    BY <2>1
<1>11. Len(p) \in 0 .. Len(p)
  BY <1>1
<1> QED
  BY <1>6, <1>10, <1>11

\* A path that starts a router higher has its middlewares in front.
LEMMA AlongFromHigher ==
    ASSUME NEW tree, AreRouters(tree), NEW router,
           NEW p \in Seq(DOMAIN tree.children), NEW q \in Seq(DOMAIN tree.children),
           Follows(q, router, p)
    PROVE  Along(tree, q) = tree.mws[router] \o Along(tree, p)
<1> DEFINE l == Len(p)
           S == MwsIn(tree)
           m == tree.mws[router]
<1>1. l \in Nat /\ Len(q) = l + 1 /\ q[1] = router /\ \A i \in 1 .. l : q[i + 1] = p[i]
  BY LenProperties DEF Follows
<1>2. PICK a : /\ a[0] = <<>>
               /\ \A n \in 1 .. l : a[n] = a[n - 1] \o tree.mws[p[n]]
               /\ Along(tree, p) = a[l]
               /\ \A n \in 0 .. l : a[n] \in Chains(tree)
  BY AlongByRouter
<1>3. PICK b : /\ b[0] = <<>>
               /\ \A n \in 1 .. Len(q) : b[n] = b[n - 1] \o tree.mws[q[n]]
               /\ Along(tree, q) = b[Len(q)]
  BY AlongByRouter
<1>4. Chains(tree) = Seq(S)
  BY DEF Chains, MwsIn
<1>5. m \in Seq(S) /\ \A n \in 1 .. l : tree.mws[p[n]] \in Seq(S)
  <2>1. router \in DOMAIN tree.children
    <3>1. 1 \in 1 .. Len(q)
      BY <1>1
    <3> QED
      BY <1>1, <3>1, ElementOfSeq
  <2>2. \A n \in 1 .. l : p[n] \in DOMAIN tree.children
    BY ElementOfSeq
  <2> QED
    BY <2>1, <2>2 DEF AreRouters
<1> HIDE DEF S, l, m
<1> DEFINE T == {n \in Nat : n <= l => b[n + 1] = m \o a[n]}
<1>6. 0 \in T
  <2>1. 1 \in 1 .. Len(q) /\ 1 - 1 = 0 /\ 0 + 1 = 1
    BY <1>1
  <2>2. b[1] = b[1 - 1] \o tree.mws[q[1]]
    BY <1>3, <2>1
  <2>3. b[0 + 1] = <<>> \o m
    BY <1>1, <1>3, <2>1, <2>2 DEF m
  <2>4. <<>> \o m = m /\ m \o <<>> = m
    BY <1>5, ConcatEmptySeq
  <2> QED
    BY <1>2, <2>3, <2>4
<1>7. ASSUME NEW n \in Nat, n \in T
      PROVE  n + 1 \in T
  <2> SUFFICES ASSUME n + 1 <= l
               PROVE  b[(n + 1) + 1] = m \o a[n + 1]
    OBVIOUS
  <2> DEFINE x == tree.mws[p[n + 1]]
             w == a[n]
  <2>1. /\ n + 1 \in 1 .. l /\ (n + 1) - 1 = n /\ n <= l /\ n \in 0 .. l
        /\ (n + 1) + 1 \in 1 .. Len(q) /\ ((n + 1) + 1) - 1 = n + 1
    BY <1>1
  <2>2. q[(n + 1) + 1] = p[n + 1]
    BY <1>1, <2>1
  <2>3. b[(n + 1) + 1] = b[n + 1] \o x
    BY <1>3, <2>1, <2>2
  <2>4. a[n + 1] = w \o x
    BY <1>2, <2>1
  <2>5. b[n + 1] = m \o w
    BY <1>7, <2>1
  <2>6. w \in Seq(S) /\ x \in Seq(S)
    BY <1>2, <1>4, <1>5, <2>1
  <2> HIDE DEF x, w
  <2>7. (m \o w) \o x = m \o (w \o x)
    BY <1>5, <2>6, ConcatAssociative
  <2> QED
    BY <2>3, <2>4, <2>5, <2>7
<1>8. Nat \subseteq T
  <2> HIDE DEF T
  <2> QED
    BY <1>6, <1>7, Climb
<1>9. l \in T
  <2> HIDE DEF T
  <2> QED
    BY <1>1, <1>8
<1>10. b[l + 1] = m \o a[l]
  BY <1>1, <1>9
<1> QED
  BY <1>1, <1>2, <1>3, <1>10 DEF m

\* With what is around the router, whichever way it is put together.
LEMMA AlongFromOutside ==
    ASSUME NEW tree, AreRouters(tree), NEW router, NEW outer \in Chains(tree),
           NEW p \in Seq(DOMAIN tree.children), NEW q \in Seq(DOMAIN tree.children),
           Follows(q, router, p), router \in DOMAIN tree.children
    PROVE  (outer \o tree.mws[router]) \o Along(tree, p) = outer \o Along(tree, q)
<1> DEFINE S == MwsIn(tree)
           mws == tree.mws[router]
           along == Along(tree, p)
<1>1. Along(tree, q) = mws \o along
  BY AlongFromHigher
<1>2. outer \in Seq(S) /\ mws \in Seq(S) /\ along \in Seq(S)
  <2>1. Chains(tree) = Seq(S)
    BY DEF Chains, MwsIn
  <2>2. mws \in Seq(S)
    BY DEF AreRouters
  <2>3. along \in Chains(tree)
    BY AlongByRouter
  <2> QED
    BY <2>1, <2>2, <2>3
<1> HIDE DEF S, mws, along
<1>3. (outer \o mws) \o along = outer \o (mws \o along)
  BY <1>2, ConcatAssociative
<1> QED
  BY <1>1, <1>3 DEF mws, along

\* A path of one router has the middlewares of that router.
LEMMA PathOfOne ==
    ASSUME NEW tree, AreRouters(tree), NEW router \in DOMAIN tree.children,
           NEW path \in Seq(DOMAIN tree.children), Len(path) = 1, path[1] = router
    PROVE  Along(tree, path) = tree.mws[router] /\ Last(path) = router
<1>1. PICK a : /\ a[0] = <<>>
               /\ \A n \in 1 .. Len(path) : a[n] = a[n - 1] \o tree.mws[path[n]]
               /\ Along(tree, path) = a[Len(path)]
  BY AlongByRouter
<1>2. 1 \in 1 .. Len(path) /\ 1 - 1 = 0
  OBVIOUS
<1>3. a[1] = a[1 - 1] \o tree.mws[path[1]]
  BY <1>1, <1>2
<1>4. a[1] = <<>> \o tree.mws[router]
  BY <1>1, <1>2, <1>3
<1>5. tree.mws[router] \in Seq(MwsIn(tree))
  BY DEF AreRouters
<1>6. <<>> \o tree.mws[router] = tree.mws[router]
  BY <1>5, ConcatEmptySeq
<1> QED
  BY <1>1, <1>4, <1>6 DEF Last

\* A way down from a child is one from the router that includes it.
LEMMA PathFromHigher ==
    ASSUME NEW tree, AreRouters(tree), NEW router \in DOMAIN tree.children,
           NEW child \in ToSet(tree.children[router]), NEW h \in Nat,
           NEW p, IsPath(p, tree, child, h)
    PROVE  \E q \in Seq(DOMAIN tree.children) :
              /\ IsPath(q, tree, router, h + 1)
              /\ Follows(q, router, p)
              /\ Last(q) = Last(p)
<1> DEFINE R == DOMAIN tree.children
           l == Len(p)
           q == [i \in 1 .. l + 1 |-> IF i = 1 THEN router ELSE p[i - 1]]
<1>1. /\ p \in Seq(R) /\ l \in Nat /\ l >= 1 /\ l <= h
      /\ p[1] = child
      /\ \A i \in 1 .. l - 1 : p[i + 1] \in ToSet(tree.children[p[i]])
  BY LenProperties DEF IsPath
<1>2. \A i \in 1 .. l : p[i] \in R
  BY <1>1, ElementOfSeq
<1>3. /\ q \in Seq(R) /\ Len(q) = l + 1
      /\ q[1] = router
      /\ \A i \in 1 .. l : q[i + 1] = p[i]
  <2>1. \A i \in 1 .. l + 1 : i # 1 => i - 1 \in 1 .. l
    BY <1>1
  <2>2. q \in [1 .. l + 1 -> R]
    BY <1>2, <2>1
  <2>3. q \in Seq(R) /\ Len(q) = l + 1
    <3>1. l + 1 \in Nat
      BY <1>1
    <3> HIDE DEF q, l, R
    <3> QED
      BY <2>2, <3>1
  <2>4. ASSUME NEW i \in 1 .. l
        PROVE  q[i + 1] = p[i]
    <3>1. i \in Nat /\ i + 1 \in 1 .. l + 1 /\ i + 1 # 1 /\ (i + 1) - 1 = i
      BY <1>1
    <3> QED
      BY <3>1
  <2>5. 1 \in 1 .. l + 1
    BY <1>1
  <2> QED
    BY <2>3, <2>4, <2>5
<1> HIDE DEF q
<1>4. ASSUME NEW i \in 1 .. Len(q) - 1
      PROVE  q[i + 1] \in ToSet(tree.children[q[i]])
  <2>1. i \in Nat /\ i \in 1 .. l
    BY <1>1, <1>3
  <2>2. CASE i = 1
    <3>1. q[i + 1] = p[1] /\ q[i] = router
      BY <1>3, <2>1, <2>2
    <3> QED
      BY <1>1, <3>1
  <2>3. CASE i # 1
    <3>1. i - 1 \in 1 .. l /\ i - 1 \in 1 .. l - 1 /\ (i - 1) + 1 = i
      BY <1>1, <2>1, <2>3
    <3>2. q[i] = p[i - 1] /\ q[i + 1] = p[(i - 1) + 1]
      BY <1>3, <2>1, <3>1
    <3> QED
      BY <1>1, <3>1, <3>2
  <2> QED
    BY <2>2, <2>3
<1>5. Last(q) = Last(p)
  <2>1. l \in 1 .. l
    BY <1>1
  <2> QED
    BY <1>3, <2>1 DEF Last
<1>6. Len(q) \in 1 .. h + 1
  BY <1>1, <1>3
<1>7. IsPath(q, tree, router, h + 1)
  BY <1>3, <1>4, <1>6 DEF IsPath
<1>8. Follows(q, router, p)
  BY <1>3 DEF Follows
<1> QED
  BY <1>3, <1>5, <1>7, <1>8

\* A way down that is longer than its router goes on from one of the children.
LEMMA PathFromChild ==
    ASSUME NEW tree, AreRouters(tree), NEW router \in DOMAIN tree.children,
           NEW h \in Nat, NEW q, IsPath(q, tree, router, h + 1), Len(q) # 1
    PROVE  \E child \in ToSet(tree.children[router]), p \in Seq(DOMAIN tree.children) :
              /\ IsPath(p, tree, child, h)
              /\ Follows(q, router, p)
              /\ Last(q) = Last(p)
<1> DEFINE R == DOMAIN tree.children
           l == Len(q) - 1
           p == [i \in 1 .. l |-> q[i + 1]]
<1>1. /\ q \in Seq(R) /\ Len(q) \in Nat /\ Len(q) >= 1 /\ Len(q) <= h + 1
      /\ q[1] = router
      /\ \A i \in 1 .. Len(q) - 1 : q[i + 1] \in ToSet(tree.children[q[i]])
  BY LenProperties DEF IsPath
<1>2. l \in Nat /\ l >= 1 /\ l <= h /\ Len(q) = l + 1
  <2> DEFINE n == Len(q)
  <2>1. n \in Nat /\ n >= 1 /\ n <= h + 1 /\ n # 1
    BY <1>1
  <2> HIDE DEF n
  <2>2. n - 1 \in Nat /\ n - 1 >= 1 /\ n - 1 <= h /\ n = (n - 1) + 1
    BY <2>1
  <2> QED
    BY <2>2 DEF n
<1>3. \A i \in 1 .. l : q[i + 1] \in R
  <2>1. \A i \in 1 .. l : i + 1 \in 1 .. Len(q)
    BY <1>2
  <2> HIDE DEF l
  <2> QED
    BY <1>1, <2>1, ElementOfSeq
<1>4. p \in Seq(R) /\ Len(p) = l /\ \A i \in 1 .. l : p[i] = q[i + 1]
  <2>1. p \in [1 .. l -> R]
    BY <1>3
  <2>2. \A i \in 1 .. l : p[i] = q[i + 1]
    OBVIOUS
  <2> HIDE DEF p, l, R
  <2> QED
    BY <1>2, <2>1, <2>2
<1> HIDE DEF p, l
<1>5. p[1] \in ToSet(tree.children[router])
  <2>1. 1 \in 1 .. l /\ 1 \in 1 .. Len(q) - 1
    BY <1>2
  <2>2. p[1] = q[1 + 1]
    BY <1>4, <2>1
  <2> QED
    BY <1>1, <2>1, <2>2
<1>6. ASSUME NEW i \in 1 .. Len(p) - 1
      PROVE  p[i + 1] \in ToSet(tree.children[p[i]])
  <2>1. i \in Nat /\ i \in 1 .. l /\ i + 1 \in 1 .. l /\ i + 1 \in 1 .. Len(q) - 1
    BY <1>2, <1>4
  <2>2. p[i] = q[i + 1] /\ p[i + 1] = q[(i + 1) + 1]
    BY <1>4, <2>1
  <2> QED
    BY <1>1, <2>1, <2>2
<1>7. Len(p) \in 1 .. h
  BY <1>2, <1>4
<1>8. IsPath(p, tree, p[1], h)
  BY <1>4, <1>6, <1>7 DEF IsPath
<1>9. Follows(q, router, p)
  BY <1>1, <1>2, <1>4 DEF Follows
<1>10. Last(q) = Last(p)
  <2>1. l \in 1 .. l
    BY <1>2
  <2> QED
    BY <1>2, <1>4, <2>1 DEF Last
<1> QED
  BY <1>4, <1>5, <1>8, <1>9, <1>10

\* A handler with the middlewares around it.
WalkedSet(tree) == [reg : RegsIn(tree), mws : Chains(tree)]

\* What a router gives of its own, and what comes of its children.
Own(tree, router, chain) ==
    [i \in DOMAIN tree.regs[router] |-> [reg |-> tree.regs[router][i], mws |-> chain]]
OfChildren(tree, router, h, chain) ==
    [i \in DOMAIN tree.children[router] |-> Walks(tree)[h - 1][tree.children[router][i]][chain]]

\* A walk is what the router gives and what comes of its children.
LEMMA WalkIs ==
    ASSUME NEW tree, AreRouters(tree), NEW h \in 1 .. Count(tree),
           NEW router \in DOMAIN tree.children, NEW outer \in Chains(tree)
    PROVE  Walks(tree)[h][router][outer] =
              Own(tree, router, outer \o tree.mws[router])
              \o FlattenSeq(OfChildren(tree, router, h, outer \o tree.mws[router]))
<1>1. Count(tree) \in Nat
  BY FS_CardinalityType DEF AreRouters, Count
<1>2. Walks(tree)[h] = WalkEach(tree, Walks(tree)[h - 1])
  BY <1>1, WalkByWalk
<1> DEFINE w == Walks(tree)[h - 1]
<1> HIDE DEF w
<1>3. WalkEach(tree, w)[router][outer] = Walk(router, tree, outer, w)
  BY DEF WalkEach
<1>4. Walk(router, tree, outer, w) =
         [i \in DOMAIN tree.regs[router] |->
            [reg |-> tree.regs[router][i], mws |-> outer \o tree.mws[router]]]
         \o FlattenSeq([i \in DOMAIN tree.children[router] |->
                           w[tree.children[router][i]][outer \o tree.mws[router]]])
  BY DEF Walk
<1> QED
  BY <1>2, <1>3, <1>4 DEF w, Own, OfChildren

\* The router's own part holds its handlers, each with the same middlewares.
LEMMA OwnPart ==
    ASSUME NEW tree, AreRouters(tree), NEW router \in DOMAIN tree.children,
           NEW chain \in Chains(tree)
    PROVE  /\ Own(tree, router, chain) \in Seq(WalkedSet(tree))
           /\ Len(Own(tree, router, chain)) = Len(tree.regs[router])
           /\ \A i \in 1 .. Len(tree.regs[router]) :
                 /\ Own(tree, router, chain)[i].reg = tree.regs[router][i]
                 /\ Own(tree, router, chain)[i].mws = chain
<1> DEFINE regs == tree.regs[router]
           own == Own(tree, router, chain)
           l == Len(regs)
<1>1. regs \in Seq(RegsIn(tree)) /\ DOMAIN regs = 1 .. l /\ l \in Nat
  BY LenProperties DEF AreRouters
<1>2. \A i \in 1 .. l : regs[i] \in RegsIn(tree)
  <2> HIDE DEF regs
  <2> QED
    BY <1>1, ElementOfSeq
<1>3. own = [i \in 1 .. l |-> [reg |-> regs[i], mws |-> chain]]
  BY <1>1 DEF Own
<1> HIDE DEF own, regs, l
<1>4. \A i \in 1 .. l : [reg |-> regs[i], mws |-> chain] \in WalkedSet(tree)
  BY <1>2 DEF WalkedSet
<1>5. own \in [1 .. l -> WalkedSet(tree)]
  BY <1>3, <1>4
<1>6. own \in Seq(WalkedSet(tree)) /\ Len(own) = l
  BY <1>1, <1>5
<1>7. \A i \in 1 .. l : own[i].reg = regs[i] /\ own[i].mws = chain
  BY <1>3
<1> QED
  BY <1>6, <1>7 DEF own, regs, l

\* A handler that is registered on a way down, with the middlewares along it.
OnTheWay(e, tree, router, outer, h) ==
    \E path \in Seq(DOMAIN tree.children) :
        /\ IsPath(path, tree, router, h)
        /\ e.reg \in ToSet(tree.regs[Last(path)])
        /\ e.mws = outer \o Along(tree, path)

\* A walk holds every handler on the way down, with the middlewares along it.
IsWalk(walked, tree, router, outer, h) ==
    /\ walked \in Seq(WalkedSet(tree))
    /\ \A e \in WalkedSet(tree) : e \in ToSet(walked) <=> OnTheWay(e, tree, router, outer, h)

\* The walk down over one router more.
LEMMA WalkOneHigher ==
    ASSUME NEW tree, AreRouters(tree), NEW h \in Nat, h + 1 \in 1 .. Count(tree),
           NEW router \in DOMAIN tree.children, NEW outer \in Chains(tree),
           \A r \in DOMAIN tree.children : \A o \in Chains(tree) :
              IsWalk(Walks(tree)[h][r][o], tree, r, o, h)
    PROVE  IsWalk(Walks(tree)[h + 1][router][outer], tree, router, outer, h + 1)
<1> DEFINE R == DOMAIN tree.children
           E == WalkedSet(tree)
           C == Chains(tree)
           mws == tree.mws[router]
           chain == outer \o mws
           children == tree.children[router]
           own == Own(tree, router, chain)
           parts == OfChildren(tree, router, h + 1, chain)
           flat == FlattenSeq(parts)
           walked == Walks(tree)[h + 1][router][outer]
<1>1. /\ C = Seq(MwsIn(tree)) /\ mws \in C /\ outer \in C /\ children \in Seq(R)
  BY DEF Chains, MwsIn, AreRouters
<1>2. chain \in C
  BY <1>1, ConcatProperties
<1>3. walked = own \o flat
  BY WalkIs
<1>4. Len(children) \in Nat /\ DOMAIN children = 1 .. Len(children) /\ \A i \in 1 .. Len(children) : children[i] \in R
  BY <1>1, LenProperties, ElementOfSeq
<1>5. (h + 1) - 1 = h
  OBVIOUS
<1>6. parts = [i \in 1 .. Len(children) |-> Walks(tree)[h][children[i]][chain]]
  BY <1>4, <1>5 DEF OfChildren
<1> HIDE DEF walked, flat, own, chain, mws, C, R, E, children
<1>7. \A i \in 1 .. Len(children) :
         /\ Walks(tree)[h][children[i]][chain] \in Seq(E)
         /\ \A e \in E : e \in ToSet(Walks(tree)[h][children[i]][chain])
                          <=> OnTheWay(e, tree, children[i], chain, h)
  BY <1>2, <1>4 DEF C, R, E, IsWalk
<1> HIDE DEF parts
<1>8. /\ parts \in Seq(Seq(E)) /\ Len(parts) = Len(children)
      /\ \A i \in 1 .. Len(children) : parts[i] = Walks(tree)[h][children[i]][chain]
  <2>1. parts \in [1 .. Len(children) -> Seq(E)]
    BY <1>6, <1>7
  <2> QED
    BY <1>4, <1>6, <2>1
<1>9. flat \in Seq(E) /\ ToSet(flat) = Held(parts, Len(parts))
  BY <1>8, ElementsOfParts DEF flat
<1>10. /\ own \in Seq(E) /\ Len(own) = Len(tree.regs[router])
       /\ \A i \in 1 .. Len(own) : own[i].reg = tree.regs[router][i] /\ own[i].mws = chain
       /\ DOMAIN own = 1 .. Len(own)
       /\ DOMAIN tree.regs[router] = 1 .. Len(own)
  <2>1. /\ own \in Seq(E) /\ Len(own) = Len(tree.regs[router])
        /\ \A i \in 1 .. Len(own) : own[i].reg = tree.regs[router][i] /\ own[i].mws = chain
    BY <1>2, OwnPart DEF own, C, E, R
  <2>2. tree.regs[router] \in Seq(RegsIn(tree))
    BY DEF AreRouters
  <2> QED
    BY <2>1, <2>2, LenProperties
<1>11. walked \in Seq(E) /\ ToSet(walked) = ToSet(own) \cup ToSet(flat)
  BY <1>3, <1>9, <1>10, ElementsOfTwo
<1>12. ASSUME NEW e \in E, e \in ToSet(own)
       PROVE  OnTheWay(e, tree, router, outer, h + 1)
  <2>1. PICK i \in 1 .. Len(own) : e = own[i]
    BY <1>10, <1>12 DEF ToSet
  <2>2. e.reg = tree.regs[router][i] /\ e.mws = chain
    BY <1>10, <2>1
  <2>3. e.reg \in ToSet(tree.regs[router])
    BY <1>10, <2>2 DEF ToSet
  <2> DEFINE path == <<router>>
  <2>4. path \in Seq(R) /\ Len(path) = 1 /\ path[1] = router
    <3>1. router \in R
      BY DEF R
    <3> QED
      BY <3>1
  <2> HIDE DEF path
  <2>5. Along(tree, path) = mws /\ Last(path) = router
    BY <2>4, PathOfOne DEF R, mws
  <2>6. IsPath(path, tree, router, h + 1)
    <3>1. Len(path) \in 1 .. h + 1 /\ 1 .. Len(path) - 1 = {}
      BY <2>4
    <3> QED
      BY <2>4, <3>1 DEF IsPath, R
  <2> QED
    BY <2>2, <2>3, <2>4, <2>5, <2>6 DEF OnTheWay, R, chain
<1>13. ASSUME NEW e \in E, NEW i \in 1 .. Len(children), e \in ToSet(parts[i])
       PROVE  OnTheWay(e, tree, router, outer, h + 1)
  <2>1. OnTheWay(e, tree, children[i], chain, h)
    BY <1>7, <1>8, <1>13
  <2>2. PICK p \in Seq(R) : /\ IsPath(p, tree, children[i], h)
                            /\ e.reg \in ToSet(tree.regs[Last(p)])
                            /\ e.mws = chain \o Along(tree, p)
    BY <2>1 DEF OnTheWay, R
  <2>3. children[i] \in ToSet(children)
    BY <1>4 DEF ToSet
  <2>4. PICK q \in Seq(R) : /\ IsPath(q, tree, router, h + 1)
                            /\ Follows(q, router, p)
                            /\ Last(q) = Last(p)
    BY <2>2, <2>3, PathFromHigher DEF R, children
  <2>5. chain \o Along(tree, p) = outer \o Along(tree, q)
    BY <2>4, AlongFromOutside DEF R, C, chain, mws
  <2>7. e.mws = outer \o Along(tree, q)
    BY <2>2, <2>5
  <2> QED
    BY <2>2, <2>4, <2>7 DEF OnTheWay, R
<1>14. ASSUME NEW e \in E, OnTheWay(e, tree, router, outer, h + 1)
       PROVE  e \in ToSet(own) \cup Held(parts, Len(parts))
  <2>1. PICK q \in Seq(R) : /\ IsPath(q, tree, router, h + 1)
                            /\ e.reg \in ToSet(tree.regs[Last(q)])
                            /\ e.mws = outer \o Along(tree, q)
    BY <1>14 DEF OnTheWay, R
  <2>2. CASE Len(q) = 1
    <3>1. Along(tree, q) = mws /\ Last(q) = router
      BY <2>1, <2>2, PathOfOne DEF IsPath, R, mws
    <3>2. PICK i \in 1 .. Len(own) : e.reg = tree.regs[router][i]
      BY <1>10, <2>1, <3>1 DEF ToSet
    <3>3. e.reg = own[i].reg /\ e.mws = own[i].mws
      BY <1>10, <2>1, <3>1, <3>2 DEF chain
    <3>4. own[i] \in E
      BY <1>10, ElementOfSeq
    <3>5. e = own[i]
      BY <3>3, <3>4 DEF E, WalkedSet
    <3> QED
      BY <1>10, <3>5 DEF ToSet
  <2>3. CASE Len(q) # 1
    <3>1. PICK child \in ToSet(children), p \in Seq(R) :
             IsPath(p, tree, child, h) /\ Follows(q, router, p) /\ Last(q) = Last(p)
      BY <2>1, <2>3, PathFromChild DEF R, children
    <3>2. PICK i \in 1 .. Len(children) : child = children[i]
      BY <1>4 DEF ToSet
    <3>3. chain \o Along(tree, p) = outer \o Along(tree, q)
      BY <3>1, AlongFromOutside DEF R, C, chain, mws
    <3>5. e.mws = chain \o Along(tree, p) /\ e.reg \in ToSet(tree.regs[Last(p)])
      BY <2>1, <3>1, <3>3
    <3>6. OnTheWay(e, tree, children[i], chain, h)
      BY <3>1, <3>2, <3>5 DEF OnTheWay, R
    <3>7. e \in ToSet(parts[i])
      BY <1>7, <1>8, <3>6
    <3>8. i \in 1 .. Len(parts)
      BY <1>8
    <3> QED
      BY <3>7, <3>8 DEF Held
  <2> QED
    BY <2>2, <2>3
<1>15. ASSUME NEW e \in E, e \in ToSet(flat)
       PROVE  OnTheWay(e, tree, router, outer, h + 1)
  <2>1. PICK i \in 1 .. Len(parts) : e \in ToSet(parts[i])
    BY <1>9, <1>15 DEF Held
  <2> QED
    BY <1>8, <1>13, <2>1
<1>16. \A e \in E : e \in ToSet(walked) <=> OnTheWay(e, tree, router, outer, h + 1)
  BY <1>9, <1>11, <1>12, <1>14, <1>15
<1> QED
  BY <1>11, <1>16 DEF IsWalk, walked, E

\* Every walk holds what is on the way.
LEMMA WalksAre ==
    ASSUME NEW tree, AreRouters(tree)
    PROVE  \A h \in 0 .. Count(tree) : \A r \in DOMAIN tree.children : \A o \in Chains(tree) :
              IsWalk(Walks(tree)[h][r][o], tree, r, o, h)
<1> DEFINE Right(h) == \A r \in DOMAIN tree.children : \A o \in Chains(tree) :
                          IsWalk(Walks(tree)[h][r][o], tree, r, o, h)
           T == {h \in Nat : h <= Count(tree) => Right(h)}
<1>1. Count(tree) \in Nat
  BY FS_CardinalityType DEF AreRouters, Count
<1>2. 0 \in T
  <2> SUFFICES ASSUME NEW r \in DOMAIN tree.children, NEW o \in Chains(tree)
               PROVE  IsWalk(Walks(tree)[0][r][o], tree, r, o, 0)
    OBVIOUS
  <2> DEFINE none == <<>>
  <2>1. Walks(tree)[0][r][o] = none
    <3>1. Walks(tree)[0] = NoWalk(tree)
      BY <1>1, WalkByWalk
    <3>2. NoWalk(tree)[r][o] = none
      BY DEF NoWalk
    <3> QED
      BY <3>1, <3>2
  <2>2. none \in Seq(WalkedSet(tree)) /\ ToSet(none) = {}
    BY DEF ToSet
  <2> HIDE DEF none
  <2>3. \A path : ~ IsPath(path, tree, r, 0)
    BY DEF IsPath
  <2>4. \A e : ~ OnTheWay(e, tree, r, o, 0)
    BY <2>3 DEF OnTheWay
  <2> QED
    BY <2>1, <2>2, <2>4 DEF IsWalk
<1>3. ASSUME NEW h \in Nat, h \in T
      PROVE  h + 1 \in T
  <2> SUFFICES ASSUME h + 1 <= Count(tree)
               PROVE  Right(h + 1)
    OBVIOUS
  <2>1. h <= Count(tree) /\ h + 1 \in 1 .. Count(tree)
    BY <1>1
  <2>2. Right(h)
    BY <1>3, <2>1
  <2> QED
    BY <2>1, <2>2, WalkOneHigher
<1>4. Nat \subseteq T
  <2> HIDE DEF T
  <2> QED
    BY <1>2, <1>3, Climb
<1>5. ASSUME NEW h \in 0 .. Count(tree)
      PROVE  Right(h)
  <2>1. h \in Nat /\ h <= Count(tree) /\ h \in T
    BY <1>1, <1>4
  <2> HIDE DEF Right
  <2> QED
    BY <2>1
<1> QED
  BY <1>5

\* No handler is in a list twice; two lists have no handler in common.
OnceEach(list) == \A i, j \in DOMAIN list : list[i].reg.id = list[j].reg.id => i = j
NoneShared(a, b) == \A x \in ToSet(a), y \in ToSet(b) : x.reg.id # y.reg.id

\* Two lists that share no handler, one after the other.
LEMMA OnceInTwo ==
    ASSUME NEW S, NEW a \in Seq(S), NEW b \in Seq(S),
           OnceEach(a), OnceEach(b), NoneShared(a, b)
    PROVE  OnceEach(a \o b)
<1> DEFINE ab == a \o b
           m == Len(a)
           n == Len(b)
<1>1. /\ m \in Nat /\ n \in Nat /\ ab \in Seq(S) /\ Len(ab) = m + n
      /\ \A i \in 1 .. m : ab[i] = a[i]
      /\ \A i \in m + 1 .. m + n : ab[i] = b[i - m]
  BY LenProperties, JoinedTwo
<1>2. DOMAIN a = 1 .. m /\ DOMAIN b = 1 .. n
  BY LenProperties
<1>3. DOMAIN ab = 1 .. m + n
  <2> HIDE DEF ab, m, n
  <2> QED
    BY <1>1, LenProperties
<1> HIDE DEF ab, m, n
<1>4. ASSUME NEW i \in 1 .. m + n
      PROVE  \/ i \in 1 .. m /\ ab[i] = a[i] /\ a[i] \in ToSet(a)
             \/ /\ i \in m + 1 .. m + n /\ i - m \in 1 .. n
                /\ ab[i] = b[i - m] /\ b[i - m] \in ToSet(b)
  <2>1. CASE i \in 1 .. m
    BY <1>1, <1>2, <2>1 DEF ToSet
  <2>2. CASE ~ (i \in 1 .. m)
    <3>1. i \in m + 1 .. m + n /\ i - m \in 1 .. n
      BY <1>1, <2>2
    <3> QED
      BY <1>1, <1>2, <3>1 DEF ToSet
  <2> QED
    BY <2>1, <2>2
<1>5. ASSUME NEW i \in 1 .. m + n, NEW j \in 1 .. m + n, ab[i].reg.id = ab[j].reg.id
      PROVE  i = j
  <2>1. CASE i \in 1 .. m /\ j \in 1 .. m
    <3>1. ab[i] = a[i] /\ ab[j] = a[j]
      BY <1>1, <2>1
    <3> QED
      BY <1>2, <1>5, <2>1, <3>1 DEF OnceEach
  <2>2. CASE i \in m + 1 .. m + n /\ j \in m + 1 .. m + n
    <3>1. ab[i] = b[i - m] /\ ab[j] = b[j - m]
      BY <1>1, <2>2
    <3>2. i - m \in 1 .. n /\ j - m \in 1 .. n
      BY <1>1, <2>2
    <3>3. i - m = j - m
      BY <1>2, <1>5, <3>1, <3>2 DEF OnceEach
    <3> QED
      BY <1>1, <3>3
  <2>3. CASE ~ (i \in 1 .. m /\ j \in 1 .. m) /\ ~ (i \in m + 1 .. m + n /\ j \in m + 1 .. m + n)
    <3>1. \/ ab[i] \in ToSet(a) /\ ab[j] \in ToSet(b)
          \/ ab[j] \in ToSet(a) /\ ab[i] \in ToSet(b)
      BY <1>4, <2>3
    <3> QED
      BY <1>5, <3>1 DEF NoneShared
  <2> QED
    BY <2>1, <2>2, <2>3
<1> QED
  BY <1>3, <1>5 DEF OnceEach, ab

\* Lists that share no handler, one after the other.
LEMMA OnceInParts ==
    ASSUME NEW S, NEW parts \in Seq(Seq(S)),
           \A i \in 1 .. Len(parts) : OnceEach(parts[i]),
           \A i, j \in 1 .. Len(parts) : i # j => NoneShared(parts[i], parts[j])
    PROVE  OnceEach(FlattenSeq(parts))
<1>1. PICK joined : Joins(parts, joined)
  BY PartByPart
<1> DEFINE l == Len(parts)
           Right(n) == /\ joined[n] \in Seq(S) /\ ToSet(joined[n]) = Held(parts, n)
                       /\ OnceEach(joined[n])
           T == {n \in Nat : n <= l => Right(n)}
<1>2. l \in Nat /\ \A n \in 1 .. l : parts[n] \in Seq(S)
  BY LenProperties, ElementOfSeq
<1>3. 0 \in T
  <2> DEFINE none == <<>>
  <2>1. joined[0] = none /\ none \in Seq(S) /\ DOMAIN none = {}
    BY <1>1, EmptySeq DEF Joins
  <2> HIDE DEF none
  <2>2. ToSet(none) = {} /\ Held(parts, 0) = {} /\ OnceEach(none)
    BY <2>1 DEF ToSet, Held, OnceEach
  <2> QED
    BY <2>1, <2>2
<1>4. ASSUME NEW n \in Nat, n \in T
      PROVE  n + 1 \in T
  <2> SUFFICES ASSUME n + 1 <= l
               PROVE  Right(n + 1)
    OBVIOUS
  <2>1. n + 1 \in 1 .. l /\ n <= l /\ (n + 1) - 1 = n
    BY <1>2
  <2> DEFINE was == joined[n]
             part == parts[n + 1]
  <2>2. joined[n + 1] = was \o part
    BY <1>1, <2>1 DEF Joins
  <2>3. was \in Seq(S) /\ ToSet(was) = Held(parts, n) /\ OnceEach(was)
    BY <1>4, <2>1
  <2>4. part \in Seq(S) /\ OnceEach(part)
    BY <1>2, <2>1
  <2>5. NoneShared(was, part)
    <3> SUFFICES ASSUME NEW x \in ToSet(was), NEW y \in ToSet(part)
                 PROVE  x.reg.id # y.reg.id
      BY DEF NoneShared
    <3>1. PICK i \in 1 .. n : x \in ToSet(parts[i])
      BY <2>3 DEF Held
    <3>2. i \in 1 .. l /\ i # n + 1
      BY <1>2, <2>1
    <3>3. NoneShared(parts[i], parts[n + 1])
      BY <2>1, <3>2
    <3> QED
      BY <3>1, <3>3 DEF NoneShared
  <2>6. Held(parts, n + 1) = Held(parts, n) \cup ToSet(part)
    <3>1. \A i \in 1 .. n + 1 : i \in 1 .. n \/ i = n + 1
      OBVIOUS
    <3>2. \A i \in 1 .. n : i \in 1 .. n + 1
      OBVIOUS
    <3> QED
      BY <2>1, <3>1, <3>2 DEF Held
  <2> HIDE DEF was, part
  <2>7. /\ was \o part \in Seq(S)
        /\ ToSet(was \o part) = ToSet(was) \cup ToSet(part)
        /\ OnceEach(was \o part)
    <3>1. was \in Seq(S) /\ part \in Seq(S)
      BY <2>3, <2>4
    <3> QED
      BY <3>1, <2>3, <2>4, <2>5, ElementsOfTwo, OnceInTwo
  <2> QED
    BY <2>2, <2>3, <2>6, <2>7
<1>5. Nat \subseteq T
  <2> HIDE DEF T
  <2> QED
    BY <1>3, <1>4, Climb
<1>6. Right(l)
  <2> HIDE DEF Right
  <2> QED
    BY <1>2, <1>5
<1> QED
  BY <1>1, <1>6 DEF Joins

\* A handler on the way down is one of a router that is under.
LEMMA FromUnder ==
    ASSUME NEW tree, AreRouters(tree), NEW router, NEW outer, NEW e,
           NEW h \in 0 .. Count(tree), OnTheWay(e, tree, router, outer, h)
    PROVE  \E s \in Under(tree, router) :
              s \in DOMAIN tree.children /\ e.reg \in ToSet(tree.regs[s])
<1>1. PICK path \in Seq(DOMAIN tree.children) :
         IsPath(path, tree, router, h) /\ e.reg \in ToSet(tree.regs[Last(path)])
  BY DEF OnTheWay
<1>2. Count(tree) \in Nat
  BY FS_CardinalityType DEF AreRouters, Count
<1>3. Len(path) \in 1 .. h /\ h <= Count(tree)
  BY <1>1, <1>2 DEF IsPath
<1>4. IsPath(path, tree, router, Count(tree))
  <2>1. Len(path) \in 1 .. Count(tree)
    BY <1>2, <1>3
  <2> QED
    BY <1>1, <2>1 DEF IsPath
<1>5. path \in Paths(tree, router)
  BY <1>4, PathsAre
<1>6. Last(path) \in Under(tree, router)
  BY <1>5 DEF Under
<1>7. Last(path) \in DOMAIN tree.children
  <2>1. Len(path) \in 1 .. Len(path)
    BY <1>2, <1>3
  <2> QED
    BY <2>1, ElementOfSeq DEF Last
<1> QED
  BY <1>1, <1>6, <1>7

\* A handler is registered by one router.
LEMMA RegisteredByOne ==
    ASSUME NEW tree, AreRouters(tree), NEW r \in DOMAIN tree.children,
           NEW s \in DOMAIN tree.children, NEW g \in ToSet(tree.regs[r]),
           NEW k \in ToSet(tree.regs[s]), g.id = k.id
    PROVE  r = s
<1>1. PICK i \in DOMAIN tree.regs[r] : g = tree.regs[r][i]
  BY DEF ToSet
<1>2. PICK j \in DOMAIN tree.regs[s] : k = tree.regs[s][j]
  BY DEF ToSet
<1>3. tree.regs[r][i].id = tree.regs[s][j].id
  BY <1>1, <1>2
<1> QED
  BY <1>3 DEF AreRouters

\* In a tree, a walk comes to each handler once: the walk over one router more.
LEMMA OnceOneHigher ==
    ASSUME NEW tree, AreRouters(tree), IsTree(tree), NEW h \in Nat, h + 1 \in 1 .. Count(tree),
           NEW router \in DOMAIN tree.children, NEW outer \in Chains(tree),
           \A r \in DOMAIN tree.children : \A o \in Chains(tree) :
              OnceEach(Walks(tree)[h][r][o])
    PROVE  OnceEach(Walks(tree)[h + 1][router][outer])
<1> DEFINE R == DOMAIN tree.children
           E == WalkedSet(tree)
           C == Chains(tree)
           chain == outer \o tree.mws[router]
           children == tree.children[router]
           own == Own(tree, router, chain)
           parts == OfChildren(tree, router, h + 1, chain)
           flat == FlattenSeq(parts)
           walked == Walks(tree)[h + 1][router][outer]
<1>1. /\ C = Seq(MwsIn(tree)) /\ tree.mws[router] \in C /\ children \in Seq(R)
  BY DEF Chains, MwsIn, AreRouters
<1>2. chain \in C
  BY <1>1, ConcatProperties
<1>3. walked = own \o flat
  BY WalkIs
<1>4. Len(children) \in Nat /\ DOMAIN children = 1 .. Len(children) /\ \A i \in 1 .. Len(children) : children[i] \in R
  BY <1>1, LenProperties, ElementOfSeq
<1>5. /\ (h + 1) - 1 = h /\ Count(tree) \in Nat
      /\ h \in 0 .. Count(tree)
  <2>1. Count(tree) \in Nat
    BY FS_CardinalityType DEF AreRouters, Count
  <2> QED
    BY <2>1
<1>6. parts = [i \in 1 .. Len(children) |-> Walks(tree)[h][children[i]][chain]]
  BY <1>4, <1>5 DEF OfChildren
<1> HIDE DEF walked, flat, own, parts, chain, C, R, E, children
<1>7. \A i \in 1 .. Len(children) :
         /\ Walks(tree)[h][children[i]][chain] \in Seq(E)
         /\ OnceEach(Walks(tree)[h][children[i]][chain])
         /\ \A e \in E : e \in ToSet(Walks(tree)[h][children[i]][chain])
                          <=> OnTheWay(e, tree, children[i], chain, h)
  BY <1>2, <1>4, <1>5, WalksAre DEF C, R, E, IsWalk
<1>8. /\ parts \in Seq(Seq(E)) /\ Len(parts) = Len(children)
      /\ \A i \in 1 .. Len(children) : parts[i] = Walks(tree)[h][children[i]][chain]
  <2>1. parts \in [1 .. Len(children) -> Seq(E)]
    BY <1>6, <1>7
  <2> QED
    BY <1>4, <1>6, <2>1
<1>9. flat \in Seq(E) /\ ToSet(flat) = Held(parts, Len(parts))
  BY <1>8, ElementsOfParts DEF flat
<1>10. /\ own \in Seq(E) /\ Len(own) = Len(tree.regs[router])
       /\ \A i \in 1 .. Len(own) : own[i].reg = tree.regs[router][i]
       /\ DOMAIN own = 1 .. Len(own)
       /\ DOMAIN tree.regs[router] = 1 .. Len(own)
  <2>1. /\ own \in Seq(E) /\ Len(own) = Len(tree.regs[router])
        /\ \A i \in 1 .. Len(own) : own[i].reg = tree.regs[router][i]
    BY <1>2, OwnPart DEF own, C, E, R
  <2>2. tree.regs[router] \in Seq(RegsIn(tree))
    BY DEF AreRouters
  <2> QED
    BY <2>1, <2>2, LenProperties
<1>11. OnceEach(own)
  BY <1>10 DEF OnceEach, AreRouters
<1>12. ASSUME NEW i \in 1 .. Len(children), NEW x \in ToSet(parts[i])
       PROVE  \E s \in Under(tree, children[i]) :
                 s \in R /\ x.reg \in ToSet(tree.regs[s])
  <2>1. x \in E
    <3>1. parts[i] \in Seq(E)
      BY <1>7, <1>8
    <3>2. DOMAIN parts[i] = 1 .. Len(parts[i])
      BY <3>1, LenProperties
    <3>3. PICK k \in 1 .. Len(parts[i]) : x = parts[i][k]
      BY <3>2 DEF ToSet
    <3> QED
      BY <3>1, <3>3, ElementOfSeq
  <2>2. OnTheWay(x, tree, children[i], chain, h)
    BY <1>7, <1>8, <2>1
  <2> QED
    BY <1>5, <2>2, FromUnder DEF R
<1>13. /\ \A i \in 1 .. Len(children) : router \notin Under(tree, children[i])
       /\ \A i, j \in 1 .. Len(children) :
             i # j => Under(tree, children[i]) \cap Under(tree, children[j]) = {}
  BY <1>4 DEF IsTree, children
<1>14. \A i \in 1 .. Len(parts) : OnceEach(parts[i])
  BY <1>7, <1>8
<1>15. ASSUME NEW i \in 1 .. Len(parts), NEW j \in 1 .. Len(parts), i # j
       PROVE  NoneShared(parts[i], parts[j])
  <2> SUFFICES ASSUME NEW x \in ToSet(parts[i]), NEW y \in ToSet(parts[j]),
                      x.reg.id = y.reg.id
               PROVE  FALSE
    BY DEF NoneShared
  <2>1. i \in 1 .. Len(children) /\ j \in 1 .. Len(children)
    BY <1>8
  <2>2. PICK s \in Under(tree, children[i]) : s \in R /\ x.reg \in ToSet(tree.regs[s])
    BY <1>12, <2>1
  <2>3. PICK t \in Under(tree, children[j]) : t \in R /\ y.reg \in ToSet(tree.regs[t])
    BY <1>12, <2>1
  <2>4. s = t
    BY <2>2, <2>3, RegisteredByOne DEF R
  <2> QED
    BY <1>13, <1>15, <2>1, <2>2, <2>3, <2>4
<1>16. OnceEach(flat)
  BY <1>8, <1>14, <1>15, OnceInParts DEF flat
<1>17. NoneShared(own, flat)
  <2> SUFFICES ASSUME NEW x \in ToSet(own), NEW y \in ToSet(flat), x.reg.id = y.reg.id
               PROVE  FALSE
    BY DEF NoneShared
  <2>1. PICK k \in 1 .. Len(own) : x = own[k]
    BY <1>10 DEF ToSet
  <2>2. x.reg \in ToSet(tree.regs[router])
    BY <1>10, <2>1 DEF ToSet
  <2>3. PICK i \in 1 .. Len(parts) : y \in ToSet(parts[i])
    BY <1>9 DEF Held
  <2>4. i \in 1 .. Len(children)
    BY <1>8
  <2>5. PICK s \in Under(tree, children[i]) : s \in R /\ y.reg \in ToSet(tree.regs[s])
    BY <1>12, <2>3, <2>4
  <2>6. s = router
    BY <2>2, <2>5, RegisteredByOne DEF R
  <2> QED
    BY <1>13, <2>4, <2>5, <2>6
<1>18. OnceEach(own \o flat)
  BY <1>9, <1>10, <1>11, <1>16, <1>17, OnceInTwo
<1> QED
  BY <1>3, <1>18 DEF walked

\* In a tree, a walk comes to each handler once.
LEMMA WalksComeOnce ==
    ASSUME NEW tree, AreRouters(tree), IsTree(tree)
    PROVE  \A h \in 0 .. Count(tree) : \A r \in DOMAIN tree.children : \A o \in Chains(tree) :
              OnceEach(Walks(tree)[h][r][o])
<1> DEFINE Right(h) == \A r \in DOMAIN tree.children : \A o \in Chains(tree) :
                          OnceEach(Walks(tree)[h][r][o])
           T == {h \in Nat : h <= Count(tree) => Right(h)}
<1>1. Count(tree) \in Nat
  BY FS_CardinalityType DEF AreRouters, Count
<1>2. 0 \in T
  <2> SUFFICES ASSUME NEW r \in DOMAIN tree.children, NEW o \in Chains(tree)
               PROVE  OnceEach(Walks(tree)[0][r][o])
    OBVIOUS
  <2> DEFINE none == <<>>
  <2>1. Walks(tree)[0][r][o] = none
    <3>1. Walks(tree)[0] = NoWalk(tree)
      BY <1>1, WalkByWalk
    <3>2. NoWalk(tree)[r][o] = none
      BY DEF NoWalk
    <3> QED
      BY <3>1, <3>2
  <2>2. DOMAIN none = {}
    OBVIOUS
  <2> HIDE DEF none
  <2> QED
    BY <2>1, <2>2 DEF OnceEach
<1>3. ASSUME NEW h \in Nat, h \in T
      PROVE  h + 1 \in T
  <2> SUFFICES ASSUME h + 1 <= Count(tree)
               PROVE  Right(h + 1)
    OBVIOUS
  <2>1. h <= Count(tree) /\ h + 1 \in 1 .. Count(tree)
    BY <1>1
  <2>2. Right(h)
    BY <1>3, <2>1
  <2> QED
    BY <2>1, <2>2, OnceOneHigher
<1>4. Nat \subseteq T
  <2> HIDE DEF T
  <2> QED
    BY <1>2, <1>3, Climb
<1>5. ASSUME NEW h \in 0 .. Count(tree)
      PROVE  Right(h)
  <2>1. h \in Nat /\ h <= Count(tree) /\ h \in T
    BY <1>1, <1>4
  <2> HIDE DEF Right
  <2> QED
    BY <2>1
<1> QED
  BY <1>5

\* Around a handler are the bot's middlewares, then those of its routers.
LEMMA ChainIs ==
    ASSUME NEW B, NEW botMws \in Seq(B), NEW M, NEW reg, reg.mws \in Seq(M)
    PROVE  Chain(botMws, reg) = botMws \o reg.mws \o <<"handler">>
<1> DEFINE S == B \cup M \cup {"handler"}
           core == <<"handler">>
           mws == reg.mws
<1>1. botMws \in Seq(S)
  <2>1. botMws \in [1 .. Len(botMws) -> B] /\ Len(botMws) \in Nat
    BY LenProperties
  <2>2. botMws \in [1 .. Len(botMws) -> S]
    BY <2>1
  <2> QED
    BY <2>1, <2>2
<1>2. mws \in Seq(S)
  <2>1. mws \in [1 .. Len(mws) -> M] /\ Len(mws) \in Nat
    BY LenProperties
  <2>2. mws \in [1 .. Len(mws) -> S]
    BY <2>1
  <2> QED
    BY <2>1, <2>2
<1>3. core \in Seq(S)
  OBVIOUS
<1> HIDE DEF S, core, mws
<1>4. botMws \o mws \in Seq(S)
  BY <1>1, <1>2, ConcatProperties
<1>5. Compose(botMws \o mws, core) = (botMws \o mws) \o core
  BY <1>3, <1>4, ComposedInOrder
<1> QED
  BY <1>5 DEF Chain, core, mws

\* Around every handler run the bot's middlewares and then, from the root down, those
\* of the routers on the way to its own; where no router is included twice, every
\* handler is registered once.
THEOREM MiddlewaresRunFromTheRoot ==
    ASSUME NEW B,
           input.kind = "tree" => /\ AreRouters(input.tree)
                                  /\ input.root \in DOMAIN input.tree.children
                                  /\ input.botMws \in Seq(B)
    PROVE  MiddlewaresFollowTheTree
<1> SUFFICES ASSUME input.kind = "tree"
             PROVE  ChainFollowsThePath(input.botMws, input.tree, input.root)
  BY DEF MiddlewaresFollowTheTree
<1> DEFINE tree == input.tree
           root == input.root
           botMws == input.botMws
           none == <<>>
           walked == WalkFrom(tree, root)
           M == MwsIn(tree)
           around(mws) == botMws \o mws \o <<"handler">>
<1>1. AreRouters(tree) /\ root \in DOMAIN tree.children /\ botMws \in Seq(B)
  OBVIOUS
<1>2. Count(tree) \in Nat /\ Count(tree) \in 0 .. Count(tree)
  <2>1. Count(tree) \in Nat
    BY <1>1, FS_CardinalityType DEF AreRouters, Count
  <2> QED
    BY <2>1
<1>3. none \in Seq(M) /\ Chains(tree) = Seq(M)
  BY DEF Chains, MwsIn
<1>4. walked = Walks(tree)[Count(tree)][root][none]
  BY WholeWalk
<1> HIDE DEF tree, root, botMws, none, walked, M, around
<1>5. IsWalk(walked, tree, root, none, Count(tree))
  BY <1>1, <1>2, <1>3, <1>4, WalksAre
<1>6. /\ walked \in Seq(WalkedSet(tree))
      /\ \A e \in WalkedSet(tree) :
            e \in ToSet(walked) <=> OnTheWay(e, tree, root, none, Count(tree))
  BY <1>5 DEF IsWalk
<1>7. DOMAIN walked = 1 .. Len(walked) /\ \A i \in 1 .. Len(walked) : walked[i] \in WalkedSet(tree)
  BY <1>6, LenProperties, ElementOfSeq
<1>8. ASSUME NEW i \in DOMAIN walked
      PROVE  Chain(botMws, walked[i]) = around(walked[i].mws)
  <2>1. walked[i].mws \in Seq(M)
    BY <1>3, <1>7 DEF WalkedSet
  <2> QED
    BY <1>1, <2>1, ChainIs DEF around
<1>9. ASSUME NEW path \in Paths(tree, root)
      PROVE  /\ path \in Seq(DOMAIN tree.children)
             /\ IsPath(path, tree, root, Count(tree))
             /\ Along(tree, path) \in Seq(M)
             /\ none \o Along(tree, path) = Along(tree, path)
             /\ Last(path) \in DOMAIN tree.children
  <2>1. IsPath(path, tree, root, Count(tree)) /\ path \in Seq(DOMAIN tree.children)
    BY <1>1, PathsAre DEF IsPath
  <2>2. Along(tree, path) \in Seq(M)
    BY <1>1, <1>3, <2>1, AlongByRouter
  <2>3. none \o Along(tree, path) = Along(tree, path)
    BY <2>2, ConcatEmptySeq DEF none
  <2>4. Last(path) \in DOMAIN tree.children
    <3>1. Len(path) \in 1 .. Len(path)
      BY <1>2, <2>1 DEF IsPath
    <3> QED
      BY <2>1, <3>1, ElementOfSeq DEF Last
  <2> QED
    BY <2>1, <2>2, <2>3, <2>4
<1>10. ASSUME NEW i \in DOMAIN walked
       PROVE  \E path \in Paths(tree, root) : \E reg \in ToSet(tree.regs[Last(path)]) :
                 <<walked[i].reg.id, Chain(botMws, walked[i])>>
                    = <<reg.id, around(Along(tree, path))>>
  <2>1. OnTheWay(walked[i], tree, root, none, Count(tree))
    BY <1>6, <1>7 DEF ToSet
  <2>2. PICK path \in Seq(DOMAIN tree.children) :
           /\ IsPath(path, tree, root, Count(tree))
           /\ walked[i].reg \in ToSet(tree.regs[Last(path)])
           /\ walked[i].mws = none \o Along(tree, path)
    BY <2>1 DEF OnTheWay
  <2>3. path \in Paths(tree, root)
    BY <1>1, <2>2, PathsAre
  <2>4. walked[i].mws = Along(tree, path)
    BY <1>9, <2>2, <2>3
  <2> QED
    BY <1>8, <2>2, <2>3, <2>4
<1>11. ASSUME NEW path \in Paths(tree, root), NEW reg \in ToSet(tree.regs[Last(path)])
       PROVE  \E i \in DOMAIN walked :
                 <<reg.id, around(Along(tree, path))>>
                    = <<walked[i].reg.id, Chain(botMws, walked[i])>>
  <2> DEFINE e == [reg |-> reg, mws |-> Along(tree, path)]
  <2>1. reg \in RegsIn(tree)
    BY <1>9 DEF RegsIn
  <2>2. e \in WalkedSet(tree)
    BY <1>3, <1>9, <2>1 DEF WalkedSet
  <2>3. e.reg = reg /\ e.mws = Along(tree, path)
    OBVIOUS
  <2> HIDE DEF e
  <2>4. OnTheWay(e, tree, root, none, Count(tree))
    BY <1>9, <2>3 DEF OnTheWay
  <2>5. PICK i \in DOMAIN walked : walked[i] = e
    BY <1>6, <2>2, <2>4 DEF ToSet
  <2> QED
    BY <1>8, <2>3, <2>5
<1> DEFINE named == {<<walked[i].reg.id, Chain(botMws, walked[i])>> : i \in DOMAIN walked}
           expected == UNION {{<<reg.id, around(Along(tree, path))>> :
                                 reg \in ToSet(tree.regs[Last(path)])} :
                               path \in Paths(tree, root)}
<1>12. named = expected
  <2>1. named \subseteq expected
    BY <1>10
  <2>2. expected \subseteq named
    BY <1>11
  <2> QED
    BY <2>1, <2>2
<1>13. ASSUME IsTree(tree)
       PROVE  \A i, j \in DOMAIN walked : walked[i].reg.id = walked[j].reg.id => i = j
  <2>1. OnceEach(walked)
    BY <1>1, <1>2, <1>3, <1>4, <1>13, WalksComeOnce
  <2> QED
    BY <2>1 DEF OnceEach
<1>14. ChainFollowsThePath(botMws, tree, root)
  BY <1>12, <1>13 DEF ChainFollowsThePath, Along, around, walked
<1> QED
  BY <1>14 DEF botMws, tree, root
=============================================================================
