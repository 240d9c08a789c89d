------------------------- MODULE DeclarationProofs --------------------------
(***************************************************************************)
(* Theorems about what the declarations of an author come to: who gets an  *)
(* update of a built bot, for any handlers, in any groups, and any run of  *)
(* the caller; in which order the steps of a conversation are tried; what  *)
(* the menus and /help show; which command lines a handler accepts, for    *)
(* any parameters and any line.  All of them are lists joined from parts   *)
(* and chosen from other lists, so the lemmas of the first part say what   *)
(* such a list holds, part by part.                                        *)
(***************************************************************************)
EXTENDS InputProofs, RoutingProperties, DeclarationProperties

(***************************************************************************)
(* Joined lists.                                                           *)
(***************************************************************************)

\* What has been joined once a part is reached.
JoinStep(parts, joined, n) ==
    IF n = 1 THEN parts[n] ELSE joined[n - 1] \o parts[n]

\* The parts can be joined up to any one.
LEMMA JoinedUpTo ==
    ASSUME NEW parts
    PROVE  \A m \in Nat : \E s : s = [n \in 1 .. m |-> JoinStep(parts, s, n)]
<1> DEFINE Step(s, n) == JoinStep(parts, s, n)
           Goal(s, m) == s = [n \in 1 .. m |-> Step(s, n)]
           S == {m \in Nat : \E s : Goal(s, m)}
<1>1. 0 \in S
  <2>1. [n \in 1 .. 0 |-> <<>>] = [n \in 1 .. 0 |-> Step([i \in 1 .. 0 |-> <<>>], n)]
    <3> HIDE DEF Step
    <3> QED
      OBVIOUS
  <2>2. Goal([n \in 1 .. 0 |-> <<>>], 0)
    BY <2>1
  <2> QED
    BY <2>2
<1>2. ASSUME NEW m \in Nat, m \in S
      PROVE  m + 1 \in S
  <2>1. PICK s : Goal(s, m)
    BY <1>2
  <2> DEFINE t == [n \in 1 .. m + 1 |-> IF n <= m THEN s[n] ELSE Step(s, n)]
  <2>2. ASSUME NEW n \in 1 .. m + 1
        PROVE  t[n] = Step(t, n)
    <3>1. t[n] = IF n <= m THEN s[n] ELSE Step(s, n)
      OBVIOUS
    <3>2. n <= m => s[n] = Step(s, n)
      <4> SUFFICES ASSUME n <= m
                   PROVE  s[n] = Step(s, n)
        OBVIOUS
      <4>1. n \in 1 .. m
        OBVIOUS
      <4> HIDE DEF Step, t
      <4> QED
        BY <4>1, <2>1
    <3>3. t[n] = Step(s, n)
      <4> HIDE DEF Step, t
      <4> QED
        BY <3>1, <3>2
    <3>4. n # 1 => t[n - 1] = s[n - 1]
      <4>1. n # 1 => n - 1 \in 1 .. m + 1 /\ n - 1 <= m
        OBVIOUS
      <4> QED
        BY <4>1
    <3>5. Step(s, n) = Step(t, n)
      <4> HIDE DEF t
      <4> QED
        BY <3>4 DEF JoinStep
    <3> QED
      BY <3>3, <3>5
  <2>3. t = [n \in 1 .. m + 1 |-> t[n]]
    OBVIOUS
  <2>4. Goal(t, m + 1)
    <3> HIDE DEF t, Step
    <3> QED
      BY <2>2, <2>3
  <2> HIDE DEF t, Goal
  <2> QED
    BY <2>4
<1>3. Nat \subseteq S
  <2> HIDE DEF S
  <2> QED
    BY <1>1, <1>2, Climb
<1> QED
  BY <1>3

\* A list of lists is joined part by part: joined[n] is what the first n come to.
Joins(parts, joined) ==
    /\ joined[0] = <<>>
    /\ \A n \in 1 .. Len(parts) : joined[n] = joined[n - 1] \o parts[n]
    /\ FlattenSeq(parts) = joined[Len(parts)]

\* A list of lists can be gone through part by part.
LEMMA PartByPart ==
    ASSUME NEW S, NEW parts \in Seq(Seq(S))
    PROVE  \E joined : Joins(parts, joined)
<1> DEFINE l == Len(parts)
           Step(s, n) == JoinStep(parts, s, n)
           IsJoined(s) == s = [n \in 1 .. l |-> Step(s, n)]
           flat == CHOOSE s : IsJoined(s)
           joined == [n \in 0 .. l |-> IF n = 0 THEN <<>> ELSE flat[n]]
<1>1. l \in Nat /\ \A n \in 1 .. l : parts[n] \in Seq(S)
  BY LenProperties, ElementOfSeq
<1>2. l # 0 => FlattenSeq(parts) = flat[l]
  BY DEF FlattenSeq, JoinStep
<1>3. l = 0 => FlattenSeq(parts) = <<>>
  BY EmptySeq DEF FlattenSeq
<1>4. \E s : IsJoined(s)
  <2>1. \A m \in Nat : \E s : s = [n \in 1 .. m |-> Step(s, n)]
    BY JoinedUpTo
  <2> HIDE DEF Step, l
  <2> QED
    BY <2>1, <1>1
<1>5. IsJoined(flat)
  <2> HIDE DEF IsJoined
  <2> QED
    BY <1>4
<1>6. \A n \in 1 .. l : flat[n] = Step(flat, n)
  <2> HIDE DEF flat, Step, l
  <2> QED
    BY <1>5
<1> HIDE DEF flat, IsJoined
<1>7. \A n \in 1 .. l : flat[n] = IF n = 1 THEN parts[n] ELSE flat[n - 1] \o parts[n]
  BY <1>6 DEF JoinStep
<1> HIDE DEF Step
<1>8. joined[0] = <<>> /\ joined[l] = IF l = 0 THEN <<>> ELSE flat[l]
  BY <1>1
<1>9. ASSUME NEW n \in 1 .. l
      PROVE  joined[n] = joined[n - 1] \o parts[n]
  <2>1. n \in Nat /\ n # 0 /\ n - 1 \in Nat /\ n - 1 \in 0 .. l /\ n \in 0 .. l
    BY <1>1
  <2>2. joined[n] = flat[n]
    BY <2>1
  <2>3. CASE n = 1
    <3>1. joined[n - 1] = <<>> /\ flat[n] = parts[n]
      BY <1>7, <2>1, <2>3
    <3>2. <<>> \o parts[n] = parts[n]
      BY <1>1, ConcatEmptySeq
    <3> HIDE DEF joined
    <3> QED
      BY <2>2, <3>1, <3>2
  <2>4. CASE n # 1
    <3>1. joined[n - 1] = flat[n - 1]
      BY <2>1, <2>4
    <3> HIDE DEF joined
    <3> QED
      BY <1>7, <2>2, <2>4, <3>1
  <2> QED
    BY <2>3, <2>4
<1> HIDE DEF joined
<1>10. Joins(parts, joined)
  BY <1>1, <1>2, <1>3, <1>8, <1>9 DEF Joins
<1> QED
  BY <1>10

\* What two joined lists hold.
LEMMA ElementsOfTwo ==
    ASSUME NEW S, NEW a \in Seq(S), NEW b \in Seq(S)
    PROVE  a \o b \in Seq(S) /\ ToSet(a \o b) = ToSet(a) \cup ToSet(b)
<1> DEFINE ab == a \o b
<1>1. /\ Len(a) \in Nat /\ Len(b) \in Nat /\ ab \in Seq(S)
      /\ Len(ab) = Len(a) + Len(b)
      /\ \A j \in 1 .. Len(a) : ab[j] = a[j]
      /\ \A j \in Len(a) + 1 .. Len(a) + Len(b) : ab[j] = b[j - Len(a)]
      /\ DOMAIN a = 1 .. Len(a) /\ DOMAIN b = 1 .. Len(b) /\ DOMAIN ab = 1 .. Len(ab)
  BY LenProperties, ConcatProperties
<1> HIDE DEF ab
<1>2. ASSUME NEW j \in 1 .. Len(ab)
      PROVE  ab[j] \in ToSet(a) \cup ToSet(b)
  <2>1. CASE j \in 1 .. Len(a)
    BY <1>1, <2>1 DEF ToSet
  <2>2. CASE ~ (j \in 1 .. Len(a))
    <3>1. j \in Len(a) + 1 .. Len(a) + Len(b) /\ j - Len(a) \in 1 .. Len(b)
      BY <1>1, <2>2
    <3> QED
      BY <1>1, <3>1 DEF ToSet
  <2> QED
    BY <2>1, <2>2
<1>3. ASSUME NEW i \in 1 .. Len(a)
      PROVE  a[i] \in ToSet(ab)
  <2>1. i \in 1 .. Len(ab)
    BY <1>1
  <2> QED
    BY <1>1, <2>1 DEF ToSet
<1>4. ASSUME NEW i \in 1 .. Len(b)
      PROVE  b[i] \in ToSet(ab)
  <2> DEFINE k == Len(a) + i
  <2>1. k \in 1 .. Len(ab) /\ k \in Len(a) + 1 .. Len(a) + Len(b) /\ k - Len(a) = i
    BY <1>1
  <2> HIDE DEF k
  <2> QED
    BY <1>1, <2>1 DEF ToSet
<1>5. ToSet(ab) \subseteq ToSet(a) \cup ToSet(b)
  BY <1>1, <1>2 DEF ToSet
<1>6. ToSet(a) \subseteq ToSet(ab) /\ ToSet(b) \subseteq ToSet(ab)
  BY <1>1, <1>3, <1>4 DEF ToSet
<1> QED
  BY <1>1, <1>5, <1>6 DEF ab

\* What the first n parts hold.
Held(parts, n) == UNION {ToSet(parts[i]) : i \in 1 .. n}

\* A joined list holds what its parts hold.
LEMMA ElementsOfParts ==
    ASSUME NEW S, NEW parts \in Seq(Seq(S))
    PROVE  /\ FlattenSeq(parts) \in Seq(S)
           /\ ToSet(FlattenSeq(parts)) = Held(parts, Len(parts))
<1>1. PICK joined : Joins(parts, joined)
  BY PartByPart
<1> DEFINE l == Len(parts)
           Right(n) == joined[n] \in Seq(S) /\ ToSet(joined[n]) = Held(parts, n)
           T == {n \in Nat : n <= l => Right(n)}
<1>2. l \in Nat /\ \A n \in 1 .. l : parts[n] \in Seq(S)
  BY LenProperties, ElementOfSeq
<1>3. 0 \in T
  <2> DEFINE none == <<>>
  <2>1. joined[0] = none /\ none \in Seq(S) /\ DOMAIN none = {}
    BY <1>1, EmptySeq DEF Joins
  <2> HIDE DEF none
  <2>2. ToSet(none) = {}
    BY <2>1 DEF ToSet
  <2>3. Held(parts, 0) = {}
    BY DEF Held
  <2>4. Right(0)
    BY <2>1, <2>2, <2>3
  <2> QED
    BY <2>4
<1>4. ASSUME NEW n \in Nat, n \in T
      PROVE  n + 1 \in T
  <2> SUFFICES ASSUME n + 1 <= l
               PROVE  Right(n + 1)
    OBVIOUS
  <2> DEFINE was == joined[n]
             new == parts[n + 1]
  <2>1. n + 1 \in 1 .. l /\ (n + 1) - 1 = n /\ n <= l
    BY <1>2
  <2>2. Right(n)
    BY <2>1, <1>4
  <2>3. was \in Seq(S) /\ new \in Seq(S) /\ joined[n + 1] = was \o new
    BY <1>1, <1>2, <2>1, <2>2 DEF Joins
  <2>4. ToSet(was) = Held(parts, n)
    BY <2>2
  <2> HIDE DEF was
  <2>5. was \o new \in Seq(S) /\ ToSet(was \o new) = ToSet(was) \cup ToSet(new)
    BY <2>3, ElementsOfTwo
  <2>6. Held(parts, n + 1) = Held(parts, n) \cup ToSet(new)
    <3>1. \A i \in 1 .. n + 1 : i \in 1 .. n \/ i = n + 1
      OBVIOUS
    <3>2. 1 .. n \subseteq 1 .. n + 1 /\ n + 1 \in 1 .. n + 1
      OBVIOUS
    <3> QED
      BY <3>1, <3>2 DEF Held
  <2> QED
    BY <2>3, <2>4, <2>5, <2>6
<1>5. Nat \subseteq T
  <2> HIDE DEF T
  <2> QED
    BY <1>3, <1>4, Climb
<1>6. Right(l)
  <2> HIDE DEF Right
  <2> QED
    BY <1>2, <1>5
<1> QED
  BY <1>1, <1>6 DEF Joins

(***************************************************************************)
(* The reply buttons, and the rest, in order.                              *)
(***************************************************************************)

\* kept holds, in order, the registrations up to n that are buttons or are not;
\* from says where each was.
Picks(flat, reply, kept, n, from) ==
    /\ from \in [1 .. Len(kept) -> 1 .. n]
    /\ \A p \in 1 .. Len(kept) : kept[p] = flat[from[p]] /\ flat[from[p]].reply = reply
    /\ \A p, q \in 1 .. Len(kept) : p < q => from[p] < from[q]
    /\ \A i \in 1 .. n : flat[i].reply = reply => \E p \in 1 .. Len(kept) : from[p] = i

\* One more registration, that is kept.
LEMMA PicksOneMore ==
    ASSUME NEW S, NEW flat \in Seq(S), NEW reply, NEW n \in Nat, n + 1 <= Len(flat),
           NEW kept \in Seq(S), NEW from, Picks(flat, reply, kept, n, from),
           flat[n + 1].reply = reply
    PROVE  \E g : Picks(flat, reply, Append(kept, flat[n + 1]), n + 1, g)
<1> DEFINE l == Len(kept)
           more == Append(kept, flat[n + 1])
           g == [p \in 1 .. l + 1 |-> IF p <= l THEN from[p] ELSE n + 1]
<1>1. /\ l \in Nat
      /\ Len(flat) \in Nat
      /\ flat[n + 1] \in S
      /\ DOMAIN kept = 1 .. l
  BY LenProperties, ElementOfSeq
<1>2. /\ Len(more) = l + 1
      /\ \A p \in 1 .. l : more[p] = kept[p]
      /\ more[l + 1] = flat[n + 1]
  BY <1>1, AppendProperties
<1>3. \A p \in 1 .. l : from[p] \in 1 .. n
  BY DEF Picks
<1>4. /\ \A p \in 1 .. l : g[p] = from[p]
      /\ g[l + 1] = n + 1
      /\ DOMAIN g = 1 .. l + 1
  BY <1>1
<1>5. \A p \in 1 .. l + 1 : p \in 1 .. l \/ p = l + 1
  BY <1>1
<1> HIDE DEF more
<1>6. g \in [1 .. l + 1 -> 1 .. n + 1]
  BY <1>1, <1>3
<1> HIDE DEF g
<1>7. \A p \in 1 .. l + 1 : more[p] = flat[g[p]] /\ flat[g[p]].reply = reply
  BY <1>2, <1>4, <1>5 DEF Picks
<1>8. ASSUME NEW p \in 1 .. l + 1, NEW q \in 1 .. l + 1, p < q
      PROVE  g[p] < g[q]
  <2>1. p \in 1 .. l /\ g[p] = from[p] /\ from[p] \in 1 .. n
    BY <1>1, <1>3, <1>4, <1>8
  <2>2. CASE q \in 1 .. l
    BY <2>1, <2>2, <1>4, <1>8 DEF Picks
  <2>3. CASE q = l + 1
    BY <2>1, <2>3, <1>4
  <2> QED
    BY <2>2, <2>3, <1>5
<1>9. ASSUME NEW i \in 1 .. n + 1, flat[i].reply = reply
      PROVE  \E p \in 1 .. l + 1 : g[p] = i
  <2>1. CASE i \in 1 .. n
    <3>1. PICK p \in 1 .. l : from[p] = i
      BY <2>1, <1>9 DEF Picks
    <3>2. p \in 1 .. l + 1
      BY <1>1
    <3> QED
      BY <3>1, <3>2, <1>4
  <2>2. CASE i = n + 1
    <3>1. l + 1 \in 1 .. l + 1
      BY <1>1
    <3> QED
      BY <3>1, <2>2, <1>4
  <2> QED
    BY <2>1, <2>2
<1>10. Picks(flat, reply, more, n + 1, g)
  <2> HIDE DEF l
  <2> QED
    BY <1>2, <1>6, <1>7, <1>8, <1>9 DEF Picks
<1> QED
  BY <1>10 DEF more

\* Where keeps the registrations it is asked for, in order.
LEMMA WherePicks ==
    ASSUME NEW S, NEW flat \in Seq(S), NEW reply
    PROVE  /\ Where(flat, reply) \in Seq(S)
           /\ \E from : Picks(flat, reply, Where(flat, reply), Len(flat), from)
<1> DEFINE chosen == {i \in DOMAIN flat : flat[i].reply = reply}
           parts == [i \in 1 .. Len(flat) |-> IF i \in chosen THEN <<flat[i]>> ELSE <<>>]
<1>1. /\ Len(flat) \in Nat /\ DOMAIN flat = 1 .. Len(flat)
      /\ \A i \in 1 .. Len(flat) : flat[i] \in S
  BY LenProperties, ElementOfSeq
<1>2. Where(flat, reply) = FlattenSeq(parts)
  BY DEF Where, Those
<1>3. \A i \in 1 .. Len(flat) :
         /\ flat[i].reply = reply => parts[i] = <<flat[i]>>
         /\ flat[i].reply # reply => parts[i] = <<>>
  BY <1>1
<1>4. parts \in Seq(Seq(S)) /\ Len(parts) = Len(flat)
  <2>1. ASSUME NEW i \in 1 .. Len(flat)
        PROVE  parts[i] \in Seq(S)
    <3>1. <<flat[i]>> \in Seq(S) /\ <<>> \in Seq(S)
      BY <1>1
    <3> HIDE DEF parts
    <3> QED
      BY <1>3, <3>1
  <2>2. parts = [i \in 1 .. Len(flat) |-> parts[i]]
    OBVIOUS
  <2> HIDE DEF parts
  <2> QED
    BY <1>1, <2>1, <2>2
<1> HIDE DEF parts
<1>5. PICK kept : Joins(parts, kept)
  BY <1>4, PartByPart
<1>6. kept[0] = <<>>
  BY <1>5 DEF Joins
<1> DEFINE Right(n) == /\ kept[n] \in Seq(S)
                       /\ \E from : Picks(flat, reply, kept[n], n, from)
           T == {n \in Nat : n <= Len(flat) => Right(n)}
<1>7. 0 \in T
  <2>1. <<>> \in Seq(S) /\ Len(<<>>) = 0
    BY EmptySeq
  <2>2. Picks(flat, reply, <<>>, 0, [p \in 1 .. 0 |-> 1])
    BY <2>1 DEF Picks
  <2>3. Right(0)
    BY <2>1, <2>2, <1>6
  <2> QED
    BY <2>3
<1>8. ASSUME NEW n \in Nat, n \in T
      PROVE  n + 1 \in T
  <2> SUFFICES ASSUME n + 1 <= Len(flat)
               PROVE  Right(n + 1)
    OBVIOUS
  <2>1. n + 1 \in 1 .. Len(flat) /\ (n + 1) - 1 = n /\ n <= Len(flat)
    BY <1>1
  <2>2. Right(n)
    BY <2>1, <1>8
  <2>3. PICK from : Picks(flat, reply, kept[n], n, from)
    BY <2>2
  <2> DEFINE was == kept[n]
             one == flat[n + 1]
  <2>4. was \in Seq(S) /\ Len(was) \in Nat /\ one \in S
    BY <2>1, <2>2, LenProperties, ElementOfSeq
  <2>5. Picks(flat, reply, was, n, from)
    BY <2>3
  <2>6. kept[n + 1] = was \o parts[n + 1]
    BY <1>4, <1>5, <2>1 DEF Joins
  <2> HIDE DEF was
  <2>7. CASE one.reply = reply
    <3>1. parts[n + 1] = <<one>>
      BY <1>3, <2>1, <2>7
    <3> HIDE DEF one
    <3>2. was \o <<one>> = Append(was, one)
      BY <2>4, AppendIsConcat
    <3>3. kept[n + 1] = Append(was, one)
      BY <2>6, <3>1, <3>2
    <3>4. Append(was, one) \in Seq(S)
      BY <2>4, AppendProperties
    <3>5. \E g : Picks(flat, reply, Append(was, flat[n + 1]), n + 1, g)
      BY <2>4, <2>5, <2>7, PicksOneMore DEF one
    <3> QED
      BY <3>3, <3>4, <3>5 DEF one
  <2>8. CASE one.reply # reply
    <3>1. parts[n + 1] = <<>>
      BY <1>3, <2>1, <2>8
    <3>2. kept[n + 1] = was
      BY <2>4, <2>6, <3>1, ConcatEmptySeq
    <3>3. Picks(flat, reply, was, n + 1, from)
      <4>1. from \in [1 .. Len(was) -> 1 .. n + 1]
        BY <2>4, <2>5 DEF Picks
      <4>2. \A i \in 1 .. n + 1 : i \in 1 .. n \/ i = n + 1
        OBVIOUS
      <4> QED
        BY <4>1, <4>2, <2>5, <2>8 DEF Picks
    <3> QED
      BY <3>2, <3>3, <2>4
  <2> QED
    BY <2>7, <2>8
<1>9. Nat \subseteq T
  <2> HIDE DEF T
  <2> QED
    BY <1>7, <1>8, Climb
<1>10. Right(Len(flat))
  <2> HIDE DEF Right
  <2> QED
    BY <1>1, <1>9
<1>11. FlattenSeq(parts) = kept[Len(flat)]
  BY <1>4, <1>5 DEF Joins
<1> QED
  BY <1>2, <1>10, <1>11

(***************************************************************************)
(* Bots.                                                                   *)
(***************************************************************************)

\* The registrations a router makes: only a message handler is a reply button.
Registrations ==
    [id : Nat \ {0}, kind : {"command"}, on : CommandNames, when : {Everything},
     group : Int, reply : {FALSE}, edits : BOOLEAN]
    \cup [id : Nat \ {0}, kind : {"callback"}, on : Models, when : SUBSET Payloads,
          group : Int, reply : {FALSE}, edits : {FALSE}]
    \cup [id : Nat \ {0}, kind : {"message"}, on : SUBSET (Texts \cup CommandNames),
          when : {Everything}, group : Int, reply : BOOLEAN, edits : BOOLEAN]

\* The entries of a conversation are in group 0; no two handlers are one.
IsBot(bot) ==
    /\ bot.hasAuth \in BOOLEAN
    /\ bot.flat \in Seq(Registrations)
    /\ bot.entries \in Seq(Registrations)
    /\ \A i \in 1 .. Len(bot.entries) : bot.entries[i].group = 0
    /\ bot.raws \in Seq(Registrations)
    /\ LET all == bot.entries \o bot.flat \o bot.raws
       IN \A i, j \in 1 .. Len(all) : all[i].id = all[j].id => i = j

\* Where Compile puts what: the gate and the reply buttons before c, the
\* conversations at c, the rest up to b, the raw handlers before n, which is the
\* catch-all's; at says where in flat a handler was.
LaidOut(bot, h, c, b, n, at) ==
    /\ c \in Nat /\ b \in Nat /\ n \in Nat
    /\ 1 <= c /\ c <= b /\ b < n
    /\ DOMAIN h = 1 .. n
    /\ bot.hasAuth => 1 < c /\ h[1] = Gate
    /\ \A i \in 1 .. c - 1 :
          \/ bot.hasAuth /\ i = 1
          \/ at[i] \in 1 .. Len(bot.flat) /\ h[i] = bot.flat[at[i]] /\ h[i].reply = TRUE
    /\ h[c] = Conversations(bot.entries)
    /\ \A i \in c + 1 .. b :
          at[i] \in 1 .. Len(bot.flat) /\ h[i] = bot.flat[at[i]] /\ h[i].reply = FALSE
    /\ \A i, j \in c + 1 .. b : i < j => at[i] < at[j]
    /\ \A i \in b + 1 .. n - 1 : \E k \in 1 .. Len(bot.raws) : h[i] = bot.raws[k]
    /\ h[n] = Stray
    /\ \A k \in 1 .. Len(bot.flat) : bot.flat[k].reply = TRUE =>
          \E i \in 1 .. c - 1 : h[i] = bot.flat[k]
    /\ \A k \in 1 .. Len(bot.flat) : bot.flat[k].reply = FALSE =>
          \E i \in c + 1 .. b : h[i] = bot.flat[k] /\ at[i] = k

\* Two sequences one after the other.
LEMMA JoinedTwo ==
    ASSUME NEW S, NEW s \in Seq(S), NEW u \in Seq(S)
    PROVE  /\ s \o u \in Seq(S) /\ Len(s \o u) = Len(s) + Len(u)
           /\ \A i \in 1 .. Len(s) : (s \o u)[i] = s[i]
           /\ \A i \in Len(s) + 1 .. Len(s) + Len(u) : (s \o u)[i] = u[i - Len(s)]
<1> DEFINE t == s \o u
<1>1. Len(s) \in Nat /\ Len(u) \in Nat
  BY LenProperties
<1>2. /\ t \in Seq(S) /\ Len(t) = Len(s) + Len(u)
      /\ \A i \in 1 .. Len(s) + Len(u) :
            t[i] = IF i <= Len(s) THEN s[i] ELSE u[i - Len(s)]
  BY ConcatProperties
<1> HIDE DEF t
<1>3. /\ \A i \in 1 .. Len(s) : i \in 1 .. Len(s) + Len(u) /\ i <= Len(s)
      /\ \A i \in Len(s) + 1 .. Len(s) + Len(u) :
            i \in 1 .. Len(s) + Len(u) /\ ~ (i <= Len(s))
  BY <1>1
<1>4. /\ \A i \in 1 .. Len(s) : t[i] = s[i]
      /\ \A i \in Len(s) + 1 .. Len(s) + Len(u) : t[i] = u[i - Len(s)]
  BY <1>2, <1>3
<1> QED
  BY <1>2, <1>4 DEF t

\* h is six sequences one after the other.
InTurn(h, s1, s2, s3, s4, s5, s6) ==
    LET l1 == Len(s1)
        l2 == l1 + Len(s2)
        l3 == l2 + Len(s3)
        l4 == l3 + Len(s4)
        l5 == l4 + Len(s5)
        l6 == l5 + Len(s6)
    IN /\ DOMAIN h = 1 .. l6
       /\ \A i \in 1 .. l1 : h[i] = s1[i]
       /\ \A i \in l1 + 1 .. l2 : h[i] = s2[i - l1]
       /\ \A i \in l2 + 1 .. l3 : h[i] = s3[i - l2]
       /\ \A i \in l3 + 1 .. l4 : h[i] = s4[i - l3]
       /\ \A i \in l4 + 1 .. l5 : h[i] = s5[i - l4]
       /\ \A i \in l5 + 1 .. l6 : h[i] = s6[i - l5]

\* Six sequences one after the other.
LEMMA Joined ==
    ASSUME NEW S, NEW s1 \in Seq(S), NEW s2 \in Seq(S), NEW s3 \in Seq(S),
           NEW s4 \in Seq(S), NEW s5 \in Seq(S), NEW s6 \in Seq(S)
    PROVE  InTurn(s1 \o s2 \o s3 \o s4 \o s5 \o s6, s1, s2, s3, s4, s5, s6)
<1> DEFINE h == s1 \o s2 \o s3 \o s4 \o s5 \o s6
           l1 == Len(s1)
           l2 == l1 + Len(s2)
           l3 == l2 + Len(s3)
           l4 == l3 + Len(s4)
           l5 == l4 + Len(s5)
           l6 == l5 + Len(s6)
<1>1. /\ Len(s1) \in Nat /\ Len(s2) \in Nat /\ Len(s3) \in Nat
      /\ Len(s4) \in Nat /\ Len(s5) \in Nat /\ Len(s6) \in Nat
  BY LenProperties
<1>2. /\ l1 \in Nat /\ l2 \in Nat /\ l3 \in Nat /\ l4 \in Nat /\ l5 \in Nat /\ l6 \in Nat
      /\ l1 <= l2 /\ l2 <= l3 /\ l3 <= l4 /\ l4 <= l5 /\ l5 <= l6
  BY <1>1
<1>0. /\ l1 = Len(s1) /\ l2 = l1 + Len(s2) /\ l3 = l2 + Len(s3) /\ l4 = l3 + Len(s4)
      /\ l5 = l4 + Len(s5) /\ l6 = l5 + Len(s6)
  OBVIOUS
<1> HIDE DEF l1, l2, l3, l4, l5, l6
<1> DEFINE t2 == s1 \o s2
           t3 == t2 \o s3
           t4 == t3 \o s4
           t5 == t4 \o s5
           t6 == t5 \o s6
<1>3. /\ t2 \in Seq(S) /\ Len(t2) = l2
      /\ \A i \in 1 .. l1 : t2[i] = s1[i]
      /\ \A i \in l1 + 1 .. l2 : t2[i] = s2[i - l1]
  <2>1. t2 = s1 \o s2 /\ Len(s1) = l1 /\ s1 \in Seq(S) /\ s2 \in Seq(S)
        /\ l2 = l1 + Len(s2)
    BY <1>0
  <2>2. LET t == s1 \o s2
            l == Len(s1)
        IN /\ t \in Seq(S) /\ Len(t) = l + Len(s2)
           /\ \A i \in 1 .. l : t[i] = s1[i]
           /\ \A i \in l + 1 .. l + Len(s2) : t[i] = s2[i - l]
    BY <2>1, JoinedTwo, Zenon
  <2> HIDE DEF t2
  <2> QED
    BY <2>1, <2>2
<1> HIDE DEF t2
<1>4. /\ t3 \in Seq(S) /\ Len(t3) = l3
      /\ \A i \in 1 .. l2 : t3[i] = t2[i]
      /\ \A i \in l2 + 1 .. l3 : t3[i] = s3[i - l2]
  <2>1. t3 = t2 \o s3 /\ Len(t2) = l2 /\ t2 \in Seq(S) /\ s3 \in Seq(S)
        /\ l3 = l2 + Len(s3)
    BY <1>0, <1>3
  <2>2. LET t == t2 \o s3
            l == Len(t2)
        IN /\ t \in Seq(S) /\ Len(t) = l + Len(s3)
           /\ \A i \in 1 .. l : t[i] = t2[i]
           /\ \A i \in l + 1 .. l + Len(s3) : t[i] = s3[i - l]
    BY <2>1, JoinedTwo, Zenon
  <2> HIDE DEF t3
  <2> QED
    BY <2>1, <2>2
<1> HIDE DEF t3
<1>5. /\ t4 \in Seq(S) /\ Len(t4) = l4
      /\ \A i \in 1 .. l3 : t4[i] = t3[i]
      /\ \A i \in l3 + 1 .. l4 : t4[i] = s4[i - l3]
  <2>1. t4 = t3 \o s4 /\ Len(t3) = l3 /\ t3 \in Seq(S) /\ s4 \in Seq(S)
        /\ l4 = l3 + Len(s4)
    BY <1>0, <1>4
  <2>2. LET t == t3 \o s4
            l == Len(t3)
        IN /\ t \in Seq(S) /\ Len(t) = l + Len(s4)
           /\ \A i \in 1 .. l : t[i] = t3[i]
           /\ \A i \in l + 1 .. l + Len(s4) : t[i] = s4[i - l]
    BY <2>1, JoinedTwo, Zenon
  <2> HIDE DEF t4
  <2> QED
    BY <2>1, <2>2
<1> HIDE DEF t4
<1>6. /\ t5 \in Seq(S) /\ Len(t5) = l5
      /\ \A i \in 1 .. l4 : t5[i] = t4[i]
      /\ \A i \in l4 + 1 .. l5 : t5[i] = s5[i - l4]
  <2>1. t5 = t4 \o s5 /\ Len(t4) = l4 /\ t4 \in Seq(S) /\ s5 \in Seq(S)
        /\ l5 = l4 + Len(s5)
    BY <1>0, <1>5
  <2>2. LET t == t4 \o s5
            l == Len(t4)
        IN /\ t \in Seq(S) /\ Len(t) = l + Len(s5)
           /\ \A i \in 1 .. l : t[i] = t4[i]
           /\ \A i \in l + 1 .. l + Len(s5) : t[i] = s5[i - l]
    BY <2>1, JoinedTwo, Zenon
  <2> HIDE DEF t5
  <2> QED
    BY <2>1, <2>2
<1> HIDE DEF t5
<1>7. /\ t6 \in Seq(S) /\ Len(t6) = l6
      /\ \A i \in 1 .. l5 : t6[i] = t5[i]
      /\ \A i \in l5 + 1 .. l6 : t6[i] = s6[i - l5]
  <2>1. t6 = t5 \o s6 /\ Len(t5) = l5 /\ t5 \in Seq(S) /\ s6 \in Seq(S)
        /\ l6 = l5 + Len(s6)
    BY <1>0, <1>6
  <2>2. LET t == t5 \o s6
            l == Len(t5)
        IN /\ t \in Seq(S) /\ Len(t) = l + Len(s6)
           /\ \A i \in 1 .. l : t[i] = t5[i]
           /\ \A i \in l + 1 .. l + Len(s6) : t[i] = s6[i - l]
    BY <2>1, JoinedTwo, Zenon
  <2> HIDE DEF t6
  <2> QED
    BY <2>1, <2>2
<1> HIDE DEF t6
<1>8. h = t6
  BY DEF t6, t5, t4, t3, t2
<1> HIDE DEF h
<1>9. DOMAIN h = 1 .. l6
  BY <1>7, <1>8, LenProperties
<1>10. /\ \A i \in 1 .. l5 : h[i] = t5[i]
       /\ \A i \in l5 + 1 .. l6 : h[i] = s6[i - l5]
  BY <1>7, <1>8
<1>11. /\ \A i \in 1 .. l4 : h[i] = t4[i]
       /\ \A i \in l4 + 1 .. l5 : h[i] = s5[i - l4]
  <2>1. /\ \A i \in 1 .. l4 : i \in 1 .. l5
        /\ \A i \in l4 + 1 .. l5 : i \in 1 .. l5
    BY <1>2
  <2> QED
    BY <2>1, <1>6, <1>10
<1>12. /\ \A i \in 1 .. l3 : h[i] = t3[i]
       /\ \A i \in l3 + 1 .. l4 : h[i] = s4[i - l3]
  <2>1. /\ \A i \in 1 .. l3 : i \in 1 .. l4
        /\ \A i \in l3 + 1 .. l4 : i \in 1 .. l4
    BY <1>2
  <2> QED
    BY <2>1, <1>5, <1>11
<1>13. /\ \A i \in 1 .. l2 : h[i] = t2[i]
       /\ \A i \in l2 + 1 .. l3 : h[i] = s3[i - l2]
  <2>1. /\ \A i \in 1 .. l2 : i \in 1 .. l3
        /\ \A i \in l2 + 1 .. l3 : i \in 1 .. l3
    BY <1>2
  <2> QED
    BY <2>1, <1>4, <1>12
<1>14. /\ \A i \in 1 .. l1 : h[i] = s1[i]
       /\ \A i \in l1 + 1 .. l2 : h[i] = s2[i - l1]
  <2>1. /\ \A i \in 1 .. l1 : i \in 1 .. l2
        /\ \A i \in l1 + 1 .. l2 : i \in 1 .. l2
    BY <1>2
  <2> QED
    BY <2>1, <1>3, <1>13
<1> QED
  BY <1>9, <1>10, <1>11, <1>12, <1>13, <1>14 DEF InTurn, h, l1, l2, l3, l4, l5, l6

\* What comes of adding a number.
LEMMA Plus ==
    ASSUME NEW x \in Nat, NEW y \in Nat
    PROVE  /\ x + y \in Nat /\ x <= x + y /\ (x + y) - x = y
           /\ x < x + 1 /\ x = (x + 1) - 1
  OBVIOUS

\* A built bot's handlers are laid out so.
LEMMA CompileLaysOut ==
    ASSUME NEW bot, IsBot(bot)
    PROVE  \E c, b, n, at : LaidOut(bot, HandlersOf(bot), c, b, n, at)
<1> DEFINE flat == bot.flat
           gate == IF bot.hasAuth THEN <<Gate>> ELSE <<>>
           conv == Conversations(bot.entries)
           R == Where(flat, TRUE)
           N == Where(flat, FALSE)
           S == Registrations \cup {Gate, Stray, conv}
           h == HandlersOf(bot)
           l1 == Len(gate)
           l2 == l1 + Len(R)
           c == l2 + 1
           b == c + Len(N)
           l5 == b + Len(bot.raws)
           n == l5 + 1
<1>1. /\ flat \in Seq(Registrations) /\ bot.raws \in Seq(Registrations)
      /\ bot.hasAuth \in BOOLEAN
  BY DEF IsBot
<1>2. /\ R \in Seq(Registrations) /\ \E f : Picks(flat, TRUE, R, Len(flat), f)
      /\ N \in Seq(Registrations) /\ \E f : Picks(flat, FALSE, N, Len(flat), f)
  <2> HIDE DEF flat
  <2> QED
    BY <1>1, WherePicks
<1>3. PICK f1 : Picks(flat, TRUE, R, Len(flat), f1)
  BY <1>2
<1>4. PICK f2 : Picks(flat, FALSE, N, Len(flat), f2)
  BY <1>2
<1>5. /\ R \in Seq(S) /\ N \in Seq(S) /\ bot.raws \in Seq(S)
  <2>1. Seq(Registrations) \subseteq Seq(S)
    <3>1. Registrations \subseteq S
      OBVIOUS
    <3> HIDE DEF S
    <3> QED
      BY <3>1
  <2> QED
    BY <2>1, <1>1, <1>2
<1>6. /\ gate \in Seq(S) /\ <<conv>> \in Seq(S) /\ <<Stray>> \in Seq(S)
      /\ Len(<<conv>>) = 1 /\ Len(<<Stray>>) = 1
      /\ Len(gate) = IF bot.hasAuth THEN 1 ELSE 0
      /\ bot.hasAuth => gate[1] = Gate
      /\ <<conv>>[1] = conv /\ <<Stray>>[1] = Stray
  <2>1. Gate \in S /\ conv \in S /\ Stray \in S
    OBVIOUS
  <2> HIDE DEF S, conv
  <2> QED
    BY <2>1
<1>7. h = gate \o R \o <<conv>> \o N \o bot.raws \o <<Stray>>
  BY DEF HandlersOf, Compile
<1>8. /\ Len(R) \in Nat /\ Len(N) \in Nat /\ Len(bot.raws) \in Nat /\ l1 \in Nat
  BY <1>2, <1>1, <1>6, LenProperties
<1> HIDE DEF h, S, gate, conv, R, N, flat
<1>9. /\ DOMAIN h = 1 .. n
      /\ \A i \in 1 .. l1 : h[i] = gate[i]
      /\ \A i \in l1 + 1 .. l2 : h[i] = R[i - l1]
      /\ \A i \in l2 + 1 .. c : h[i] = <<conv>>[i - l2]
      /\ \A i \in c + 1 .. b : h[i] = N[i - c]
      /\ \A i \in b + 1 .. l5 : h[i] = bot.raws[i - b]
      /\ \A i \in l5 + 1 .. n : h[i] = <<Stray>>[i - l5]
  <2> DEFINE cs == <<conv>>
             ss == <<Stray>>
  <2>1. /\ cs \in Seq(S) /\ ss \in Seq(S) /\ Len(cs) = 1 /\ Len(ss) = 1
        /\ h = gate \o R \o cs \o N \o bot.raws \o ss
    BY <1>6, <1>7
  <2> HIDE DEF cs, ss
  <2>2. InTurn(h, gate, R, cs, N, bot.raws, ss)
    BY <1>5, <1>6, <2>1, Joined
  <2>3. c = l2 + Len(cs) /\ n = l5 + Len(ss)
    BY <2>1
  <2> HIDE DEF h
  <2>4. /\ DOMAIN h = 1 .. n
        /\ \A i \in 1 .. l1 : h[i] = gate[i]
        /\ \A i \in l1 + 1 .. l2 : h[i] = R[i - l1]
        /\ \A i \in l2 + 1 .. c : h[i] = cs[i - l2]
        /\ \A i \in c + 1 .. b : h[i] = N[i - c]
        /\ \A i \in b + 1 .. l5 : h[i] = bot.raws[i - b]
        /\ \A i \in l5 + 1 .. n : h[i] = ss[i - l5]
    BY <2>2, <2>3 DEF InTurn
  <2> QED
    BY <2>4 DEF cs, ss
<1> DEFINE at == [i \in 1 .. n |-> IF i < c THEN f1[i - l1] ELSE f2[i - c]]
<1>10. /\ l1 \in Nat /\ l2 \in Nat /\ c \in Nat /\ b \in Nat /\ l5 \in Nat /\ n \in Nat
       /\ l1 <= l2 /\ l2 < c /\ c <= b /\ b <= l5 /\ l5 < n /\ l2 = c - 1 /\ l5 = n - 1
       /\ l2 - l1 = Len(R) /\ b - c = Len(N) /\ l5 - b = Len(bot.raws)
       /\ l1 = IF bot.hasAuth THEN 1 ELSE 0
  <2>1. l1 = IF bot.hasAuth THEN 1 ELSE 0
    BY <1>6
  <2>2. l2 = l1 + Len(R) /\ c = l2 + 1 /\ b = c + Len(N) /\ l5 = b + Len(bot.raws) /\ n = l5 + 1
    OBVIOUS
  <2> HIDE DEF l1, l2, c, b, l5, n
  <2>3. /\ l1 \in Nat /\ l2 \in Nat /\ c \in Nat /\ b \in Nat /\ l5 \in Nat /\ n \in Nat
        /\ l1 <= l2 /\ l2 < c /\ c <= b /\ b <= l5 /\ l5 < n /\ l2 = c - 1 /\ l5 = n - 1
        /\ l2 - l1 = Len(R) /\ b - c = Len(N) /\ l5 - b = Len(bot.raws)
    <3>1. l1 \in Nat /\ Len(R) \in Nat /\ Len(N) \in Nat /\ Len(bot.raws) \in Nat
      BY <1>8
    <3>2. l2 \in Nat /\ l1 <= l2 /\ l2 - l1 = Len(R)
      BY <2>2, <3>1, Plus
    <3>3. c \in Nat /\ l2 < c /\ l2 = c - 1
      BY <2>2, <3>2, Plus
    <3>4. b \in Nat /\ c <= b /\ b - c = Len(N)
      BY <2>2, <3>1, <3>3, Plus
    <3>5. l5 \in Nat /\ b <= l5 /\ l5 - b = Len(bot.raws)
      BY <2>2, <3>1, <3>4, Plus
    <3>6. n \in Nat /\ l5 < n /\ l5 = n - 1
      BY <2>2, <3>5, Plus
    <3> QED
      BY <3>1, <3>2, <3>3, <3>4, <3>5, <3>6
  <2> QED
    BY <2>1, <2>3
<1> HIDE DEF l1, l2, c, b, l5, n
<1>11. /\ \A i \in l1 + 1 .. l2 : at[i] = f1[i - l1]
       /\ \A i \in c + 1 .. b : at[i] = f2[i - c]
  <2>1. \A i \in l1 + 1 .. l2 : i \in 1 .. n /\ i < c
    BY <1>10
  <2>2. \A i \in c + 1 .. b : i \in 1 .. n /\ ~ (i < c)
    BY <1>10
  <2> QED
    BY <2>1, <2>2
<1> HIDE DEF at
<1>12. /\ \A i \in l1 + 1 .. l2 : i - l1 \in 1 .. Len(R)
       /\ \A i \in c + 1 .. b : i - c \in 1 .. Len(N)
       /\ \A i \in b + 1 .. l5 : i - b \in 1 .. Len(bot.raws)
  BY <1>8, <1>10
<1>13. ASSUME NEW i \in 1 .. c - 1
       PROVE  \/ bot.hasAuth /\ i = 1
              \/ at[i] \in 1 .. Len(flat) /\ h[i] = flat[at[i]] /\ h[i].reply = TRUE
  <2>1. CASE i <= l1
    BY <2>1, <1>10
  <2>2. CASE ~ (i <= l1)
    <3>1. i \in l1 + 1 .. l2
      BY <2>2, <1>10
    <3>2. i - l1 \in 1 .. Len(R) /\ h[i] = R[i - l1] /\ at[i] = f1[i - l1]
      BY <3>1, <1>9, <1>11, <1>12
    <3> DEFINE p == i - l1
    <3>3. p \in 1 .. Len(R) /\ h[i] = R[p] /\ at[i] = f1[p]
      BY <3>2
    <3> HIDE DEF p
    <3> QED
      BY <3>3, <1>3 DEF Picks
  <2> QED
    BY <2>1, <2>2
<1>14. ASSUME NEW i \in c + 1 .. b
       PROVE  at[i] \in 1 .. Len(flat) /\ h[i] = flat[at[i]] /\ h[i].reply = FALSE
  <2> DEFINE p == i - c
  <2>1. p \in 1 .. Len(N) /\ h[i] = N[p] /\ at[i] = f2[p]
    BY <1>9, <1>11, <1>12
  <2> HIDE DEF p
  <2> QED
    BY <2>1, <1>4 DEF Picks
<1>15. ASSUME NEW i \in c + 1 .. b, NEW j \in c + 1 .. b, i < j
       PROVE  at[i] < at[j]
  <2> DEFINE p == i - c
             q == j - c
  <2>1. p \in 1 .. Len(N) /\ at[i] = f2[p] /\ q \in 1 .. Len(N) /\ at[j] = f2[q]
    BY <1>11, <1>12
  <2>2. p < q
    BY <1>10, <1>15
  <2> HIDE DEF p, q
  <2> QED
    BY <2>1, <2>2, <1>4 DEF Picks
<1>16. \A i \in b + 1 .. n - 1 : \E k \in 1 .. Len(bot.raws) : h[i] = bot.raws[k]
  BY <1>9, <1>10, <1>12
<1>17. h[c] = conv /\ h[n] = Stray
  <2>1. c \in l2 + 1 .. c /\ c - l2 = 1 /\ n \in l5 + 1 .. n /\ n - l5 = 1
    BY <1>10
  <2> QED
    BY <2>1, <1>6, <1>9
<1>18. bot.hasAuth => 1 < c /\ h[1] = Gate
  BY <1>6, <1>9, <1>10
<1>19. ASSUME NEW k \in 1 .. Len(flat), flat[k].reply = TRUE
       PROVE  \E i \in 1 .. c - 1 : h[i] = flat[k]
  <2>1. PICK p \in 1 .. Len(R) : f1[p] = k
    BY <1>3, <1>19 DEF Picks
  <2>2. R[p] = flat[k]
    BY <2>1, <1>3 DEF Picks
  <2>3. p + l1 \in l1 + 1 .. l2 /\ (p + l1) - l1 = p /\ p + l1 \in 1 .. c - 1
    BY <1>8, <1>10
  <2> QED
    BY <2>2, <2>3, <1>9
<1>20. ASSUME NEW k \in 1 .. Len(flat), flat[k].reply = FALSE
       PROVE  \E i \in c + 1 .. b : h[i] = flat[k] /\ at[i] = k
  <2>1. PICK p \in 1 .. Len(N) : f2[p] = k
    BY <1>4, <1>20 DEF Picks
  <2>2. N[p] = flat[k]
    BY <2>1, <1>4 DEF Picks
  <2>3. p + c \in c + 1 .. b /\ (p + c) - c = p
    BY <1>8, <1>10
  <2> QED
    BY <2>1, <2>2, <2>3, <1>9, <1>11
<1>21. /\ c \in Nat /\ b \in Nat /\ n \in Nat
       /\ 1 <= c /\ c <= b /\ b < n
  BY <1>10
<1>22. LaidOut(bot, h, c, b, n, at)
  BY <1>9, <1>13, <1>14, <1>15, <1>16, <1>17, <1>18, <1>19, <1>20, <1>21, Zenon
     DEF LaidOut, flat, conv
<1> QED
  BY <1>22 DEF h

(***************************************************************************)
(* Who takes what.                                                         *)
(***************************************************************************)

\* A registration is of one of three kinds.
LEMMA KindOfReg ==
    ASSUME NEW reg \in Registrations
    PROVE  /\ reg.kind \in {"command", "callback", "message"}
           /\ reg.group \in Int /\ reg.id \in Nat \ {0} /\ reg.reply \in BOOLEAN
           /\ reg.edits \in BOOLEAN
           /\ reg.kind # "message" => reg.reply = FALSE
           /\ reg.kind = "command" => reg.on \in CommandNames
           /\ reg.kind = "callback" => reg.on \in Models /\ reg.when \subseteq Payloads
  BY DEF Registrations

\* What a registration claims, by its kind.
LEMMA WhatIsClaimed ==
    ASSUME NEW reg \in Registrations, NEW u
    PROVE  Claims(reg, u) <=>
               /\ u.edited => reg.edits
               /\ reg.kind # "message" => reg.kind = u.kind /\ reg.on = u.on
               /\ reg.kind = "callback" => u.payload \in reg.when \cup {Stale}
               /\ reg.kind = "message" =>
                      u.kind \in {"command", "message"} /\ u.on \in reg.on
<1>1. CASE reg.kind = "command"
  BY <1>1 DEF Claims
<1>2. CASE reg.kind = "callback"
  BY <1>2 DEF Claims
<1>3. CASE reg.kind = "message"
  BY <1>3 DEF Claims
<1> QED
  BY <1>1, <1>2, <1>3, KindOfReg

\* The handlers that are no registration.
LEMMA WhatIsTaken ==
    ASSUME NEW u, NEW run
    PROVE  /\ Takes(Gate, u, run)
           /\ Takes(Stray, u, run) <=> u.kind = "callback"
           /\ \A entries : Takes(Conversations(entries), u, run) <=>
                  \/ u \in run
                  \/ \E i \in DOMAIN entries : Claims(entries[i], u)
           /\ \A reg \in Registrations : Takes(reg, u, run) <=> Claims(reg, u)
<1>1. Takes(Gate, u, run)
  BY DEF Takes, Gate
<1>2. Takes(Stray, u, run) <=> u.kind = "callback"
  BY DEF Takes, Stray
<1>3. ASSUME NEW entries
      PROVE  Takes(Conversations(entries), u, run) <=>
                  \/ u \in run
                  \/ \E i \in DOMAIN entries : Claims(entries[i], u)
  <2> DEFINE h == Conversations(entries)
  <2>1. h.kind = "conversations" /\ h.entries = entries
    BY DEF Conversations
  <2> HIDE DEF h
  <2>2. Takes(h, u, run) <=> \/ u \in run
                             \/ \E i \in DOMAIN entries : Claims(entries[i], u)
    BY <2>1 DEF Takes
  <2> QED
    BY <2>2 DEF h
<1>4. ASSUME NEW reg \in Registrations
      PROVE  Takes(reg, u, run) <=> Claims(reg, u)
  <2>1. reg.kind # "gate" /\ reg.kind # "stray" /\ reg.kind # "conversations"
    BY KindOfReg
  <2> QED
    BY <2>1 DEF Takes
<1> QED
  BY <1>1, <1>2, <1>3, <1>4

\* What is where, and what it is.
Placed(bot, h, c, n, i) ==
    \/ i < c /\ bot.hasAuth /\ i = 1 /\ h[i] = Gate
    \/ /\ i < c /\ h[i] \in Registrations /\ h[i] \in ToSet(bot.flat)
       /\ h[i].reply = TRUE
    \/ i = c /\ h[i] = Conversations(bot.entries)
    \/ c < i /\ i < n /\ h[i] \in Registrations
    \/ i = n /\ h[i] = Stray

\* Every handler is what it is where it is.
LEMMA HandlerIs ==
    ASSUME NEW bot, IsBot(bot), NEW h, NEW c, NEW b, NEW n, NEW at,
           LaidOut(bot, h, c, b, n, at), NEW i \in 1 .. n
    PROVE  Placed(bot, h, c, n, i)
<1>1. /\ c \in Nat /\ b \in Nat /\ n \in Nat /\ 1 <= c /\ c <= b /\ b < n
  BY DEF LaidOut
<1>2. /\ bot.flat \in Seq(Registrations) /\ bot.raws \in Seq(Registrations)
  BY DEF IsBot
<1>3. \/ i \in 1 .. c - 1 \/ i = c \/ i \in c + 1 .. b \/ i \in b + 1 .. n - 1 \/ i = n
  BY <1>1
<1>4. CASE i \in 1 .. c - 1
  <2>1. i < c
    BY <1>1, <1>4
  <2>2. CASE bot.hasAuth /\ i = 1
    BY <2>1, <2>2 DEF LaidOut, Placed
  <2>3. CASE ~ (bot.hasAuth /\ i = 1)
    <3>1. at[i] \in 1 .. Len(bot.flat) /\ h[i] = bot.flat[at[i]] /\ h[i].reply = TRUE
      BY <1>4, <2>3 DEF LaidOut
    <3>2. h[i] \in Registrations
      BY <3>1, <1>2, ElementOfSeq
    <3>3. h[i] \in ToSet(bot.flat)
      BY <3>1, <1>2, LenProperties DEF ToSet
    <3> QED
      BY <2>1, <3>1, <3>2, <3>3 DEF Placed
  <2> QED
    BY <2>2, <2>3
<1>5. CASE i = c
  BY <1>5 DEF LaidOut, Placed
<1>6. CASE i \in c + 1 .. b
  <2>1. at[i] \in 1 .. Len(bot.flat) /\ h[i] = bot.flat[at[i]]
    BY <1>6 DEF LaidOut
  <2>2. h[i] \in Registrations /\ c < i /\ i < n
    BY <2>1, <1>1, <1>2, <1>6, ElementOfSeq
  <2> QED
    BY <2>2 DEF Placed
<1>7. CASE i \in b + 1 .. n - 1
  <2>1. \E k \in 1 .. Len(bot.raws) : h[i] = bot.raws[k]
    BY <1>7 DEF LaidOut
  <2>2. h[i] \in Registrations /\ c < i /\ i < n
    BY <2>1, <1>1, <1>2, <1>7, ElementOfSeq
  <2> QED
    BY <2>2 DEF Placed
<1>8. CASE i = n
  BY <1>8 DEF LaidOut, Placed
<1> QED
  BY <1>3, <1>4, <1>5, <1>6, <1>7, <1>8

\* Every handler is in a group, and only the catch-all is of its kind.
LEMMA HandlerGroup ==
    ASSUME NEW bot, IsBot(bot), NEW h, NEW c, NEW b, NEW n, NEW at,
           LaidOut(bot, h, c, b, n, at), NEW i \in 1 .. n
    PROVE  /\ h[i].group \in Int
           /\ h[i].kind = "stray" <=> i = n
<1>1. c \in Nat /\ b \in Nat /\ n \in Nat /\ c < n
  BY DEF LaidOut
<1>2. CASE h[i] = Gate /\ i < c
  BY <1>1, <1>2 DEF Gate
<1>3. CASE h[i] \in Registrations /\ i < n
  <2>1. h[i].kind # "stray" /\ h[i].group \in Int
    BY <1>3, KindOfReg
  <2> QED
    BY <2>1, <1>1, <1>3
<1>4. CASE i = c /\ h[i] = Conversations(bot.entries)
  BY <1>1, <1>4 DEF Conversations
<1>5. CASE i = n /\ h[i] = Stray
  BY <1>5 DEF Stray
<1>6. i < c => i < n
  BY <1>1
<1>7. \/ h[i] = Gate /\ i < c
      \/ h[i] \in Registrations /\ i < n
      \/ i = c /\ h[i] = Conversations(bot.entries)
      \/ i = n /\ h[i] = Stray
  <2>1. Placed(bot, h, c, n, i)
    BY HandlerIs
  <2> QED
    BY <1>6, <2>1 DEF Placed
<1> QED
  BY <1>2, <1>3, <1>4, <1>5, <1>7

\* m is the first handler of the group that takes the update.
IsFirst(h, n, g, u, run, m) ==
    /\ FirstIn(h, g, u, run) = {m}
    /\ m \in 1 .. n
    /\ h[m].group = g /\ Takes(h[m], u, run)
    /\ \A j \in 1 .. n : h[j].group = g /\ Takes(h[j], u, run) => m <= j

\* If one takes an update, one is the first that does.
LEMMA FirstTakes ==
    ASSUME NEW h, NEW n \in Nat, DOMAIN h = 1 .. n, NEW u, NEW run,
           NEW k \in 1 .. n, Takes(h[k], u, run)
    PROVE  \E m : IsFirst(h, n, h[k].group, u, run, m)
<1> DEFINE g == h[k].group
<1> DEFINE T == {i \in DOMAIN h : h[i].group = g /\ Takes(h[i], u, run)}
<1>1. T \subseteq Nat /\ k \in T /\ T # {}
  OBVIOUS
<1>2. FirstIn(h, g, u, run) = {Min(T)}
  BY <1>1 DEF FirstIn
<1>3. Min(T) \in T /\ \A y \in T : Min(T) <= y
  <2> HIDE DEF T
  <2> QED
    BY <1>1, MinIsLeast
<1> QED
  BY <1>2, <1>3 DEF IsFirst

\* Who is first in a group is of it, and takes the update.
LEMMA FirstIsOfGroup ==
    ASSUME NEW h, NEW n \in Nat, DOMAIN h = 1 .. n, NEW g, NEW u, NEW run,
           NEW i \in FirstIn(h, g, u, run)
    PROVE  /\ i \in 1 .. n /\ h[i].group = g /\ Takes(h[i], u, run)
           /\ \A j \in 1 .. n : h[j].group = g /\ Takes(h[j], u, run) => i <= j
<1> DEFINE T == {j \in DOMAIN h : h[j].group = g /\ Takes(h[j], u, run)}
<1>1. T # {} /\ i = Min(T)
  BY DEF FirstIn
<1>2. T \subseteq Nat
  OBVIOUS
<1>3. Min(T) \in T /\ \A y \in T : Min(T) <= y
  <2> HIDE DEF T
  <2> QED
    BY <1>1, <1>2, MinIsLeast
<1> QED
  BY <1>1, <1>3

(***************************************************************************)
(* Theorems.                                                               *)
(***************************************************************************)

\* What a banned user sends goes to the gate, and stops there.
LEMMA GateStops ==
    ASSUME NEW bot, IsBot(bot), NEW u, NEW run
    PROVE  GateHolds(bot, u, run)
<1> DEFINE h == HandlersOf(bot)
<1> SUFFICES ASSUME bot.hasAuth, NEW i \in Getting(h, u, run, TRUE)
             PROVE  h[i].group < Gate.group \/ h[i] = Gate
  BY DEF GateHolds
<1>1. PICK c, b, n, at : LaidOut(bot, h, c, b, n, at)
  BY CompileLaysOut
<1> HIDE DEF h
<1>2. /\ n \in Nat /\ 1 \in 1 .. n /\ DOMAIN h = 1 .. n /\ h[1] = Gate
  BY <1>1 DEF LaidOut
<1>3. /\ h[1].group = Gate.group /\ h[1].kind = "gate" /\ Gate.group = -100
  BY <1>2 DEF Gate
<1> DEFINE groups == {h[j].group : j \in DOMAIN h}
           stops(g) == TRUE /\ \E j \in FirstIn(h, g, u, run) : h[j].kind = "gate"
<1>4. PICK g \in groups : /\ i \in FirstIn(h, g, u, run)
                          /\ ~\E k \in groups : k < g /\ stops(k)
  BY DEF Getting
<1>5. i \in 1 .. n /\ h[i].group = g
  BY <1>2, <1>4, FirstIsOfGroup
<1>6. FirstIn(h, Gate.group, u, run) = {1}
  <2>1. Takes(h[1], u, run)
    BY <1>2, WhatIsTaken
  <2>2. PICK m : IsFirst(h, n, Gate.group, u, run, m)
    BY <1>2, <1>3, <2>1, FirstTakes
  <2>3. m \in 1 .. n /\ m <= 1
    BY <1>2, <1>3, <2>1, <2>2 DEF IsFirst
  <2>4. m = 1
    BY <1>2, <2>3
  <2> QED
    BY <2>2, <2>4 DEF IsFirst
<1>7. stops(Gate.group) /\ Gate.group \in groups
  BY <1>2, <1>3, <1>6
<1>8. ~ (Gate.group < g)
  BY <1>4, <1>7
<1>9. g \in Int
  BY <1>1, <1>5, HandlerGroup
<1>10. CASE g = Gate.group
  BY <1>2, <1>4, <1>6, <1>10
<1>11. CASE g # Gate.group
  BY <1>3, <1>5, <1>8, <1>9, <1>11
<1> QED
  BY <1>10, <1>11

\* A button of the reply keyboard comes first, then the run of the caller.
LEMMA NavigationComesFirst ==
    ASSUME NEW bot, IsBot(bot), NEW u, NEW run
    PROVE  NavigationOutranksTheRun(bot, u, run)
<1> DEFINE h == HandlersOf(bot)
           buttons == {reg \in ToSet(bot.flat) : reg.reply /\ reg.group = 0 /\ Claims(reg, u)}
<1>1. PICK c, b, n, at : LaidOut(bot, h, c, b, n, at)
  BY CompileLaysOut
<1> HIDE DEF h
<1>2. /\ c \in Nat /\ b \in Nat /\ n \in Nat /\ 1 <= c /\ c <= b /\ b < n
      /\ DOMAIN h = 1 .. n /\ h[c] = Conversations(bot.entries)
      /\ c \in 1 .. n
  BY <1>1 DEF LaidOut
<1>3. bot.flat \in Seq(Registrations)
  BY DEF IsBot
\* Whoever is ahead of the conversations and takes the update is a button.
<1>4. ASSUME NEW m \in 1 .. n, m < c, h[m].group = 0, Takes(h[m], u, run)
      PROVE  h[m] \in buttons
  <2>1. h[m] # Gate
    BY <1>4 DEF Gate
  <2>2. /\ h[m] \in Registrations /\ h[m] \in ToSet(bot.flat) /\ h[m].reply = TRUE
    <3>1. Placed(bot, h, c, n, m)
      BY <1>1, HandlerIs
    <3>2. m # c /\ m # n /\ ~ (c < m)
      BY <1>2, <1>4
    <3> QED
      BY <2>1, <3>1, <3>2 DEF Placed
  <2>3. Claims(h[m], u)
    BY <1>4, <2>2, WhatIsTaken
  <2> QED
    BY <1>4, <2>2, <2>3
<1>5. ASSUME buttons # {}, NEW i \in FirstIn(h, 0, u, run)
      PROVE  h[i] \in buttons
  <2>1. PICK reg \in ToSet(bot.flat) : reg.reply /\ reg.group = 0 /\ Claims(reg, u)
    BY <1>5
  <2>2. PICK k \in 1 .. Len(bot.flat) : reg = bot.flat[k]
    BY <1>3, LenProperties DEF ToSet
  <2>3. reg \in Registrations
    BY <1>3, <2>2, ElementOfSeq
  <2>4. bot.flat[k].reply = TRUE
    BY <2>1, <2>2, <2>3, KindOfReg
  <2>5. PICK j \in 1 .. c - 1 : h[j] = reg
    BY <1>1, <2>2, <2>4 DEF LaidOut
  <2>6. j \in 1 .. n /\ j < c /\ h[j].group = 0 /\ Takes(h[j], u, run)
    <3>1. Takes(reg, u, run)
      BY <2>1, <2>3, WhatIsTaken
    <3>2. j \in 1 .. n /\ j < c
      BY <1>2
    <3> QED
      BY <2>1, <2>5, <3>1, <3>2
  <2>7. PICK m : IsFirst(h, n, 0, u, run, m)
    BY <1>2, <2>6, FirstTakes
  <2>8. /\ FirstIn(h, 0, u, run) = {m} /\ m \in 1 .. n
        /\ h[m].group = 0 /\ Takes(h[m], u, run) /\ m <= j
    BY <2>6, <2>7 DEF IsFirst
  <2>9. m < c /\ i = m
    BY <1>2, <1>5, <2>6, <2>8
  <2> QED
    BY <1>4, <2>8, <2>9
<1>6. ASSUME buttons = {}, u \in run, NEW i \in FirstIn(h, 0, u, run)
      PROVE  h[i].kind = "conversations"
  <2>1. Takes(h[c], u, run) /\ h[c].group = 0 /\ h[c].kind = "conversations"
    <3>1. Takes(Conversations(bot.entries), u, run)
      BY <1>6, WhatIsTaken
    <3> QED
      BY <3>1, <1>2 DEF Conversations
  <2>2. PICK m : IsFirst(h, n, 0, u, run, m)
    BY <1>2, <2>1, FirstTakes
  <2>3. /\ FirstIn(h, 0, u, run) = {m} /\ m \in 1 .. n
        /\ h[m].group = 0 /\ Takes(h[m], u, run) /\ m <= c
    BY <1>2, <2>1, <2>2 DEF IsFirst
  <2>4. ~ (m < c)
    <3> HIDE DEF buttons
    <3> QED
      BY <1>4, <1>6, <2>3
  <2>5. i = m /\ m = c
    BY <1>2, <1>6, <2>3, <2>4
  <2> QED
    BY <2>1, <2>5
<1> QED
  BY <1>5, <1>6 DEF NavigationOutranksTheRun, h

\* The gate and the reply buttons, for every update and every run of the caller.
THEOREM GateComesThenNavigation ==
    ASSUME input.kind = "bot" => IsBot(input.bot)
    PROVE  GateThenNavigation
  BY GateStops, NavigationComesFirst DEF GateThenNavigation

\* A press is always taken in group 0.
LEMMA PressTaken ==
    ASSUME NEW bot, IsBot(bot), NEW press \in Presses, NEW run
    PROVE  PressIsTaken(bot, press, run)
<1> DEFINE h == HandlersOf(bot)
           wanted == {i \in DOMAIN h : /\ h[i].group = 0
                                       /\ h[i].kind # "stray"
                                       /\ Takes(h[i], press, run)}
           got == {h[i].kind : i \in FirstIn(h, 0, press, run)}
<1>1. PICK c, b, n, at : LaidOut(bot, h, c, b, n, at)
  BY CompileLaysOut
<1> HIDE DEF h
<1>2. n \in Nat /\ DOMAIN h = 1 .. n /\ h[n] = Stray /\ n \in 1 .. n
  BY <1>1 DEF LaidOut
<1>3. h[n].group = 0 /\ Takes(h[n], press, run)
  <2>1. press.kind = "callback"
    BY DEF Presses
  <2>2. Takes(Stray, press, run)
    BY <2>1, WhatIsTaken
  <2> QED
    BY <1>2, <2>2 DEF Stray
<1>4. PICK m : IsFirst(h, n, 0, press, run, m)
  BY <1>2, <1>3, FirstTakes
<1>5. /\ FirstIn(h, 0, press, run) = {m} /\ m \in 1 .. n
      /\ h[m].group = 0 /\ Takes(h[m], press, run)
      /\ \A j \in 1 .. n : h[j].group = 0 /\ Takes(h[j], press, run) => m <= j
  BY <1>4 DEF IsFirst
<1>0. got = {h[m].kind}
  BY <1>5
<1>6. ASSUME NEW w \in wanted
      PROVE  h[m].kind # "stray"
  <2>1. w \in 1 .. n /\ w # n /\ m <= w
    BY <1>1, <1>2, <1>5, <1>6, HandlerGroup
  <2>2. m # n
    BY <1>2, <1>5, <2>1
  <2> QED
    BY <1>1, <1>5, <2>2, HandlerGroup
<1>7. ASSUME wanted = {}
      PROVE  h[m].kind = "stray"
  BY <1>2, <1>5, <1>7
<1>8. got # {} /\ ("stray" \in got) = (wanted = {})
  <2>1. ("stray" \in got) <=> (wanted = {})
    <3> HIDE DEF wanted
    <3> QED
      BY <1>0, <1>6, <1>7
  <2> QED
    BY <1>0, <2>1
<1> QED
  BY <1>8 DEF PressIsTaken, h

\* No press is left unanswered, whatever handlers there are.
THEOREM PressesAreTaken ==
    ASSUME input.kind = "bot" => IsBot(input.bot)
    PROVE  EveryPressIsTaken
  BY PressTaken DEF EveryPressIsTaken

(***************************************************************************)
(* What the build refuses.                                                 *)
(***************************************************************************)

\* The registrations that the build checks, in the order in which they are tried.
Checked(bot) == bot.entries \o bot.flat

\* Entries, then the rest; no two of them, and none of the raw handlers, are one.
InOrder(bot, regs, le) ==
    /\ le \in Nat /\ Len(bot.flat) \in Nat /\ le = Len(bot.entries)
    /\ regs \in Seq(Registrations) /\ Len(regs) = le + Len(bot.flat)
    /\ DOMAIN regs = 1 .. Len(regs)
    /\ \A i \in 1 .. le : regs[i] = bot.entries[i]
    /\ \A i \in 1 .. Len(bot.flat) : regs[le + i] = bot.flat[i]
    /\ \A i, j \in 1 .. Len(regs) : regs[i].id = regs[j].id => i = j
    /\ \A i \in 1 .. Len(regs) : \A k \in 1 .. Len(bot.raws) :
          regs[i].id # bot.raws[k].id

\* The registrations of a bot are in that order.
LEMMA CheckedInOrder ==
    ASSUME NEW bot, IsBot(bot)
    PROVE  InOrder(bot, Checked(bot), Len(bot.entries))
<1> DEFINE regs == Checked(bot)
           le == Len(bot.entries)
           all == regs \o bot.raws
<1>1. /\ bot.entries \in Seq(Registrations) /\ bot.flat \in Seq(Registrations)
      /\ bot.raws \in Seq(Registrations)
      /\ \A i, j \in 1 .. Len(all) : all[i].id = all[j].id => i = j
  BY DEF IsBot, Checked
<1>2. le \in Nat /\ Len(bot.flat) \in Nat /\ Len(bot.raws) \in Nat
  BY <1>1, LenProperties
<1>3. /\ regs \in Seq(Registrations) /\ Len(regs) = le + Len(bot.flat)
      /\ \A i \in 1 .. le : regs[i] = bot.entries[i]
      /\ \A i \in le + 1 .. le + Len(bot.flat) : regs[i] = bot.flat[i - le]
  <2>1. LET t == bot.entries \o bot.flat
            l == Len(bot.entries)
        IN /\ t \in Seq(Registrations) /\ Len(t) = l + Len(bot.flat)
           /\ \A i \in 1 .. l : t[i] = bot.entries[i]
           /\ \A i \in l + 1 .. l + Len(bot.flat) : t[i] = bot.flat[i - l]
    BY <1>1, JoinedTwo, ZenonT(60)
  <2> QED
    BY <2>1 DEF Checked
<1> HIDE DEF regs
<1>4. /\ Len(all) = Len(regs) + Len(bot.raws)
      /\ \A i \in 1 .. Len(regs) : all[i] = regs[i]
      /\ \A i \in Len(regs) + 1 .. Len(regs) + Len(bot.raws) :
            all[i] = bot.raws[i - Len(regs)]
  <2>1. LET t == regs \o bot.raws
            l == Len(regs)
        IN /\ t \in Seq(Registrations) /\ Len(t) = l + Len(bot.raws)
           /\ \A i \in 1 .. l : t[i] = regs[i]
           /\ \A i \in l + 1 .. l + Len(bot.raws) : t[i] = bot.raws[i - l]
    <3>1. regs \in Seq(Registrations) /\ bot.raws \in Seq(Registrations)
      BY <1>1, <1>3
    <3> HIDE DEF all
    <3> QED
      BY <3>1, JoinedTwo, Zenon
  <2> QED
    BY <2>1
<1>5. Len(regs) \in Nat /\ DOMAIN regs = 1 .. Len(regs)
  BY <1>3, LenProperties
<1> HIDE DEF all, le
<1>6. \A i \in 1 .. Len(bot.flat) : regs[le + i] = bot.flat[i]
  <2>1. \A i \in 1 .. Len(bot.flat) :
            le + i \in le + 1 .. le + Len(bot.flat) /\ (le + i) - le = i
    BY <1>2
  <2> QED
    BY <2>1, <1>3
<1>7. \A i, j \in 1 .. Len(regs) : regs[i].id = regs[j].id => i = j
  <2>1. \A i \in 1 .. Len(regs) : i \in 1 .. Len(all)
    BY <1>2, <1>4, <1>5
  <2> QED
    BY <2>1, <1>1, <1>4
<1>8. ASSUME NEW i \in 1 .. Len(regs), NEW k \in 1 .. Len(bot.raws)
      PROVE  regs[i].id # bot.raws[k].id
  <2> DEFINE j == Len(regs) + k
  <2>1. /\ i \in 1 .. Len(all) /\ j \in 1 .. Len(all) /\ i # j
        /\ j \in Len(regs) + 1 .. Len(regs) + Len(bot.raws) /\ j - Len(regs) = k
    BY <1>2, <1>4, <1>5
  <2> HIDE DEF j
  <2>2. all[i] = regs[i] /\ all[j] = bot.raws[k]
    BY <2>1, <1>4
  <2> QED
    BY <2>1, <2>2, <1>1
<1> QED
  BY <1>2, <1>3, <1>5, <1>6, <1>7, <1>8 DEF regs, le, InOrder

\* Whoever is not banned gets to the first of every group.
LEMMA GettingFirst ==
    ASSUME NEW h, NEW n, DOMAIN h = 1 .. n, NEW u, NEW run
    PROVE  /\ \A i \in Getting(h, u, run, FALSE) :
                 \E g : i \in FirstIn(h, g, u, run)
           /\ \A k \in 1 .. n : \A i \in FirstIn(h, h[k].group, u, run) :
                 i \in Getting(h, u, run, FALSE)
<1> DEFINE groups == {h[i].group : i \in DOMAIN h}
           got(g) == FirstIn(h, g, u, run)
           stops(g) == FALSE /\ \E i \in got(g) : h[i].kind = "gate"
<1>1. Getting(h, u, run, FALSE)
      = UNION {got(g) : g \in {x \in groups : ~\E k \in groups : k < x /\ stops(k)}}
  BY DEF Getting
<1>2. {x \in groups : ~\E k \in groups : k < x /\ stops(k)} = groups
  OBVIOUS
<1>3. Getting(h, u, run, FALSE) = UNION {got(g) : g \in groups}
  BY <1>1, <1>2
<1> HIDE DEF got
<1>4. \A i \in Getting(h, u, run, FALSE) : \E g : i \in got(g)
  BY <1>3
<1>5. \A k \in 1 .. n : \A i \in got(h[k].group) : i \in Getting(h, u, run, FALSE)
  BY <1>3
<1> QED
  BY <1>4, <1>5 DEF got

\* The conversations give an update to the first entry that claims it.
LEMMA FirstEntry ==
    ASSUME NEW entries, NEW le \in Nat, DOMAIN entries = 1 .. le, NEW u,
           NEW x \in 1 .. le, Claims(entries[x], u)
    PROVE  LET m == Min({i \in DOMAIN entries : Claims(entries[i], u)})
           IN /\ m \in 1 .. le /\ m <= x /\ Claims(entries[m], u)
              /\ (\A y \in 1 .. x - 1 : ~Claims(entries[y], u)) => m = x
<1> DEFINE T == {i \in DOMAIN entries : Claims(entries[i], u)}
           m == Min(T)
<1>1. T \subseteq Nat /\ T # {} /\ x \in T
  OBVIOUS
<1>2. m \in T /\ \A y \in T : m <= y
  <2> HIDE DEF T
  <2> QED
    BY <1>1, MinIsLeast
<1>3. m \in 1 .. le /\ m <= x /\ Claims(entries[m], u)
  BY <1>1, <1>2
<1>4. (\A y \in 1 .. x - 1 : ~Claims(entries[y], u)) => m = x
  <2> HIDE DEF m
  <2> QED
    BY <1>3
<1> QED
  BY <1>3, <1>4

\* The number of a handler, or of the entry that claims the update.
NumberOf(x, u) ==
    IF x.kind = "conversations"
    THEN x.entries[Min({j \in DOMAIN x.entries : Claims(x.entries[j], u)})].id
    ELSE x.id

\* Who gets an update, of a caller that is in no run.
LEMMA WhoReceives ==
    ASSUME NEW bot, NEW u, NEW id
    PROVE  id \in ReceiversOf(bot, u, {}, FALSE) <=>
           \E i \in Getting(HandlersOf(bot), u, {}, FALSE) :
               id = NumberOf(HandlersOf(bot)[i], u)
<1> DEFINE h == HandlersOf(bot)
           entry(x) == x.entries[Min({j \in DOMAIN x.entries : Claims(x.entries[j], u)})]
           idOf(x) == IF x.kind = "conversations" /\ u \notin {} THEN entry(x).id ELSE x.id
<1>1. ReceiversOf(bot, u, {}, FALSE)
      = {idOf(x) : x \in {h[i] : i \in Getting(h, u, {}, FALSE)}}
  BY DEF ReceiversOf
<1> HIDE DEF idOf
<1>2. id \in ReceiversOf(bot, u, {}, FALSE) <=>
      \E i \in Getting(h, u, {}, FALSE) : id = idOf(h[i])
  BY <1>1
<1>3. \A x : idOf(x) = NumberOf(x, u)
  BY DEF idOf, NumberOf
<1> QED
  BY <1>2, <1>3

\* A command or press goes to the first that claims it in its group.
LEMMA FirstToClaim ==
    ASSUME NEW bot, IsBot(bot), NEW regs, NEW le, InOrder(bot, regs, le),
           NEW x \in 1 .. Len(regs), NEW u, regs[x].kind # "message", Claims(regs[x], u),
           ~(bot.hasAuth /\ regs[x].group = Gate.group),
           \A y \in 1 .. x - 1 : regs[y].group = regs[x].group => ~Claims(regs[y], u),
           \A y \in 1 .. Len(regs) :
               regs[y].group = regs[x].group /\ regs[y].reply => ~Claims(regs[y], u)
    PROVE  regs[x].id \in ReceiversOf(bot, u, {}, FALSE)
<1> DEFINE h == HandlersOf(bot)
           reg == regs[x]
           g == reg.group
<1>1. PICK c, b, n, at : LaidOut(bot, h, c, b, n, at)
  BY CompileLaysOut
<1>2. h = HandlersOf(bot)
  OBVIOUS
<1> HIDE DEF h
<1>3. /\ c \in Nat /\ b \in Nat /\ n \in Nat /\ 1 <= c /\ c <= b /\ b < n
      /\ DOMAIN h = 1 .. n /\ h[c] = Conversations(bot.entries) /\ c \in 1 .. n
      /\ h[c].kind = "conversations" /\ h[c].group = 0 /\ h[c].entries = bot.entries
  BY <1>1 DEF LaidOut, Conversations
<1>4. /\ le \in Nat /\ Len(bot.flat) \in Nat /\ regs \in Seq(Registrations)
      /\ Len(regs) = le + Len(bot.flat) /\ le = Len(bot.entries)
      /\ \A i \in 1 .. le : regs[i] = bot.entries[i] /\ bot.entries[i].group = 0
      /\ \A i \in 1 .. Len(bot.flat) : regs[le + i] = bot.flat[i]
  BY DEF InOrder, IsBot
<1>0. /\ x \in Nat /\ 1 <= x /\ x <= le + Len(bot.flat)
      /\ x <= le => x \in 1 .. le
      /\ le < x => x - le \in 1 .. Len(bot.flat) /\ le + (x - le) = x
      /\ x <= le \/ le < x
  <2>0. le \in Nat /\ Len(bot.flat) \in Nat /\ x \in 1 .. le + Len(bot.flat)
    BY <1>4
  <2>1. x \in Nat /\ 1 <= x /\ x <= le + Len(bot.flat) /\ le \in Nat /\ Len(bot.flat) \in Nat
    BY <2>0
  <2> QED
    BY <2>1
<1>5. DOMAIN bot.entries = 1 .. le
  BY <1>4, LenProperties DEF IsBot
<1>6. /\ reg \in Registrations /\ reg.kind = u.kind /\ reg.reply = FALSE
  <2>1. reg \in Registrations
    BY <1>4, ElementOfSeq
  <2>2. reg.kind = u.kind
    BY <2>1, WhatIsClaimed
  <2> QED
    BY <2>1, <2>2, KindOfReg
\* Where it is among the handlers.
<1>7. \E p \in 1 .. n :
          /\ h[p].group = g /\ Takes(h[p], u, {}) /\ p <= b
          /\ \/ x <= le /\ p = c
             \/ le < x /\ c < p /\ h[p] = reg /\ at[p] = x - le
  <2>1. CASE x <= le
    <3>1. x \in 1 .. le /\ bot.entries[x] = reg /\ g = 0
      BY <1>0, <1>4, <2>1
    <3>2. Takes(h[c], u, {})
      BY <1>3, <1>5, <3>1, WhatIsTaken
    <3> QED
      BY <1>3, <2>1, <3>1, <3>2
  <2>2. CASE le < x
    <3> DEFINE k == x - le
    <3>1. k \in 1 .. Len(bot.flat) /\ le + k = x
      BY <1>0, <2>2
    <3>2. bot.flat[k] = reg
      BY <1>4, <3>1
    <3> HIDE DEF k
    <3>3. PICK p \in c + 1 .. b : h[p] = reg /\ at[p] = k
      BY <1>1, <1>6, <3>1, <3>2 DEF LaidOut
    <3>4. p \in 1 .. n /\ c < p /\ p <= b
      BY <1>3
    <3>5. Takes(h[p], u, {})
      BY <1>6, <3>3, WhatIsTaken
    <3> QED
      BY <2>2, <3>3, <3>4, <3>5 DEF k
  <2> QED
    BY <1>4, <2>1, <2>2
<1>8. PICK p \in 1 .. n :
          /\ h[p].group = g /\ Takes(h[p], u, {}) /\ p <= b
          /\ \/ x <= le /\ p = c
             \/ le < x /\ c < p /\ h[p] = reg /\ at[p] = x - le
  BY <1>7
<1>9. PICK m : IsFirst(h, n, h[p].group, u, {}, m)
  BY <1>3, <1>8, FirstTakes
<1>10. /\ m \in 1 .. n /\ m <= p /\ h[m].group = g /\ Takes(h[m], u, {})
       /\ FirstIn(h, h[p].group, u, {}) = {m}
  BY <1>8, <1>9 DEF IsFirst
<1>11. m = p
  <2> SUFFICES ASSUME m < p
               PROVE  FALSE
    BY <1>10
  <2>1. Placed(bot, h, c, n, m)
    BY <1>1, <1>10, HandlerIs
  <2>2. CASE bot.hasAuth /\ h[m] = Gate
    BY <1>10, <2>2
  <2>3. CASE h[m] \in Registrations /\ h[m] \in ToSet(bot.flat) /\ h[m].reply = TRUE
    <3>1. Claims(h[m], u)
      BY <1>10, <2>3, WhatIsTaken
    <3>2. DOMAIN bot.flat = 1 .. Len(bot.flat)
      BY LenProperties DEF IsBot
    <3>3. PICK k \in 1 .. Len(bot.flat) : h[m] = bot.flat[k]
      BY <2>3, <3>2 DEF ToSet
    <3>4. le + k \in 1 .. Len(regs) /\ regs[le + k] = h[m]
      <4>1. \A j \in 1 .. Len(bot.flat) : le + j \in 1 .. Len(regs)
        <5>1. le \in Nat /\ Len(bot.flat) \in Nat /\ Len(regs) = le + Len(bot.flat)
          BY <1>4
        <5> QED
          BY <5>1
      <4> QED
        BY <1>4, <3>3, <4>1
    <3> QED
      BY <1>10, <2>3, <3>1, <3>4
  <2>4. CASE m = c
    <3>1. g = 0 /\ le < x
      BY <1>3, <1>8, <1>10, <2>4
    <3>2. PICK i \in DOMAIN bot.entries : Claims(bot.entries[i], u)
      BY <1>3, <1>10, <2>4, WhatIsTaken
    <3>3. i \in 1 .. x - 1 /\ regs[i] = bot.entries[i] /\ regs[i].group = 0
      <4>1. i \in 1 .. le
        BY <1>5
      <4>2. i \in 1 .. x - 1
        BY <1>0, <1>4, <3>1, <4>1
      <4> QED
        BY <1>4, <4>1, <4>2
    <3> QED
      BY <3>1, <3>2, <3>3
  <2>5. CASE c < m /\ h[m] \in Registrations
    <3>1. m \in c + 1 .. b /\ p \in c + 1 .. b
      BY <1>3, <1>8, <1>10, <2>5
    <3>2. at[m] \in 1 .. Len(bot.flat) /\ h[m] = bot.flat[at[m]] /\ at[m] < at[p]
      BY <1>1, <3>1 DEF LaidOut
    <3>3. le < x /\ at[p] = x - le
      BY <1>8, <3>1, <1>3
    <3> DEFINE y == le + at[m]
    <3>4. y \in 1 .. x - 1 /\ regs[y] = h[m]
      <4>1. at[m] \in Nat /\ 1 <= at[m] /\ at[m] < x - le
        BY <1>4, <3>2, <3>3
      <4>2. y \in 1 .. x - 1
        BY <1>0, <1>4, <4>1, SMTT(60)
      <4> QED
        BY <1>4, <3>2, <4>2
    <3>5. Claims(h[m], u)
      BY <1>10, <2>5, WhatIsTaken
    <3> HIDE DEF y
    <3> QED
      BY <3>4, <3>5, <1>10
  <2>6. m # n
    BY <1>3, <1>8, <1>10
  <2> QED
    BY <2>1, <2>2, <2>3, <2>4, <2>5, <2>6 DEF Placed
<1>12. p \in Getting(h, u, {}, FALSE)
  BY <1>3, <1>10, <1>11, GettingFirst
<1>13. CASE x <= le
  <2>1. p = c /\ x \in 1 .. le /\ bot.entries[x] = reg
    <3>1. p = c
      BY <1>0, <1>4, <1>8, <1>13
    <3> QED
      BY <3>1, <1>0, <1>4, <1>13
  <2>2. \A y \in 1 .. x - 1 : ~Claims(bot.entries[y], u)
    <3> SUFFICES ASSUME NEW y \in 1 .. x - 1
                 PROVE  ~Claims(bot.entries[y], u)
      OBVIOUS
    <3>1. y \in 1 .. le
      BY <1>4, <2>1
    <3>2. regs[y] = bot.entries[y] /\ regs[y].group = 0 /\ g = 0
      BY <1>4, <2>1, <3>1
    <3> QED
      BY <3>2
  <2> DEFINE first == Min({i \in DOMAIN bot.entries : Claims(bot.entries[i], u)})
  <2>3. first = x
    BY <1>4, <1>5, <2>1, <2>2, FirstEntry
  <2> HIDE DEF first
  <2>4. reg.id = bot.entries[first].id
    BY <2>1, <2>3
  <2> QED
    <3>1. reg.id = NumberOf(h[p], u)
      BY <1>3, <2>1, <2>4 DEF first, NumberOf
    <3> HIDE DEF reg
    <3>2. reg.id \in ReceiversOf(bot, u, {}, FALSE)
      BY <1>12, <3>1, WhoReceives DEF h
    <3> QED
      BY <3>2 DEF reg
<1>14. CASE le < x
  <2>1. h[p] = reg
    BY <1>4, <1>8, <1>14
  <2>2. h[p].kind # "conversations"
    BY <1>6, <2>1, KindOfReg
  <2> QED
    <3>1. reg.id = NumberOf(h[p], u)
      BY <2>1, <2>2 DEF NumberOf
    <3> HIDE DEF reg
    <3>2. reg.id \in ReceiversOf(bot, u, {}, FALSE)
      BY <1>12, <3>1, WhoReceives DEF h
    <3> QED
      BY <3>2 DEF reg
<1> QED
  BY <1>0, <1>13, <1>14

\* Behind one that claims all it claims, a command or callback gets nothing.
LEMMA NeverBehind ==
    ASSUME NEW bot, IsBot(bot), NEW regs, NEW le, InOrder(bot, regs, le),
           NEW x \in 1 .. Len(regs), NEW y \in 1 .. x - 1, NEW u,
           regs[x].kind # "message", regs[y].kind # "message",
           regs[y].group = regs[x].group, Claims(regs[x], u) => Claims(regs[y], u)
    PROVE  regs[x].id \notin ReceiversOf(bot, u, {}, FALSE)
<1> DEFINE h == HandlersOf(bot)
<1>1. PICK c, b, n, at : LaidOut(bot, h, c, b, n, at)
  BY CompileLaysOut
<1>2. h = HandlersOf(bot)
  OBVIOUS
<1> HIDE DEF h
<1> SUFFICES ASSUME regs[x].id \in ReceiversOf(bot, u, {}, FALSE)
             PROVE  FALSE
  OBVIOUS
<1>3. /\ c \in Nat /\ b \in Nat /\ n \in Nat /\ 1 <= c /\ c <= b /\ b < n
      /\ DOMAIN h = 1 .. n /\ h[c] = Conversations(bot.entries) /\ c \in 1 .. n
      /\ h[c].kind = "conversations" /\ h[c].group = 0 /\ h[c].entries = bot.entries
  BY <1>1 DEF LaidOut, Conversations
<1>4. /\ le \in Nat /\ Len(bot.flat) \in Nat /\ regs \in Seq(Registrations)
      /\ Len(regs) = le + Len(bot.flat) /\ le = Len(bot.entries)
      /\ \A i \in 1 .. le : regs[i] = bot.entries[i] /\ bot.entries[i].group = 0
      /\ \A i \in 1 .. Len(bot.flat) : regs[le + i] = bot.flat[i]
      /\ \A i, j \in 1 .. Len(regs) : regs[i].id = regs[j].id => i = j
      /\ \A i \in 1 .. Len(regs) : \A k \in 1 .. Len(bot.raws) :
            regs[i].id # bot.raws[k].id
  BY DEF InOrder, IsBot
<1>5. DOMAIN bot.entries = 1 .. le
  BY <1>4, LenProperties DEF IsBot
<1>6. /\ x \in Nat /\ y \in Nat /\ 1 <= y /\ y < x /\ x <= le + Len(bot.flat)
      /\ y \in 1 .. Len(regs)
      /\ x <= le => x \in 1 .. le
      /\ y <= le => y \in 1 .. le
      /\ le < y => y - le \in 1 .. Len(bot.flat) /\ le + (y - le) = y
      /\ y <= le \/ le < y
  <2>1. /\ le \in Nat /\ Len(bot.flat) \in Nat /\ x \in 1 .. le + Len(bot.flat)
        /\ Len(regs) = le + Len(bot.flat)
    BY <1>4
  <2>2. x \in Nat /\ y \in Nat /\ 1 <= y /\ y < x /\ x <= le + Len(bot.flat)
    BY <2>1
  <2> QED
    BY <2>1, <2>2
<1>0. /\ \A k \in 1 .. Len(bot.flat) : le + k \in 1 .. Len(regs)
      /\ \A k \in 1 .. le : k \in 1 .. Len(regs)
      /\ DOMAIN bot.flat = 1 .. Len(bot.flat)
  <2>1. le \in Nat /\ Len(bot.flat) \in Nat /\ Len(regs) = le + Len(bot.flat)
    BY <1>4
  <2>2. /\ \A k \in 1 .. Len(bot.flat) : le + k \in 1 .. Len(regs)
        /\ \A k \in 1 .. le : k \in 1 .. Len(regs)
    BY <2>1
  <2>3. DOMAIN bot.flat = 1 .. Len(bot.flat)
    BY LenProperties DEF IsBot
  <2> QED
    BY <2>2, <2>3
<1>7. /\ regs[x] \in Registrations /\ regs[y] \in Registrations
  BY <1>4, <1>6, ElementOfSeq
<1>8. PICK i \in Getting(h, u, {}, FALSE) : regs[x].id = NumberOf(h[i], u)
  <2>1. \A id : id \in ReceiversOf(bot, u, {}, FALSE) <=>
               \E i \in Getting(HandlersOf(bot), u, {}, FALSE) :
                   id = NumberOf(HandlersOf(bot)[i], u)
    BY WhoReceives, Zenon
  <2>2. \E i \in Getting(HandlersOf(bot), u, {}, FALSE) :
            regs[x].id = NumberOf(HandlersOf(bot)[i], u)
    BY <2>1, Zenon
  <2> QED
    BY <2>2, Zenon DEF h
<1>9. PICK g : i \in FirstIn(h, g, u, {})
  BY <1>3, <1>8, GettingFirst
<1>10. /\ i \in 1 .. n /\ h[i].group = g /\ Takes(h[i], u, {})
       /\ \A j \in 1 .. n : h[j].group = g /\ Takes(h[j], u, {}) => i <= j
  BY <1>3, <1>9, FirstIsOfGroup
<1>11. Placed(bot, h, c, n, i)
  BY <1>1, <1>10, HandlerIs
<1>12. regs[x].id \in Nat \ {0}
  BY <1>7, KindOfReg
<1>13. CASE h[i] = Gate \/ h[i] = Stray
  <2>1. NumberOf(h[i], u) \in {0, -1}
    BY <1>13 DEF NumberOf, Gate, Stray
  <2> QED
    BY <1>8, <1>12, <2>1
<1>14. CASE h[i] \in Registrations /\ h[i].reply = TRUE /\ h[i] \in ToSet(bot.flat)
  <2>1. PICK k \in 1 .. Len(bot.flat) : h[i] = bot.flat[k]
    BY <1>0, <1>14 DEF ToSet
  <2>2. h[i].kind = "message" /\ NumberOf(h[i], u) = h[i].id
    BY <1>14, KindOfReg DEF NumberOf
  <2> DEFINE z == le + k
  <2>3. z \in 1 .. Len(regs) /\ regs[z] = h[i]
    BY <1>0, <1>4, <2>1
  <2> HIDE DEF z
  <2>4. z = x
    BY <1>4, <1>8, <2>2, <2>3
  <2> QED
    BY <2>2, <2>3, <2>4
<1>15. CASE i = c
  <2>1. PICK e \in DOMAIN bot.entries : Claims(bot.entries[e], u)
    BY <1>3, <1>10, <1>15, WhatIsTaken
  <2> DEFINE m == Min({j \in DOMAIN bot.entries : Claims(bot.entries[j], u)})
  <2>2. m \in 1 .. le /\ Claims(bot.entries[m], u)
    BY <1>4, <1>5, <2>1, FirstEntry, ZenonT(60)
  <2>3. \A j \in 1 .. le : Claims(bot.entries[j], u) => m <= j
    BY <1>4, <1>5, FirstEntry
  <2>4. NumberOf(h[i], u) = bot.entries[m].id
    BY <1>3, <1>15 DEF NumberOf
  <2> HIDE DEF m
  <2>5. m \in 1 .. Len(regs) /\ regs[m] = bot.entries[m]
    BY <1>0, <1>4, <2>2
  <2>6. m = x
    BY <1>4, <1>8, <2>4, <2>5
  <2>7. y \in 1 .. le /\ Claims(bot.entries[y], u)
    <3>1. y \in 1 .. le
      BY <1>4, <1>6, <2>2, <2>6
    <3>2. Claims(regs[x], u)
      BY <2>2, <2>5, <2>6
    <3> QED
      BY <1>4, <3>1, <3>2
  <2> QED
    BY <1>6, <2>3, <2>6, <2>7
<1>16. CASE c < i /\ i < n /\ h[i] \in Registrations
  <2>1. NumberOf(h[i], u) = h[i].id /\ Claims(h[i], u)
    BY <1>10, <1>16, WhatIsTaken, KindOfReg DEF NumberOf
  <2>2. CASE i <= b
    <3>1. i \in c + 1 .. b
      BY <1>3, <1>10, <1>16, <2>2
    <3>2. at[i] \in 1 .. Len(bot.flat) /\ h[i] = bot.flat[at[i]]
      BY <1>1, <3>1 DEF LaidOut
    <3> DEFINE z == le + at[i]
    <3>3. z \in 1 .. Len(regs) /\ regs[z] = h[i]
      BY <1>0, <1>4, <3>2
    <3>4. z = x
      <4> HIDE DEF z
      <4> QED
        BY <1>4, <1>8, <2>1, <3>3, ZenonT(60)
    <3>5. Claims(regs[y], u) /\ regs[x] = h[i] /\ regs[y].group = g
      BY <1>10, <2>1, <3>3, <3>4
    <3>6. CASE y <= le
      <4>1. y \in 1 .. le /\ regs[y] = bot.entries[y] /\ g = 0
        BY <1>4, <1>6, <3>5, <3>6
      <4>2. Takes(h[c], u, {})
        BY <1>3, <1>5, <3>5, <4>1, WhatIsTaken
      <4>3. i <= c
        BY <1>3, <1>10, <4>1, <4>2
      <4> QED
        BY <1>3, <1>10, <1>16, <4>3
    <3>7. CASE le < y
      <4> DEFINE k == y - le
      <4>1. k \in 1 .. Len(bot.flat) /\ bot.flat[k] = regs[y]
        BY <1>4, <1>6, <3>7
      <4>2. k < at[i]
        <5>1. at[i] \in Nat /\ k \in Nat /\ k = y - le /\ le + at[i] = x
          BY <1>4, <3>2, <3>4, <4>1, SMTT(60)
        <5> QED
          BY <1>4, <1>6, <5>1
      <4> HIDE DEF k
      <4>3. bot.flat[k].reply = FALSE
        BY <1>7, <4>1, KindOfReg
      <4>4. PICK j \in c + 1 .. b : h[j] = bot.flat[k] /\ at[j] = k
        BY <1>1, <4>1, <4>3 DEF LaidOut
      <4>5. h[j].group = g /\ Takes(h[j], u, {})
        BY <1>7, <3>5, <4>1, <4>4, WhatIsTaken
      <4>6. j \in 1 .. n
        BY <1>3
      <4>7. i <= j
        BY <1>10, <4>5, <4>6
      <4>8. i # j
        <5>1. at[i] \in Nat /\ k \in Nat
          BY <1>4, <3>2, <4>1
        <5> QED
          BY <4>2, <4>4, <5>1
      <4>9. i < j
        BY <1>10, <4>6, <4>7, <4>8
      <4>10. at[i] < at[j]
        BY <1>1, <3>1, <4>9 DEF LaidOut
      <4> QED
        BY <1>4, <3>2, <4>1, <4>2, <4>4, <4>10
    <3> QED
      BY <1>6, <3>6, <3>7
  <2>3. CASE ~ (i <= b)
    <3>1. i \in b + 1 .. n - 1
      BY <1>3, <1>10, <1>16, <2>3
    <3>2. PICK k \in 1 .. Len(bot.raws) : h[i] = bot.raws[k]
      BY <1>1, <3>1 DEF LaidOut
    <3> QED
      BY <1>4, <1>8, <2>1, <3>2, ZenonT(60)
  <2> QED
    BY <2>2, <2>3
<1> QED
  BY <1>11, <1>13, <1>14, <1>15, <1>16 DEF Placed

\* What the check of the build says of two registrations.
LEMMA WhatIsChecked ==
    ASSUME NEW flat, NEW entries, NEW regs, regs = entries \o flat
    PROVE  CheckReachable(flat, entries) <=>
               \A i, j \in DOMAIN regs :
                   (i < j /\ regs[i].kind = regs[j].kind /\ regs[i].group = regs[j].group)
                   => \/ regs[i].kind = "message"
                      \/ regs[i].on # regs[j].on
                      \/ regs[i].kind = "callback" /\ regs[i].when # Everything
  BY DEF CheckReachable

\* What is ahead of a registration, by its place.
LEMMA AheadOf ==
    ASSUME NEW bot, NEW regs, regs = Checked(bot),
           NEW reg, NEW x \in DOMAIN regs, regs[x] = reg,
           \A i \in DOMAIN regs : regs[i] = reg => i = x
    PROVE  /\ \A p : p \in TakenAhead(bot, reg) <=>
                  \E j \in 1 .. x - 1 : /\ regs[j].kind = reg.kind /\ regs[j].on = reg.on
                                       /\ regs[j].group = reg.group
                                       /\ p \in regs[j].when
           /\ BehindMessages(bot, reg) <=>
                  \E i \in DOMAIN regs :
                     /\ regs[i].kind = "message" /\ regs[i].group = reg.group
                     /\ i < x \/ regs[i].reply
                     /\ reg.on \in regs[i].on
                     /\ reg.edits => regs[i].edits
<1>0. x = CHOOSE i \in DOMAIN regs : regs[i] = reg
  OBVIOUS
<1>1. TakenAhead(bot, reg) = UNION {regs[i].when : i \in {j \in 1 .. x - 1 :
                                       /\ regs[j].kind = reg.kind
                                       /\ regs[j].on = reg.on
                                       /\ regs[j].group = reg.group}}
  BY <1>0 DEF TakenAhead, Checked
<1>2. BehindMessages(bot, reg) <=>
          \E i \in DOMAIN regs :
             /\ regs[i].kind = "message" /\ regs[i].group = reg.group
             /\ i < x \/ regs[i].reply
             /\ reg.on \in regs[i].on
             /\ reg.edits => regs[i].edits
  BY <1>0 DEF BehindMessages, Checked
<1>3. \A p : p \in TakenAhead(bot, reg) <=>
                 \E j \in 1 .. x - 1 : /\ regs[j].kind = reg.kind /\ regs[j].on = reg.on
                                      /\ regs[j].group = reg.group
                                      /\ p \in regs[j].when
  BY <1>1
<1> QED
  BY <1>2, <1>3

\* A bot that the build accepts has no command or callback that gets nothing, but for
\* the escapes.
LEMMA AcceptedIsAlive ==
    ASSUME NEW bot, IsBot(bot), CheckReachable(bot.flat, bot.entries),
           NEW regs, regs = Checked(bot), NEW x \in 1 .. Len(regs),
           regs[x].kind # "message", ~(bot.hasAuth /\ regs[x].group = Gate.group),
           regs[x].kind = "callback" => ~(regs[x].when \subseteq TakenAhead(bot, regs[x])),
           regs[x].kind = "command" => ~BehindMessages(bot, regs[x])
    PROVE  \E u \in Updates : regs[x].id \in ReceiversOf(bot, u, {}, FALSE)
<1> DEFINE le == Len(bot.entries)
           reg == regs[x]
<1>1. InOrder(bot, regs, le)
  BY CheckedInOrder
<1>2. /\ regs \in Seq(Registrations) /\ Len(regs) \in Nat /\ DOMAIN regs = 1 .. Len(regs)
  BY <1>1, LenProperties DEF InOrder
<1>3. \A y \in 1 .. x - 1 : y \in 1 .. Len(regs) /\ y < x
  BY <1>2
<1>4. /\ reg \in Registrations /\ \A y \in 1 .. x - 1 : regs[y] \in Registrations
      /\ \A y \in 1 .. Len(regs) : regs[y] \in Registrations
  BY <1>2, <1>3, ElementOfSeq
<1>0. \A i \in DOMAIN regs : regs[i] = reg => i = x
  BY <1>1, <1>2 DEF InOrder
<1>7. /\ \A p : p \in TakenAhead(bot, reg) <=>
                  \E j \in 1 .. x - 1 : /\ regs[j].kind = reg.kind /\ regs[j].on = reg.on
                                       /\ regs[j].group = reg.group
                                       /\ p \in regs[j].when
      /\ BehindMessages(bot, reg) <=>
             \E i \in DOMAIN regs :
                /\ regs[i].kind = "message" /\ regs[i].group = reg.group
                /\ i < x \/ regs[i].reply
                /\ reg.on \in regs[i].on
                /\ reg.edits => regs[i].edits
  <2>1. x \in DOMAIN regs /\ regs[x] = reg
    BY <1>2
  <2> HIDE DEF reg
  <2> QED
    BY <1>0, <2>1, AheadOf, SMTT(40)
<1> HIDE DEF le
<1>5. CASE reg.kind = "command"
  <2> DEFINE u == [kind |-> "command", on |-> reg.on, payload |-> Stale,
                   edited |-> reg.edits]
  <2>1. u \in Updates /\ u.kind = "command" /\ u.on = reg.on /\ u.edited = reg.edits
    BY <1>4, <1>5, KindOfReg DEF Updates, Commands
  <2> HIDE DEF u
  <2>2. Claims(reg, u)
    BY <1>4, <1>5, <2>1, WhatIsClaimed
\* No message handler ahead takes it.
  <2>5. ASSUME NEW y \in 1 .. Len(regs), y < x \/ regs[y].reply,
               regs[y].group = reg.group, regs[y].kind = "message", Claims(regs[y], u)
        PROVE  FALSE
    <3>1. reg.on \in regs[y].on /\ (reg.edits => regs[y].edits)
      BY <1>4, <2>1, <2>5, WhatIsClaimed
    <3> HIDE DEF reg
    <3>2. BehindMessages(bot, reg)
      BY <1>2, <1>7, <2>5, <3>1
    <3> QED
      BY <1>5, <3>2 DEF reg
  <2>3. ASSUME NEW y \in 1 .. x - 1, regs[y].group = reg.group, Claims(regs[y], u)
        PROVE  FALSE
    <3>0. regs[y].kind # "message"
      BY <1>3, <2>3, <2>5
    <3>1. regs[y].kind = "command" /\ regs[y].on = reg.on
      BY <1>4, <2>1, <2>3, <3>0, WhatIsClaimed
    <3>2. \/ regs[y].kind = "message" \/ regs[y].on # reg.on
          \/ regs[y].kind = "callback" /\ regs[y].when # Everything
      BY <1>2, <1>3, <1>5, <2>3, <3>1, WhatIsChecked DEF Checked
    <3> QED
      BY <3>1, <3>2
  <2>6. ASSUME NEW y \in 1 .. Len(regs), regs[y].group = reg.group, regs[y].reply
        PROVE  ~Claims(regs[y], u)
    BY <1>4, <2>5, <2>6, KindOfReg
  <2>4. reg.id \in ReceiversOf(bot, u, {}, FALSE)
    BY <1>1, <1>5, <2>1, <2>2, <2>3, <2>6, FirstToClaim
  <2> QED
    BY <2>1, <2>4
<1>6. CASE reg.kind = "callback"
  <2>1. PICK p \in reg.when : p \notin TakenAhead(bot, reg)
    BY <1>6
  <2>2. p \in Payloads /\ p # Stale /\ reg.on \in Models
    BY <1>4, <1>6, KindOfReg, RoutingAssumption
  <2> DEFINE u == [kind |-> "callback", on |-> reg.on, payload |-> p, edited |-> FALSE]
  <2>3. u \in Updates /\ u.kind = "callback" /\ u.on = reg.on /\ u.payload = p /\ ~u.edited
    BY <2>2 DEF Updates, Presses
  <2> HIDE DEF u
  <2>4. Claims(reg, u)
    BY <1>4, <1>6, <2>1, <2>3, WhatIsClaimed
  <2>5. ASSUME NEW y \in 1 .. x - 1, regs[y].group = reg.group, Claims(regs[y], u)
        PROVE  FALSE
    <3>1. regs[y].kind = reg.kind /\ regs[y].on = reg.on /\ p \in regs[y].when
      BY <1>4, <1>6, <2>2, <2>3, <2>5, WhatIsClaimed
    <3> HIDE DEF reg
    <3>2. p \in TakenAhead(bot, reg)
      BY <1>7, <2>5, <3>1
    <3> QED
      BY <2>1, <3>2
  <2>6. ASSUME NEW y \in 1 .. Len(regs), regs[y].reply
        PROVE  ~Claims(regs[y], u)
    BY <1>4, <2>3, <2>6, WhatIsClaimed, KindOfReg
  <2>7. reg.id \in ReceiversOf(bot, u, {}, FALSE)
    BY <1>1, <1>6, <2>3, <2>4, <2>5, <2>6, FirstToClaim
  <2> QED
    BY <2>3, <2>7
<1> QED
  BY <1>4, <1>5, <1>6, KindOfReg

\* A bot that the build refuses, with no twins that differ in what is edited, has a
\* command or callback that gets nothing.
LEMMA RefusedIsDead ==
    ASSUME NEW bot, IsBot(bot), ~CheckReachable(bot.flat, bot.entries),
           ~EditedTwins(bot), NEW regs, regs = Checked(bot)
    PROVE  \E x \in 1 .. Len(regs) :
               /\ regs[x].kind # "message"
               /\ \A u \in Updates : regs[x].id \notin ReceiversOf(bot, u, {}, FALSE)
<1> DEFINE le == Len(bot.entries)
<1>1. InOrder(bot, regs, le)
  BY CheckedInOrder
<1>2. /\ regs \in Seq(Registrations) /\ Len(regs) \in Nat /\ DOMAIN regs = 1 .. Len(regs)
  BY <1>1, LenProperties DEF InOrder
<1> HIDE DEF le
<1>3. PICK y \in DOMAIN regs, x \in DOMAIN regs :
          /\ y < x /\ regs[y].kind = regs[x].kind /\ regs[y].group = regs[x].group
          /\ regs[y].kind # "message"
          /\ regs[y].on = regs[x].on
          /\ ~(regs[y].kind = "callback" /\ regs[y].when # Everything)
  BY WhatIsChecked, ZenonT(60) DEF Checked
<1>4. x \in 1 .. Len(regs) /\ y \in 1 .. x - 1
  BY <1>2, <1>3
<1>5. regs[x] \in Registrations /\ regs[y] \in Registrations
  BY <1>2, <1>3, ElementOfSeq
<1>8. regs[x].edits => regs[y].edits
  <2>1. CASE regs[x].kind = "command"
    BY <1>3, <2>1 DEF EditedTwins, Checked
  <2>2. CASE regs[x].kind = "callback"
    BY <1>5, <2>2 DEF Registrations
  <2> QED
    BY <1>3, <1>5, <2>1, <2>2, KindOfReg
<1>6. ASSUME NEW u, Claims(regs[x], u)
      PROVE  Claims(regs[y], u)
  <2>1. /\ regs[x].kind = u.kind /\ regs[x].on = u.on
        /\ u.edited => regs[y].edits
        /\ regs[x].kind = "callback" => u.payload \in regs[x].when \cup {Stale}
    BY <1>3, <1>5, <1>6, <1>8, WhatIsClaimed
  <2>2. regs[x].kind = "callback" => u.payload \in regs[y].when \cup {Stale}
    BY <1>3, <1>5, <2>1, KindOfReg DEF Everything
  <2> QED
    BY <1>3, <1>5, <2>1, <2>2, WhatIsClaimed
<1>7. \A u \in Updates : regs[x].id \notin ReceiversOf(bot, u, {}, FALSE)
  BY <1>1, <1>3, <1>4, <1>6, NeverBehind
<1> QED
  BY <1>3, <1>4, <1>7

\* What the build refuses and what it accepts, for every bot: the three escapes and the
\* twins are the only cases in which its check is wrong.
THEOREM RefusedIffDead ==
    ASSUME input.kind = "bot" => IsBot(input.bot)
    PROVE  BuildRefusesTheDead
<1> SUFFICES ASSUME input.kind = "bot"
             PROVE  RefusesTheDead(input.bot)
  BY DEF BuildRefusesTheDead
<1> DEFINE bot == input.bot
           regs == Checked(bot)
           checked == {reg \in ToSet(bot.flat \o bot.entries) : reg.kind # "message"}
           alive(reg) == \E u \in Updates : reg.id \in ReceiversOf(bot, u, {}, FALSE)
           escapes(reg) == \/ bot.hasAuth /\ reg.group = Gate.group
                           \/ reg.kind = "callback" /\ reg.when \subseteq TakenAhead(bot, reg)
                           \/ reg.kind = "command" /\ BehindMessages(bot, reg)
<1>1. IsBot(bot)
  OBVIOUS
<1>2. ToSet(bot.flat \o bot.entries) = {regs[x] : x \in 1 .. Len(regs)}
  <2>1. bot.flat \in Seq(Registrations) /\ bot.entries \in Seq(Registrations)
    BY <1>1 DEF IsBot
  <2> DEFINE lf == Len(bot.flat)
             le == Len(bot.entries)
             other == bot.flat \o bot.entries
  <2>2. lf \in Nat /\ le \in Nat
    BY <2>1, LenProperties
  <2>3. /\ other \in Seq(Registrations) /\ Len(other) = lf + le
        /\ \A i \in 1 .. lf : other[i] = bot.flat[i]
        /\ \A i \in lf + 1 .. lf + le : other[i] = bot.entries[i - lf]
    <3> HIDE DEF bot
    <3> QED
      BY <2>1, JoinedTwo, Zenon
  <2>4. /\ regs \in Seq(Registrations) /\ Len(regs) = le + lf
        /\ \A i \in 1 .. le : regs[i] = bot.entries[i]
        /\ \A i \in le + 1 .. le + lf : regs[i] = bot.flat[i - le]
    <3> HIDE DEF bot
    <3> QED
      BY <2>1, JoinedTwo, Zenon DEF Checked
  <2> HIDE DEF other, regs, bot, lf, le
  <2>5. DOMAIN other = 1 .. Len(other)
    BY <2>3, LenProperties
  <2>6. \A r : (\E x \in 1 .. le + lf : regs[x] = r) <=>
               \/ \E i \in 1 .. le : bot.entries[i] = r
               \/ \E i \in 1 .. lf : bot.flat[i] = r
    <3>1. \A x \in 1 .. le + lf : \/ x \in 1 .. le
                                  \/ x \in le + 1 .. le + lf /\ x - le \in 1 .. lf
      BY <2>2
    <3>2. /\ \A i \in 1 .. le : i \in 1 .. le + lf
          /\ \A i \in 1 .. lf : le + i \in le + 1 .. le + lf /\ (le + i) - le = i
                                /\ le + i \in 1 .. le + lf
      BY <2>2
    <3> QED
      BY <2>4, <3>1, <3>2
  <2>7. \A r : (\E x \in 1 .. lf + le : other[x] = r) <=>
               \/ \E i \in 1 .. le : bot.entries[i] = r
               \/ \E i \in 1 .. lf : bot.flat[i] = r
    <3>1. \A x \in 1 .. lf + le : \/ x \in 1 .. lf
                                  \/ x \in lf + 1 .. lf + le /\ x - lf \in 1 .. le
      BY <2>2
    <3>2. /\ \A i \in 1 .. lf : i \in 1 .. lf + le
          /\ \A i \in 1 .. le : lf + i \in lf + 1 .. lf + le /\ (lf + i) - lf = i
                                /\ lf + i \in 1 .. lf + le
      BY <2>2
    <3> QED
      BY <2>3, <3>1, <3>2
  <2>8. \A r : r \in ToSet(other) <=> \E x \in 1 .. Len(regs) : regs[x] = r
    BY <2>3, <2>4, <2>5, <2>6, <2>7 DEF ToSet
  <2>9. ToSet(other) = {regs[x] : x \in 1 .. Len(regs)}
    BY <2>8
  <2> QED
    BY <2>9 DEF other
<1> HIDE DEF bot, regs
<1>3. CASE CheckReachable(bot.flat, bot.entries)
  <2>1. ASSUME NEW reg \in checked, ~escapes(reg)
        PROVE  alive(reg)
    <3>1. PICK x \in 1 .. Len(regs) : reg = regs[x]
      BY <1>2
    <3> QED
      BY <1>1, <1>3, <2>1, <3>1, AcceptedIsAlive DEF regs
  <2> QED
    BY <1>3, <2>1 DEF RefusesTheDead, bot
<1>5. CASE ~CheckReachable(bot.flat, bot.entries) /\ EditedTwins(bot)
  BY <1>5 DEF RefusesTheDead, bot
<1>4. CASE ~CheckReachable(bot.flat, bot.entries) /\ ~EditedTwins(bot)
  <2>1. PICK x \in 1 .. Len(regs) :
            /\ regs[x].kind # "message"
            /\ \A u \in Updates : regs[x].id \notin ReceiversOf(bot, u, {}, FALSE)
    BY <1>1, <1>4, RefusedIsDead DEF regs
  <2>2. regs[x] \in checked /\ ~alive(regs[x])
    BY <1>2, <2>1
  <2> QED
    BY <1>4, <2>2 DEF RefusesTheDead, bot
<1> QED
  BY <1>3, <1>4, <1>5

(***************************************************************************)
(* The earliest wanted element of a list.                                  *)
(***************************************************************************)

\* It is the one with none before it.
LEMMA EarliestIs ==
    ASSUME NEW S, NEW list \in Seq(S), NEW wanted, NEW i \in 1 .. Len(list),
           list[i] \in wanted, \A j \in 1 .. i - 1 : list[j] \notin wanted
    PROVE  Earliest(list, wanted) = {list[i]}
<1> DEFINE is == {j \in DOMAIN list : list[j] \in wanted}
<1>1. Len(list) \in Nat /\ DOMAIN list = 1 .. Len(list)
  BY LenProperties
<1>2. i \in is /\ is \subseteq Nat
  BY <1>1
<1>3. Min(is) \in is /\ \A j \in is : Min(is) <= j
  <2> HIDE DEF is
  <2> QED
    BY <1>2, MinIsLeast
<1>4. Min(is) \in Nat /\ Min(is) <= i /\ ~ (Min(is) \in 1 .. i - 1) /\ Min(is) >= 1
  <2>1. Min(is) \in 1 .. Len(list) /\ list[Min(is)] \in wanted
    BY <1>1, <1>3
  <2>2. Min(is) <= i
    BY <1>2, <1>3
  <2> HIDE DEF is
  <2> QED
    BY <2>1, <2>2
<1>5. Min(is) = i
  <2> HIDE DEF is
  <2> QED
    BY <1>1, <1>4
<1>6. is # {}
  BY <1>2
<1>7. Earliest(list, wanted) = IF is = {} THEN {} ELSE {list[Min(is)]}
  BY DEF Earliest
<1> HIDE DEF is
<1> QED
  BY <1>5, <1>6, <1>7

\* There is none if no element is wanted.
LEMMA EarliestNone ==
    ASSUME NEW S, NEW list \in Seq(S), NEW wanted,
           \A j \in 1 .. Len(list) : list[j] \notin wanted
    PROVE  Earliest(list, wanted) = {}
<1>1. DOMAIN list = 1 .. Len(list)
  BY LenProperties
<1> QED
  BY <1>1 DEF Earliest

\* Either there is none, or there is a first one.
LeadsAt(list, wanted, i) ==
    /\ i \in 1 .. Len(list) /\ list[i] \in wanted
    /\ \A j \in 1 .. i - 1 : list[j] \notin wanted

\* That is so for every list.
LEMMA NoneOrFirst ==
    ASSUME NEW S, NEW list \in Seq(S), NEW wanted
    PROVE  \/ \A j \in 1 .. Len(list) : list[j] \notin wanted
           \/ \E i \in 1 .. Len(list) : LeadsAt(list, wanted, i)
<1> DEFINE is == {j \in 1 .. Len(list) : list[j] \in wanted}
<1>1. Len(list) \in Nat
  BY LenProperties
<1> SUFFICES ASSUME is # {}
             PROVE  \E i \in 1 .. Len(list) : LeadsAt(list, wanted, i)
  OBVIOUS
<1>2. is \subseteq Nat
  BY <1>1
<1>3. PICK i \in is : \A j \in is : i <= j
  <2> HIDE DEF is
  <2> QED
    BY <1>2, Smallest
<1>4. \A j \in 1 .. i - 1 : j \in 1 .. Len(list) /\ ~ (i <= j)
  BY <1>1, <1>2
<1>5. \A j \in 1 .. i - 1 : list[j] \notin wanted
  BY <1>3, <1>4
<1> QED
  BY <1>3, <1>5 DEF LeadsAt

\* The first one is the earliest.
LEMMA EarliestLeads ==
    ASSUME NEW S, NEW list \in Seq(S), NEW wanted, NEW i, LeadsAt(list, wanted, i)
    PROVE  Earliest(list, wanted) = {list[i]}
BY EarliestIs DEF LeadsAt

\* Of two lists joined, it is that of the first, or else that of the second.
LEMMA EarliestOfTwo ==
    ASSUME NEW S, NEW a \in Seq(S), NEW b \in Seq(S), NEW wanted
    PROVE  Earliest(a \o b, wanted)
           = IF Earliest(a, wanted) # {} THEN Earliest(a, wanted) ELSE Earliest(b, wanted)
<1> DEFINE ab == a \o b
<1>1. /\ Len(a) \in Nat /\ Len(b) \in Nat /\ ab \in Seq(S)
      /\ Len(ab) = Len(a) + Len(b)
      /\ \A j \in 1 .. Len(a) : ab[j] = a[j]
      /\ \A j \in Len(a) + 1 .. Len(a) + Len(b) : ab[j] = b[j - Len(a)]
  BY LenProperties, ConcatProperties
<1> HIDE DEF ab
<1>2. CASE \E i \in 1 .. Len(a) : LeadsAt(a, wanted, i)
  <2>1. PICK i \in 1 .. Len(a) : LeadsAt(a, wanted, i)
    BY <1>2
  <2>2. \A j \in 1 .. i - 1 : j \in 1 .. Len(a)
    BY <1>1
  <2>3. i \in 1 .. Len(ab)
    BY <1>1
  <2>4. LeadsAt(ab, wanted, i)
    BY <1>1, <2>1, <2>2, <2>3 DEF LeadsAt
  <2>5. Earliest(ab, wanted) = {ab[i]} /\ Earliest(a, wanted) = {a[i]}
    BY <1>1, <2>1, <2>4, EarliestLeads
  <2> QED
    BY <1>1, <2>1, <2>5 DEF ab
<1>3. CASE \A j \in 1 .. Len(a) : a[j] \notin wanted
  <2>1. Earliest(a, wanted) = {}
    BY <1>3, EarliestNone
  <2>2. CASE \E i \in 1 .. Len(b) : LeadsAt(b, wanted, i)
    <3>1. PICK i \in 1 .. Len(b) : LeadsAt(b, wanted, i)
      BY <2>2
    <3> DEFINE k == Len(a) + i
    <3>2. /\ k \in Len(a) + 1 .. Len(a) + Len(b) /\ k \in 1 .. Len(a) + Len(b)
          /\ k - Len(a) = i
      BY <1>1
    <3>3. ASSUME NEW j \in 1 .. k - 1
          PROVE  ab[j] \notin wanted
      <4>1. CASE j \in 1 .. Len(a)
        BY <4>1, <1>1, <1>3
      <4>2. CASE ~ (j \in 1 .. Len(a))
        <5>1. j \in Len(a) + 1 .. Len(a) + Len(b) /\ j - Len(a) \in 1 .. i - 1
          BY <1>1, <4>2
        <5> QED
          BY <1>1, <3>1, <5>1 DEF LeadsAt
      <4> QED
        BY <4>1, <4>2
    <3>4. ab[k] = b[i] /\ k \in 1 .. Len(ab)
      BY <1>1, <3>2
    <3> HIDE DEF k
    <3>5. LeadsAt(ab, wanted, k)
      BY <3>1, <3>3, <3>4 DEF LeadsAt
    <3>6. Earliest(ab, wanted) = {ab[k]} /\ Earliest(b, wanted) = {b[i]}
      BY <1>1, <3>1, <3>5, EarliestLeads
    <3> QED
      BY <2>1, <3>4, <3>6 DEF ab
  <2>3. CASE \A j \in 1 .. Len(b) : b[j] \notin wanted
    <3>1. ASSUME NEW j \in 1 .. Len(ab)
          PROVE  ab[j] \notin wanted
      <4>1. CASE j \in 1 .. Len(a)
        BY <4>1, <1>1, <1>3
      <4>2. CASE ~ (j \in 1 .. Len(a))
        <5>1. j \in Len(a) + 1 .. Len(a) + Len(b) /\ j - Len(a) \in 1 .. Len(b)
          BY <1>1, <4>2
        <5> QED
          BY <1>1, <2>3, <5>1
      <4> QED
        BY <4>1, <4>2
    <3>2. Earliest(ab, wanted) = {} /\ Earliest(b, wanted) = {}
      BY <1>1, <2>3, <3>1, EarliestNone
    <3> QED
      BY <2>1, <3>2 DEF ab
  <2> QED
    BY <2>2, <2>3, NoneOrFirst
<1> QED
  BY <1>2, <1>3, NoneOrFirst

\* Of the first n parts: none has any, or found is that of the first which has.
Found(parts, wanted, n, found) ==
    \/ found = {} /\ \A i \in 1 .. n : Earliest(parts[i], wanted) = {}
    \/ \E i \in 1 .. n : /\ found = Earliest(parts[i], wanted) /\ found # {}
                         /\ \A j \in 1 .. i - 1 : Earliest(parts[j], wanted) = {}

\* The earliest of a joined list is found in its first part that has any.
LEMMA FoundInParts ==
    ASSUME NEW S, NEW parts \in Seq(Seq(S)), NEW wanted
    PROVE  /\ FlattenSeq(parts) \in Seq(S)
           /\ Found(parts, wanted, Len(parts), Earliest(FlattenSeq(parts), wanted))
<1>1. PICK joined : Joins(parts, joined)
  BY PartByPart
<1> DEFINE l == Len(parts)
           Right(n) == /\ joined[n] \in Seq(S)
                       /\ Found(parts, wanted, n, Earliest(joined[n], wanted))
           T == {n \in Nat : n <= l => Right(n)}
<1>2. l \in Nat /\ \A n \in 1 .. l : parts[n] \in Seq(S)
  BY LenProperties, ElementOfSeq
<1>3. 0 \in T
  <2>1. joined[0] = <<>> /\ <<>> \in Seq(S) /\ Len(<<>>) = 0
    BY <1>1, EmptySeq DEF Joins
  <2>2. Earliest(<<>>, wanted) = {}
    <3>1. \A j \in 1 .. Len(<<>>) : <<>>[j] \notin wanted
      BY <2>1
    <3> DEFINE empty == <<>>
    <3>2. empty \in Seq(S) /\ \A j \in 1 .. Len(empty) : empty[j] \notin wanted
      BY <2>1, <3>1
    <3> HIDE DEF empty
    <3>3. Earliest(empty, wanted) = {}
      BY <3>2, EarliestNone
    <3> QED
      BY <3>3 DEF empty
  <2>3. Found(parts, wanted, 0, {})
    BY DEF Found
  <2>4. Right(0)
    BY <2>1, <2>2, <2>3
  <2> QED
    BY <2>4
<1>4. ASSUME NEW n \in Nat, n \in T
      PROVE  n + 1 \in T
  <2> SUFFICES ASSUME n + 1 <= l
               PROVE  Right(n + 1)
    OBVIOUS
  <2> DEFINE was == joined[n]
             new == parts[n + 1]
  <2>1. n + 1 \in 1 .. l /\ (n + 1) - 1 = n /\ n <= l
    BY <1>2
  <2>2. Right(n)
    BY <2>1, <1>4
  <2>3. was \in Seq(S) /\ new \in Seq(S) /\ joined[n + 1] = was \o new
    BY <1>1, <1>2, <2>1, <2>2 DEF Joins
  <2>4. Found(parts, wanted, n, Earliest(was, wanted))
    BY <2>2
  <2> HIDE DEF was
  <2>5. was \o new \in Seq(S)
    BY <2>3, ConcatProperties
  <2>6. Earliest(was \o new, wanted)
        = IF Earliest(was, wanted) # {} THEN Earliest(was, wanted) ELSE Earliest(new, wanted)
    BY <2>3, EarliestOfTwo
  <2>7. \A i \in 1 .. n : i \in 1 .. n + 1
    OBVIOUS
  <2>8. \A i \in 1 .. n + 1 : i \in 1 .. n \/ i = n + 1
    OBVIOUS
  <2>9. Found(parts, wanted, n + 1, Earliest(was \o new, wanted))
    <3>1. CASE Earliest(was, wanted) # {}
      BY <3>1, <2>4, <2>6, <2>7 DEF Found
    <3>2. CASE Earliest(was, wanted) = {}
      <4>1. \A i \in 1 .. n : Earliest(parts[i], wanted) = {}
        BY <3>2, <2>4 DEF Found
      <4>2. Earliest(was \o new, wanted) = Earliest(new, wanted)
        BY <3>2, <2>6
      <4>3. CASE Earliest(new, wanted) = {}
        BY <4>1, <4>2, <4>3, <2>8 DEF Found
      <4>4. CASE Earliest(new, wanted) # {}
        <5>1. n + 1 \in 1 .. n + 1 /\ (n + 1) - 1 = n
          OBVIOUS
        <5>2. \A j \in 1 .. (n + 1) - 1 : Earliest(parts[j], wanted) = {}
          BY <4>1, <5>1
        <5> QED
          BY <4>2, <4>4, <5>1, <5>2 DEF Found
      <4> QED
        BY <4>3, <4>4
    <3> QED
      BY <3>1, <3>2
  <2> QED
    BY <2>3, <2>5, <2>9
<1>5. Nat \subseteq T
  <2> HIDE DEF T
  <2> QED
    BY <1>3, <1>4, Climb
<1>6. Right(l)
  <2> HIDE DEF Right
  <2> QED
    BY <1>2, <1>5
<1> QED
  BY <1>1, <1>6 DEF Joins

\* What is found depends on what each part has.
LEMMA FoundIsOne ==
    ASSUME NEW n \in Nat, NEW parts, NEW wanted, NEW others, NEW desired, NEW a, NEW b,
           Found(parts, wanted, n, a), Found(others, desired, n, b),
           \A i \in 1 .. n : Earliest(parts[i], wanted) = Earliest(others[i], desired)
    PROVE  a = b
<1>1. CASE \A i \in 1 .. n : Earliest(parts[i], wanted) = {}
  BY <1>1 DEF Found
<1>2. CASE ~ \A i \in 1 .. n : Earliest(parts[i], wanted) = {}
  <2>1. PICK i \in 1 .. n : /\ a = Earliest(parts[i], wanted) /\ a # {}
                            /\ \A j \in 1 .. i - 1 : Earliest(parts[j], wanted) = {}
    BY <1>2 DEF Found
  <2>2. PICK k \in 1 .. n : /\ b = Earliest(others[k], desired) /\ b # {}
                            /\ \A j \in 1 .. k - 1 : Earliest(others[j], desired) = {}
    BY <1>2 DEF Found
  <2>3. ~ (i \in 1 .. k - 1) /\ ~ (k \in 1 .. i - 1)
    BY <2>1, <2>2
  <2>4. i = k
    BY <2>3
  <2> QED
    BY <2>1, <2>2, <2>4
<1> QED
  BY <1>1, <1>2

\* Lists that are joined: the earliest is the same if it is so in each part.
Alike(parts, wanted, others, desired) ==
    /\ Len(parts) = Len(others)
    /\ \A i \in 1 .. Len(parts) : Earliest(parts[i], wanted) = Earliest(others[i], desired)

\* Then it is the same in the joined lists.
LEMMA EarliestOfParts ==
    ASSUME NEW S, NEW parts \in Seq(Seq(S)), NEW wanted,
           NEW others \in Seq(Seq(S)), NEW desired, Alike(parts, wanted, others, desired)
    PROVE  Earliest(FlattenSeq(parts), wanted) = Earliest(FlattenSeq(others), desired)
<1>1. Len(parts) \in Nat
  BY LenProperties
<1>2. /\ Found(parts, wanted, Len(parts), Earliest(FlattenSeq(parts), wanted))
      /\ Found(others, desired, Len(parts), Earliest(FlattenSeq(others), desired))
  BY FoundInParts DEF Alike
<1> QED
  <2> DEFINE a == Earliest(FlattenSeq(parts), wanted)
             b == Earliest(FlattenSeq(others), desired)
             n == Len(parts)
  <2>1. n \in Nat /\ Found(parts, wanted, n, a) /\ Found(others, desired, n, b)
    BY <1>1, <1>2
  <2>2. \A i \in 1 .. n : Earliest(parts[i], wanted) = Earliest(others[i], desired)
    BY DEF Alike
  <2> HIDE DEF a, b, n
  <2>3. a = b
    BY <2>1, <2>2, FoundIsOne
  <2> QED
    BY <2>3 DEF a, b

\* A list in which each element is replaced by one of it, or of nothing.
Stands(parts, wanted, list, desired) ==
    /\ Len(parts) = Len(list)
    /\ \A i \in 1 .. Len(list) :
          Earliest(parts[i], wanted) = IF list[i] \in desired THEN {list[i]} ELSE {}

\* The earliest of what the elements are replaced by is that of the list.
LEMMA EarliestOfElements ==
    ASSUME NEW S, NEW parts \in Seq(Seq(S)), NEW wanted,
           NEW list \in Seq(S), NEW desired, Stands(parts, wanted, list, desired)
    PROVE  Earliest(FlattenSeq(parts), wanted) = Earliest(list, desired)
<1> DEFINE e == Earliest(FlattenSeq(parts), wanted)
<1>0. /\ Len(parts) = Len(list)
      /\ \A i \in 1 .. Len(list) :
            Earliest(parts[i], wanted) = IF list[i] \in desired THEN {list[i]} ELSE {}
  BY DEF Stands
<1>1. Len(list) \in Nat
  BY LenProperties
<1>2. Found(parts, wanted, Len(list), e)
  BY <1>0, FoundInParts
<1> HIDE DEF e
<1>3. CASE \A i \in 1 .. Len(list) : list[i] \notin desired
  <2>1. e = {}
    BY <1>0, <1>2, <1>3 DEF Found
  <2> QED
    BY <1>3, <2>1, EarliestNone DEF e
<1>4. CASE \E i \in 1 .. Len(list) : LeadsAt(list, desired, i)
  <2>1. PICK i \in 1 .. Len(list) : LeadsAt(list, desired, i)
    BY <1>4
  <2>2. Earliest(list, desired) = {list[i]}
    BY <2>1, EarliestLeads
  <2>3. Earliest(parts[i], wanted) = {list[i]}
    BY <1>0, <2>1 DEF LeadsAt
  <2>4. \A j \in 1 .. i - 1 : j \in 1 .. Len(list) /\ Earliest(parts[j], wanted) = {}
    <3>1. \A j \in 1 .. i - 1 : j \in 1 .. Len(list)
      BY <1>1
    <3> QED
      BY <1>0, <3>1, <2>1 DEF LeadsAt
  <2>5. PICK k \in 1 .. Len(list) :
            /\ e = Earliest(parts[k], wanted) /\ e # {}
            /\ \A j \in 1 .. k - 1 : Earliest(parts[j], wanted) = {}
    BY <1>2, <2>3 DEF Found
  <2>6. ~ (k \in 1 .. i - 1) /\ ~ (i \in 1 .. k - 1)
    BY <2>3, <2>4, <2>5
  <2>7. k = i
    BY <1>1, <2>6
  <2> QED
    BY <2>2, <2>3, <2>5, <2>7 DEF e
<1> QED
  BY <1>3, <1>4, NoneOrFirst

(***************************************************************************)
(* Steps of conversations.                                                 *)
(***************************************************************************)

\* The steps that can be declared.
StepSet(States, UpdateSet) ==
    [states : Seq(States), on : SUBSET UpdateSet, fallback : BOOLEAN]

\* Of a list's desired elements, each is chosen and wanted.
Narrows(list, chosen, wanted, desired) ==
    \A i \in 1 .. Len(list) : list[i] \in desired <=> (i \in chosen /\ list[i] \in wanted)

\* Chosen elements of a list, in order.
LEMMA EarliestOfThose ==
    ASSUME NEW S, NEW list \in Seq(S), NEW chosen, NEW wanted, NEW desired,
           Narrows(list, chosen, wanted, desired)
    PROVE  /\ Those(list, chosen) \in Seq(S)
           /\ Earliest(Those(list, chosen), wanted) = Earliest(list, desired)
<1> DEFINE part(i) == IF i \in chosen THEN <<list[i]>> ELSE <<>>
           parts == [i \in 1 .. Len(list) |-> part(i)]
<1>1. Len(list) \in Nat /\ \A i \in 1 .. Len(list) : list[i] \in S
  BY LenProperties, ElementOfSeq
<1>2. ASSUME NEW i \in 1 .. Len(list)
      PROVE  /\ part(i) \in Seq(S)
             /\ Earliest(part(i), wanted) = IF list[i] \in desired THEN {list[i]} ELSE {}
  <2>1. CASE i \in chosen
    <3> DEFINE one == <<list[i]>>
    <3>1. one \in Seq(S) /\ Len(one) = 1 /\ one[1] = list[i]
      BY <1>1
    <3>2. part(i) = one
      BY <2>1
    <3> HIDE DEF one, part
    <3>3. CASE list[i] \in wanted
      <4>1. LeadsAt(one, wanted, 1)
        BY <3>1, <3>3 DEF LeadsAt
      <4>2. Earliest(one, wanted) = {one[1]}
        BY <3>1, <4>1, EarliestLeads
      <4> QED
        BY <2>1, <3>1, <3>2, <3>3, <4>2 DEF Narrows
    <3>4. CASE list[i] \notin wanted
      <4>1. \A j \in 1 .. Len(one) : one[j] \notin wanted
        BY <3>1, <3>4
      <4>2. Earliest(one, wanted) = {}
        BY <3>1, <4>1, EarliestNone
      <4> QED
        BY <2>1, <3>1, <3>2, <3>4, <4>2 DEF Narrows
    <3> QED
      BY <3>3, <3>4
  <2>2. CASE i \notin chosen
    <3> DEFINE none == <<>>
    <3>1. none \in Seq(S) /\ \A j \in 1 .. Len(none) : none[j] \notin wanted
      BY EmptySeq
    <3>2. part(i) = none
      BY <2>2
    <3> HIDE DEF none, part
    <3>3. Earliest(none, wanted) = {}
      BY <3>1, EarliestNone
    <3> QED
      BY <2>2, <3>1, <3>2, <3>3 DEF Narrows
  <2> QED
    BY <2>1, <2>2
<1>3. Those(list, chosen) = FlattenSeq(parts)
  BY DEF Those
<1> HIDE DEF part
<1>4. parts \in Seq(Seq(S)) /\ Len(parts) = Len(list)
  BY <1>1, <1>2
<1>5. Stands(parts, wanted, list, desired)
  BY <1>2, <1>4 DEF Stands
<1> HIDE DEF parts
<1>6. Earliest(FlattenSeq(parts), wanted) = Earliest(list, desired)
  <2>1. \A w, d : \A all \in Seq(Seq(S)), l \in Seq(S) :
            Stands(all, w, l, d) => Earliest(FlattenSeq(all), w) = Earliest(l, d)
    BY EarliestOfElements
  <2> QED
    BY <1>4, <1>5, <2>1, Zenon
<1>7. FlattenSeq(parts) \in Seq(S)
  BY <1>4, FoundInParts
<1> QED
  BY <1>3, <1>6, <1>7

\* The copies of a step that are mounted on a state.
OfState(step, name) ==
    IF AnyState \in ToSet(step.states) THEN <<step>> ELSE Copies(step, name)

\* Copies of nothing but the step, and none if it does not name the state.
MountedAs(mounted, S, step, name) ==
    /\ mounted \in Seq(S)
    /\ \A k \in 1 .. Len(mounted) : mounted[k] = step
    /\ mounted # <<>> <=> {name, AnyState} \cap ToSet(step.states) # {}

\* A step is mounted on the states it names, or on all.
LEMMA MountedIfNamed ==
    ASSUME NEW States, NEW UpdateSet, NEW step \in StepSet(States, UpdateSet), NEW name
    PROVE  MountedAs(OfState(step, name), StepSet(States, UpdateSet), step, name)
<1> DEFINE S == StepSet(States, UpdateSet)
           mounted == OfState(step, name)
<1>1. step.states \in Seq(States) /\ step \in S
  BY DEF StepSet
<1> HIDE DEF S
<1>2. CASE AnyState \in ToSet(step.states)
  <2>1. mounted = <<step>>
    BY <1>2 DEF OfState
  <2>2. mounted \in Seq(S) /\ Len(mounted) = 1 /\ mounted[1] = step /\ mounted # <<>>
    BY <1>1, <2>1
  <2> HIDE DEF mounted
  <2> QED
    BY <1>2, <2>2 DEF mounted, S, MountedAs
<1>3. CASE AnyState \notin ToSet(step.states)
  <2> DEFINE at == {i \in DOMAIN step.states : step.states[i] = name}
             n == Cardinality(at)
  <2>1. mounted = [k \in 1 .. n |-> step]
    BY <1>3 DEF OfState, Copies
  <2>2. at \subseteq 1 .. Len(step.states) /\ Len(step.states) \in Nat
    BY <1>1, LenProperties
  <2>3. IsFiniteSet(at)
    <3> HIDE DEF at
    <3> QED
      <4>1. IsFiniteSet(1 .. Len(step.states))
        BY <2>2, FS_Interval
      <4> QED
        BY <2>2, <4>1, FS_Subset
  <2>4. n \in Nat /\ (n = 0 <=> at = {})
    <3> HIDE DEF at
    <3> QED
      BY <2>3, FS_CardinalityType, FS_EmptySet
  <2>5. at # {} <=> {name, AnyState} \cap ToSet(step.states) # {}
    BY <1>3 DEF ToSet
  <2> HIDE DEF n, at
  <2>6. mounted \in Seq(S) /\ Len(mounted) = n /\ \A k \in 1 .. n : mounted[k] = step
    BY <1>1, <2>1, <2>4
  <2>7. mounted # <<>> <=> n # 0
    <3>1. n # 0 => mounted # <<>>
      BY <2>4, <2>6
    <3>2. n = 0 => mounted = <<>>
      BY <2>6, EmptySeq
    <3> QED
      BY <3>1, <3>2
  <2> HIDE DEF mounted
  <2> QED
    BY <2>4, <2>5, <2>6, <2>7 DEF mounted, S, MountedAs
<1> QED
  BY <1>2, <1>3

\* Where a list has steps for a state.
MountedOn(steps, name) ==
    {i \in 1 .. Len(steps) : {name, AnyState} \cap ToSet(steps[i].states) # {}}

\* What the steps mounted on a state are tried for: the declared ones, in order.
LEMMA EarliestOfState ==
    ASSUME NEW States, NEW UpdateSet, NEW steps \in Seq(StepSet(States, UpdateSet)),
           NEW name, NEW wanted, NEW desired,
           Narrows(steps, MountedOn(steps, name), wanted, desired)
    PROVE  /\ StepsOf(steps, name) \in Seq(StepSet(States, UpdateSet))
           /\ Earliest(StepsOf(steps, name), wanted) = Earliest(steps, desired)
<1> DEFINE S == StepSet(States, UpdateSet)
           parts == [i \in 1 .. Len(steps) |-> OfState(steps[i], name)]
<1>1. Len(steps) \in Nat /\ \A i \in 1 .. Len(steps) : steps[i] \in S
  BY LenProperties, ElementOfSeq
<1>2. ASSUME NEW i \in 1 .. Len(steps)
      PROVE  /\ parts[i] \in Seq(S)
             /\ Earliest(parts[i], wanted) = IF steps[i] \in desired THEN {steps[i]} ELSE {}
  <2> DEFINE mounted == OfState(steps[i], name)
  <2>1. /\ mounted \in Seq(S) /\ \A k \in 1 .. Len(mounted) : mounted[k] = steps[i]
        /\ mounted # <<>> <=> {name, AnyState} \cap ToSet(steps[i].states) # {}
    <3>1. MountedAs(mounted, S, steps[i], name)
      BY <1>1, MountedIfNamed
    <3> HIDE DEF mounted, S
    <3> QED
      BY <3>1 DEF MountedAs
  <2>2. parts[i] = mounted
    OBVIOUS
  <2> HIDE DEF mounted, parts, S
  <2>3. Len(mounted) \in Nat /\ (mounted # <<>> <=> Len(mounted) # 0)
    BY <2>1, LenProperties, EmptySeq
  <2>4. CASE steps[i] \in desired
    <3>1. 1 \in 1 .. Len(mounted) /\ steps[i] \in wanted /\ 1 .. 1 - 1 = {}
      BY <2>1, <2>3, <2>4 DEF Narrows, MountedOn
    <3>2. LeadsAt(mounted, wanted, 1)
      BY <2>1, <3>1 DEF LeadsAt
    <3>3. Earliest(mounted, wanted) = {mounted[1]}
      BY <2>1, <3>2, EarliestLeads
    <3> QED
      BY <2>1, <2>2, <2>4, <3>1, <3>3
  <2>5. CASE steps[i] \notin desired
    <3>1. ASSUME NEW k \in 1 .. Len(mounted)
          PROVE  mounted[k] \notin wanted
      <4>1. mounted # <<>> /\ mounted[k] = steps[i]
        BY <2>1, <2>3
      <4>2. steps[i] \notin wanted
        BY <2>1, <2>5, <4>1 DEF Narrows, MountedOn
      <4> QED
        BY <4>1, <4>2
    <3>2. Earliest(mounted, wanted) = {}
      BY <2>1, <3>1, EarliestNone
    <3> QED
      BY <2>1, <2>2, <2>5, <3>2
  <2> QED
    BY <2>4, <2>5
<1>3. StepsOf(steps, name) = FlattenSeq(parts)
  BY DEF StepsOf, OfState
<1>4. Len(parts) = Len(steps) /\ parts \in Seq(Seq(S))
  <2>1. parts = [i \in 1 .. Len(steps) |-> parts[i]]
    OBVIOUS
  <2> HIDE DEF parts
  <2> QED
    BY <1>1, <1>2, <2>1
<1> HIDE DEF parts, S
<1>5. Stands(parts, wanted, steps, desired)
  BY <1>2, <1>4 DEF Stands
<1>6. \A w, d : \A all \in Seq(Seq(S)), l \in Seq(S) :
          Stands(all, w, l, d) => Earliest(FlattenSeq(all), w) = Earliest(l, d)
  BY EarliestOfElements
<1>7. steps \in Seq(S)
  BY DEF S
<1>8. Earliest(FlattenSeq(parts), wanted) = Earliest(steps, desired)
  BY <1>4, <1>5, <1>6, <1>7, Zenon
<1>9. FlattenSeq(parts) \in Seq(S)
  BY <1>4, ElementsOfParts
<1> QED
  BY <1>3, <1>8, <1>9 DEF S

\* check_update tries its candidates in order.
LEMMA ChecksInOrder ==
    ASSUME NEW S, NEW flows, NEW run, NEW update, NEW wanted,
           Candidates(flows, run) \in Seq(S),
           \A s \in S : update \in s.on <=> s \in wanted
    PROVE  CheckUpdate(flows, run, update) = Earliest(Candidates(flows, run), wanted)
<1> DEFINE tried == Candidates(flows, run)
           takers == {i \in DOMAIN tried : update \in tried[i].on}
           is == {i \in DOMAIN tried : tried[i] \in wanted}
<1>1. \A i \in DOMAIN tried : tried[i] \in S
  BY LenProperties, ElementOfSeq
<1>2. takers = is
  BY <1>1
<1>3. CheckUpdate(flows, run, update) = IF takers = {} THEN {} ELSE {tried[Min(takers)]}
  BY DEF CheckUpdate
<1>4. Earliest(tried, wanted) = IF is = {} THEN {} ELSE {tried[Min(is)]}
  BY DEF Earliest
<1> HIDE DEF takers, is
<1> QED
  BY <1>2, <1>3, <1>4

\* The first that is there, of three.
LEMMA FirstOfThree ==
    ASSUME NEW a, NEW b, NEW c
    PROVE  UNION Earliest(<<a, b, c>>, ToSet(<<a, b, c>>) \ {{}})
           = IF a # {} THEN a ELSE IF b # {} THEN b ELSE c
<1> DEFINE three == <<a, b, c>>
           there == ToSet(three) \ {{}}
           S == {a, b, c}
<1>1. /\ three \in Seq(S) /\ Len(three) = 3
      /\ three[1] = a /\ three[2] = b /\ three[3] = c
  OBVIOUS
<1>2. there = {a, b, c} \ {{}}
  BY DEF ToSet
<1> HIDE DEF three, there, S
<1>3. ASSUME NEW i \in 1 .. 3, three[i] # {}, \A j \in 1 .. i - 1 : three[j] = {}
      PROVE  UNION Earliest(three, there) = three[i]
  <2>1. \A k \in 1 .. 3 : k = 1 \/ k = 2 \/ k = 3
    OBVIOUS
  <2>2. three[i] \in there
    BY <1>1, <1>2, <1>3, <2>1
  <2>3. \A j \in 1 .. i - 1 : three[j] \notin there
    BY <1>2, <1>3
  <2>4. LeadsAt(three, there, i)
    BY <1>1, <2>2, <2>3 DEF LeadsAt
  <2>5. Earliest(three, there) = {three[i]}
    BY <1>1, <2>4, EarliestLeads
  <2> QED
    BY <2>5
<1>4. ASSUME a = {}, b = {}, c = {}
      PROVE  UNION Earliest(three, there) = {}
  <2>1. \A j \in 1 .. Len(three) : three[j] \notin there
    BY <1>1, <1>2, <1>4
  <2>2. Earliest(three, there) = {}
    BY <1>1, <2>1, EarliestNone
  <2> QED
    BY <2>2
<1>5. /\ \A j \in 1 .. 1 - 1 : three[j] = {}
      /\ a = {} => \A j \in 1 .. 2 - 1 : three[j] = {}
      /\ a = {} /\ b = {} => \A j \in 1 .. 3 - 1 : three[j] = {}
  <2>1. \A j \in 1 .. 3 - 1 : j = 1 \/ j = 2
    OBVIOUS
  <2>2. \A j \in 1 .. 2 - 1 : j = 1
    OBVIOUS
  <2> QED
    BY <1>1, <2>1, <2>2
<1>6. 1 \in 1 .. 3 /\ 2 \in 1 .. 3 /\ 3 \in 1 .. 3
  OBVIOUS
<1>7. CASE a # {}
  BY <1>1, <1>3, <1>5, <1>6, <1>7 DEF three, there
<1>8. CASE a = {} /\ b # {}
  BY <1>1, <1>3, <1>5, <1>6, <1>8 DEF three, there
<1>9. CASE a = {} /\ b = {} /\ c # {}
  BY <1>1, <1>3, <1>5, <1>6, <1>9 DEF three, there
<1>10. CASE a = {} /\ b = {} /\ c = {}
  BY <1>4, <1>10 DEF three, there
<1> QED
  BY <1>7, <1>8, <1>9, <1>10

\* What a run tries an update on, in terms of what was declared.
LEMMA StepsTriedInOrder ==
    ASSUME NEW States, NEW UpdateSet, NEW flows \in Seq(Seq(StepSet(States, UpdateSet))),
           NEW f \in 1 .. Len(flows), NEW state, NEW update
    PROVE  StepsAsDeclared(flows, f, state, update)
<1> DEFINE S == StepSet(States, UpdateSet)
           built == [g \in 1 .. Len(flows) |-> Build(flows[g])]
           run == [flow |-> f, state |-> state]
           all == FlattenSeq(flows)
           takers == {s \in ToSet(all) : update \in s.on}
           ofState == {s \in takers : {state, AnyState} \cap ToSet(s.states) # {}}
           cancels == {s \in takers : s.fallback}
           entries == {s \in takers : IsEntry(s)}
           wanted == {s \in S : update \in s.on}
           three == <<Earliest(flows[f], ofState), Earliest(flows[f], cancels),
                      Earliest(all, entries)>>
           mounted == StepsOf(flows[f], state)
           fallbacks == Fallbacks(flows[f])
           entering == [g \in 1 .. Len(built) |-> built[g].entries]
<1> SUFFICES ASSUME state \in StateNames(flows[f])
             PROVE  CheckUpdate(built, run, update)
                    = UNION Earliest(three, ToSet(three) \ {{}})
  BY DEF StepsAsDeclared
<1>1. /\ Len(flows) \in Nat /\ \A g \in 1 .. Len(flows) : flows[g] \in Seq(S)
      /\ flows \in Seq(Seq(S))
  BY LenProperties, ElementOfSeq
<1>2. /\ Len(built) = Len(flows) /\ DOMAIN built = 1 .. Len(flows)
      /\ \A g \in 1 .. Len(flows) : built[g] = Build(flows[g])
  BY <1>1
<1>3. /\ built[f].states[state] = mounted /\ built[f].fallbacks = fallbacks
      /\ \A g \in 1 .. Len(flows) : built[g].entries = Entries(flows[g])
  BY <1>2 DEF Build
<1>4. /\ all \in Seq(S)
      /\ \A g \in 1 .. Len(flows) : \A i \in 1 .. Len(flows[g]) :
             flows[g][i] \in S /\ flows[g][i] \in ToSet(all)
  <2>1. all \in Seq(S) /\ ToSet(all) = Held(flows, Len(flows))
    BY <1>1, ElementsOfParts
  <2>2. ASSUME NEW g \in 1 .. Len(flows), NEW i \in 1 .. Len(flows[g])
        PROVE  flows[g][i] \in S /\ flows[g][i] \in Held(flows, Len(flows))
    <3> HIDE DEF S, all
    <3>1. flows[g] \in Seq(S) /\ DOMAIN flows[g] = 1 .. Len(flows[g])
      BY <1>1, LenProperties
    <3>2. flows[g][i] \in ToSet(flows[g])
      BY <3>1 DEF ToSet
    <3> QED
      BY <3>1, <3>2, ElementOfSeq, ZenonT(60) DEF Held
  <2> HIDE DEF all, S
  <2> QED
    BY <2>1, <2>2
<1>5. mounted \in Seq(S) /\ Earliest(mounted, wanted) = Earliest(flows[f], ofState)
  <2>1. Narrows(flows[f], MountedOn(flows[f], state), wanted, ofState)
    BY <1>4 DEF Narrows, MountedOn
  <2> HIDE DEF ofState, wanted
  <2> QED
    BY <1>1, <2>1, EarliestOfState
<1>6. fallbacks \in Seq(S) /\ Earliest(fallbacks, wanted) = Earliest(flows[f], cancels)
  <2> DEFINE at == {i \in DOMAIN flows[f] : flows[f][i].fallback}
  <2>1. DOMAIN flows[f] = 1 .. Len(flows[f])
    BY <1>1, LenProperties
  <2>2. Narrows(flows[f], at, wanted, cancels)
    BY <1>4, <2>1 DEF Narrows
  <2>3. fallbacks = Those(flows[f], at)
    BY DEF Fallbacks
  <2> HIDE DEF cancels, wanted, at, S, fallbacks
  <2> QED
    BY <1>1, <2>2, <2>3, EarliestOfThose
<1>7. /\ entering \in Seq(Seq(S)) /\ Len(entering) = Len(flows)
      /\ \A g \in 1 .. Len(flows) : Earliest(entering[g], wanted) = Earliest(flows[g], entries)
  <2>1. ASSUME NEW g \in 1 .. Len(flows)
        PROVE  /\ Entries(flows[g]) \in Seq(S)
               /\ Earliest(Entries(flows[g]), wanted) = Earliest(flows[g], entries)
    <3> DEFINE at == {i \in DOMAIN flows[g] : IsEntry(flows[g][i])}
    <3>1. DOMAIN flows[g] = 1 .. Len(flows[g])
      BY <1>1, LenProperties
    <3>2. Narrows(flows[g], at, wanted, entries)
      BY <1>4, <3>1 DEF Narrows
    <3>3. Entries(flows[g]) = Those(flows[g], at)
      BY DEF Entries
    <3> HIDE DEF entries, wanted, at, S
    <3> QED
      BY <1>1, <3>2, <3>3, EarliestOfThose
  <2>2. \A g \in 1 .. Len(flows) : entering[g] = Entries(flows[g])
    BY <1>2, <1>3
  <2>3. entering = [g \in 1 .. Len(flows) |-> entering[g]]
    BY <1>2
  <2> HIDE DEF entering, entries, wanted, S, built
  <2>4. \A g \in 1 .. Len(flows) : entering[g] \in Seq(S)
    BY <2>1, <2>2
  <2> QED
    BY <1>1, <2>1, <2>2, <2>3, <2>4
<1>8. /\ FlattenSeq(entering) \in Seq(S)
      /\ Earliest(FlattenSeq(entering), wanted) = Earliest(all, entries)
  <2> HIDE DEF entering, entries, wanted, S
  <2>1. FlattenSeq(entering) \in Seq(S)
    BY <1>7, ElementsOfParts
  <2>2. \A w, d : \A p, q \in Seq(Seq(S)) :
            Alike(p, w, q, d) => Earliest(FlattenSeq(p), w) = Earliest(FlattenSeq(q), d)
    BY EarliestOfParts
  <2>3. Alike(entering, wanted, flows, entries)
    BY <1>7 DEF Alike
  <2>4. Earliest(FlattenSeq(entering), wanted) = Earliest(FlattenSeq(flows), entries)
    BY <1>1, <1>7, <2>2, <2>3, Zenon
  <2> QED
    BY <2>1, <2>4
<1>9. Candidates(built, run) = (mounted \o fallbacks) \o FlattenSeq(entering)
  <2>1. run.flow = f /\ run.state = state
    OBVIOUS
  <2>2. f \in DOMAIN built
    BY <1>2
  <2> HIDE DEF run, built, mounted, fallbacks
  <2> QED
    BY <1>3, <2>1, <2>2 DEF Candidates
<1> DEFINE a == Earliest(mounted, wanted)
           b == Earliest(fallbacks, wanted)
           c == Earliest(FlattenSeq(entering), wanted)
<1> HIDE DEF mounted, fallbacks, entering, S
<1>10. /\ Candidates(built, run) \in Seq(S)
       /\ Earliest(Candidates(built, run), wanted) = IF a # {} THEN a ELSE IF b # {} THEN b ELSE c
  <2> DEFINE front == mounted \o fallbacks
  <2>1. front \in Seq(S) /\ Earliest(front, wanted) = IF a # {} THEN a ELSE b
    <3>1. front \in Seq(S)
      BY <1>5, <1>6, ElementsOfTwo
    <3>2. Earliest(front, wanted) = IF Earliest(mounted, wanted) # {}
                                    THEN Earliest(mounted, wanted)
                                    ELSE Earliest(fallbacks, wanted)
      <4>1. \A p, q \in Seq(S) : \A w :
                Earliest(p \o q, w)
                = IF Earliest(p, w) # {} THEN Earliest(p, w) ELSE Earliest(q, w)
        BY EarliestOfTwo
      <4> HIDE DEF wanted
      <4> QED
        BY <1>5, <1>6, <4>1, ZenonT(60)
    <3> HIDE DEF front, wanted
    <3> QED
      BY <3>1, <3>2
  <2> DEFINE more == FlattenSeq(entering)
  <2>2. more \in Seq(S)
    BY <1>8
  <2> HIDE DEF front, more, wanted, a, b
  <2>3. /\ front \o more \in Seq(S)
        /\ Earliest(front \o more, wanted)
           = IF Earliest(front, wanted) # {} THEN Earliest(front, wanted)
             ELSE Earliest(more, wanted)
    BY <2>1, <2>2, ConcatProperties, EarliestOfTwo
  <2>4. Candidates(built, run) = front \o more
    BY <1>9 DEF front, more
  <2>5. Earliest(more, wanted) = c
    BY DEF more
  <2> HIDE DEF c
  <2> QED
    BY <2>1, <2>3, <2>4, <2>5
<1>11. CheckUpdate(built, run, update) = Earliest(Candidates(built, run), wanted)
  <2>1. \A s \in S : update \in s.on <=> s \in wanted
    OBVIOUS
  <2> HIDE DEF built, run, wanted
  <2> QED
    BY <1>10, <2>1, ChecksInOrder
<1>12. three = <<a, b, c>>
  BY <1>5, <1>6, <1>8
<1>13. UNION Earliest(three, ToSet(three) \ {{}})
       = IF a # {} THEN a ELSE IF b # {} THEN b ELSE c
  <2> HIDE DEF three, a, b, c
  <2> QED
    BY <1>12, FirstOfThree, ZenonT(60)
<1> HIDE DEF three, a, b, c, built, run, wanted
<1> QED
  BY <1>10, <1>11, <1>13

(***************************************************************************)
(* Menus and /help.                                                        *)
(***************************************************************************)

\* What is chosen from a list.
LEMMA ElementsOfThose ==
    ASSUME NEW S, NEW list \in Seq(S), NEW chosen, chosen \subseteq DOMAIN list
    PROVE  /\ Those(list, chosen) \in Seq(S)
           /\ ToSet(Those(list, chosen)) = {list[i] : i \in chosen}
<1> DEFINE part(i) == IF i \in chosen THEN <<list[i]>> ELSE <<>>
           parts == [i \in 1 .. Len(list) |-> part(i)]
<1>1. /\ Len(list) \in Nat /\ \A i \in 1 .. Len(list) : list[i] \in S
      /\ chosen \subseteq 1 .. Len(list)
  BY LenProperties, ElementOfSeq
<1>2. ASSUME NEW i \in 1 .. Len(list)
      PROVE  /\ part(i) \in Seq(S)
             /\ ToSet(part(i)) = IF i \in chosen THEN {list[i]} ELSE {}
  BY <1>1 DEF ToSet
<1>3. Those(list, chosen) = FlattenSeq(parts)
  BY DEF Those
<1> HIDE DEF part
<1>4. parts \in Seq(Seq(S)) /\ Len(parts) = Len(list)
  BY <1>1, <1>2
<1>5. \A i \in 1 .. Len(list) : ToSet(parts[i]) = IF i \in chosen THEN {list[i]} ELSE {}
  BY <1>2
<1> HIDE DEF parts
<1>6. FlattenSeq(parts) \in Seq(S) /\ ToSet(FlattenSeq(parts)) = Held(parts, Len(parts))
  BY <1>4, ElementsOfParts
<1>7. Held(parts, Len(parts)) = {list[i] : i \in chosen}
  BY <1>1, <1>4, <1>5 DEF Held
<1> QED
  BY <1>3, <1>6, <1>7

\* The registrations there can be, whatever commands are called.
RegSet(CommandSet) ==
    [id : Nat, kind : {"command", "callback", "message"}, command : CommandSet,
     scope : ToSet(Sorted), hidden : BOOLEAN]

\* The commands in a menu are not hidden, and go by different names.
LEMMA MenuElements ==
    ASSUME NEW CommandSet, NEW regs \in Seq(RegSet(CommandSet))
    PROVE  /\ MenuCommands(regs) \in Seq(RegSet(CommandSet))
           /\ \A r \in ToSet(MenuCommands(regs)) : r \in RegSet(CommandSet) /\ ~ r.hidden
           /\ \A r, q \in ToSet(MenuCommands(regs)) : r.command = q.command => r = q
<1> DEFINE shown == {i \in DOMAIN regs : regs[i].kind = "command" /\ ~regs[i].hidden}
           kept == {i \in shown : \A j \in shown : j < i => regs[j].command # regs[i].command}
           menu == Those(regs, kept)
<1>1. MenuCommands(regs) = menu
  BY DEF MenuCommands
<1>2. /\ DOMAIN regs = 1 .. Len(regs) /\ Len(regs) \in Nat
      /\ \A i \in DOMAIN regs : regs[i] \in RegSet(CommandSet)
  BY LenProperties, ElementOfSeq
<1>3. menu \in Seq(RegSet(CommandSet)) /\ ToSet(menu) = {regs[i] : i \in kept}
  <2>1. kept \subseteq DOMAIN regs
    OBVIOUS
  <2> HIDE DEF kept
  <2> QED
    BY <2>1, ElementsOfThose
<1>4. ASSUME NEW i \in kept, NEW j \in kept, regs[i].command = regs[j].command
      PROVE  i = j
  <2>1. ~ (i < j) /\ ~ (j < i)
    BY <1>4
  <2> QED
    BY <1>2, <2>1
<1> HIDE DEF menu
<1>5. \A i \in kept : regs[i] \in RegSet(CommandSet) /\ ~ regs[i].hidden
  BY <1>2
<1> HIDE DEF kept
<1> QED
  BY <1>1, <1>3, <1>4, <1>5

\* Of a scope are the commands of the menu that are declared for it.
LEMMA ScopeElements ==
    ASSUME NEW CommandSet, NEW regs \in Seq(RegSet(CommandSet)), NEW scope
    PROVE  /\ OfScope(regs, scope) \in Seq(RegSet(CommandSet))
           /\ ToSet(OfScope(regs, scope)) = {r \in ToSet(MenuCommands(regs)) : r.scope = scope}
<1> DEFINE menu == MenuCommands(regs)
           at == {i \in DOMAIN menu : menu[i].scope = scope}
<1>1. menu \in Seq(RegSet(CommandSet))
  BY MenuElements
<1>2. OfScope(regs, scope) = Those(menu, at)
  BY DEF OfScope
<1> HIDE DEF menu
<1>3. /\ Those(menu, at) \in Seq(RegSet(CommandSet))
      /\ ToSet(Those(menu, at)) = {menu[i] : i \in at}
  <2>1. at \subseteq DOMAIN menu
    OBVIOUS
  <2> HIDE DEF at
  <2> QED
    BY <1>1, <2>1, ElementsOfThose
<1>4. {menu[i] : i \in at} = {r \in ToSet(menu) : r.scope = scope}
  BY DEF ToSet
<1> QED
  BY <1>2, <1>3, <1>4 DEF menu

\* Of some scopes, those declared for any of them: every scope is among the sorted ones.
LEMMA ScopesElements ==
    ASSUME NEW CommandSet, NEW regs \in Seq(RegSet(CommandSet)), NEW scopes
    PROVE  /\ ByScope(regs, scopes) \in Seq(RegSet(CommandSet))
           /\ ToSet(ByScope(regs, scopes)) =
              {r \in ToSet(MenuCommands(regs)) : r.scope \in scopes}
<1> DEFINE part(n) == IF Sorted[n] \in scopes THEN OfScope(regs, Sorted[n]) ELSE <<>>
           parts == [n \in 1 .. Len(Sorted) |-> part(n)]
           M == ToSet(MenuCommands(regs))
<1>1. Len(Sorted) \in Nat /\ DOMAIN Sorted = 1 .. Len(Sorted)
  BY ScopesAssumption, LenProperties
<1>2. ASSUME NEW n \in 1 .. Len(Sorted)
      PROVE  /\ part(n) \in Seq(RegSet(CommandSet))
             /\ ToSet(part(n)) =
                IF Sorted[n] \in scopes THEN {r \in M : r.scope = Sorted[n]} ELSE {}
  <2>1. CASE Sorted[n] \in scopes
    BY <2>1, ScopeElements
  <2>2. CASE Sorted[n] \notin scopes
    BY <2>2 DEF ToSet
  <2> QED
    BY <2>1, <2>2
<1>3. ByScope(regs, scopes) = FlattenSeq(parts)
  BY DEF ByScope
<1> HIDE DEF part
<1>4. parts \in Seq(Seq(RegSet(CommandSet))) /\ Len(parts) = Len(Sorted)
  BY <1>1, <1>2
<1>5. \A n \in 1 .. Len(Sorted) :
          ToSet(parts[n]) = IF Sorted[n] \in scopes THEN {r \in M : r.scope = Sorted[n]} ELSE {}
  BY <1>2
<1> HIDE DEF parts
<1>6. /\ FlattenSeq(parts) \in Seq(RegSet(CommandSet))
      /\ ToSet(FlattenSeq(parts)) = Held(parts, Len(parts))
  BY <1>4, ElementsOfParts
<1>7. \A r \in M : r.scope \in ToSet(Sorted)
  <2>1. \A r \in M : r \in RegSet(CommandSet)
    BY MenuElements
  <2> HIDE DEF M
  <2> QED
    BY <2>1 DEF RegSet
<1>8. \A r \in M : \E n \in 1 .. Len(Sorted) : r.scope = Sorted[n]
  BY <1>1, <1>7 DEF ToSet
<1> HIDE DEF M
<1>9. Held(parts, Len(parts)) = {r \in M : r.scope \in scopes}
  <2>1. ASSUME NEW r \in Held(parts, Len(parts))
        PROVE  r \in M /\ r.scope \in scopes
    <3>1. PICK n \in 1 .. Len(Sorted) : r \in ToSet(parts[n])
      BY <1>4 DEF Held
    <3> QED
      BY <1>5, <3>1
  <2>2. ASSUME NEW r \in M, r.scope \in scopes
        PROVE  r \in Held(parts, Len(parts))
    <3>1. PICK n \in 1 .. Len(Sorted) : r.scope = Sorted[n]
      BY <1>8
    <3>2. r \in ToSet(parts[n])
      BY <1>5, <2>2, <3>1
    <3> QED
      BY <1>4, <3>2 DEF Held
  <2> QED
    BY <2>1, <2>2
<1> QED
  BY <1>3, <1>6, <1>9 DEF M

\* /help lists the commands of the menu that are in a visible scope.
LEMMA HelpElements ==
    ASSUME NEW CommandSet, NEW regs \in Seq(RegSet(CommandSet)),
           NEW visible, DefaultScope \in visible
    PROVE  ToSet(HelpLists(regs, visible)) = {r \in ToSet(MenuCommands(regs)) : r.scope \in visible}
<1> DEFINE a == OfScope(regs, DefaultScope)
           b == ByScope(regs, visible \ {DefaultScope})
           M == ToSet(MenuCommands(regs))
<1>1. a \in Seq(RegSet(CommandSet)) /\ ToSet(a) = {r \in M : r.scope = DefaultScope}
  BY ScopeElements
<1>2. b \in Seq(RegSet(CommandSet)) /\ ToSet(b) = {r \in M : r.scope \in visible \ {DefaultScope}}
  BY ScopesElements
<1>3. HelpLists(regs, visible) = a \o b
  BY DEF HelpLists
<1> HIDE DEF a, b, M
<1>4. ToSet(a \o b) = ToSet(a) \cup ToSet(b)
  BY <1>1, <1>2, ElementsOfTwo
<1>5. ToSet(a \o b) = {r \in M : r.scope \in visible}
  BY <1>1, <1>2, <1>4
<1> QED
  BY <1>3, <1>5 DEF M

\* What /help <command> knows is what /help lists, one command for a name at most.
LEMMA HelpIsDiscreet ==
    ASSUME NEW CommandSet, NEW regs \in Seq(RegSet(CommandSet)),
           NEW scopeChats, NEW chat, NEW member
    PROVE  HelpShowsOnlyWhatItLists(regs, scopeChats, chat, member)
<1> DEFINE visible == VisibleScopes(chat, scopeChats, regs, member)
           M == ToSet(MenuCommands(regs))
<1>1. DefaultScope \in visible
  BY DEF VisibleScopes
<1> HIDE DEF visible
<1>2. ToSet(HelpLists(regs, visible)) = {r \in M : r.scope \in visible}
  BY <1>1, HelpElements
<1>3. \A r \in M : ~ r.hidden
  BY MenuElements
<1>4. \A r, q \in M : r.command = q.command => r = q
  BY MenuElements
<1>5. ASSUME NEW name
      PROVE  /\ ResolveCommand(regs, visible, name)
                = {r \in ToSet(HelpLists(regs, visible)) : r.command = name}
             /\ Cardinality(ResolveCommand(regs, visible, name)) <= 1
             /\ \A r \in ResolveCommand(regs, visible, name) : ~r.hidden /\ r.scope \in visible
  <2> DEFINE R == ResolveCommand(regs, visible, name)
  <2>1. R = {r \in M : r.command = name /\ r.scope \in visible}
    BY DEF ResolveCommand
  <2> HIDE DEF M, R
  <2>2. \A r, q \in R : r = q
    BY <1>4, <2>1
  <2>3. Cardinality(R) <= 1
    <3>1. CASE R = {}
      BY <3>1, FS_EmptySet
    <3>2. CASE R # {}
      <4>1. PICK r : r \in R
        BY <3>2
      <4>2. R = {r}
        BY <2>2, <4>1
      <4>3. Cardinality({r}) = 1
        BY FS_Singleton
      <4> QED
        BY <4>2, <4>3
    <3> QED
      BY <3>1, <3>2
  <2>4. R = {r \in ToSet(HelpLists(regs, visible)) : r.command = name}
    BY <1>2, <2>1
  <2>5. \A r \in R : ~r.hidden /\ r.scope \in visible
    BY <1>3, <2>1
  <2> QED
    BY <2>3, <2>4, <2>5 DEF R
<1> QED
  BY <1>5 DEF HelpShowsOnlyWhatItLists, visible

\* The menu of a chat lists the default scope first and the scopes that name the chat,
\* as /help does; in a chat that no scope names, nothing but the default scope.
LEMMA MenuIsHelp ==
    ASSUME NEW CommandSet, NEW regs \in Seq(RegSet(CommandSet)), NEW chat,
           NEW scopeChats, DefaultScope \notin DOMAIN scopeChats
    PROVE  MenuIsWhatHelpLists(regs, scopeChats, chat)
<1> DEFINE naming == ScopesNaming(chat, scopeChats)
           chats == UNION {ToSet(scopeChats[s]) : s \in DOMAIN scopeChats}
           a == OfScope(regs, DefaultScope)
<1> SUFFICES ASSUME DOMAIN scopeChats # {}
             PROVE  MenuIn(chat, regs, scopeChats)
                    = HelpLists(regs, VisibleScopes(chat, scopeChats, regs, {}))
  BY DEF MenuIsWhatHelpLists
<1>1. VisibleScopes(chat, scopeChats, regs, {}) = {DefaultScope} \cup naming
  BY DEF VisibleScopes
<1>2. ({DefaultScope} \cup naming) \ {DefaultScope} = naming
  BY DEF ScopesNaming
<1>3. HelpLists(regs, {DefaultScope} \cup naming) = a \o ByScope(regs, naming)
  BY <1>2 DEF HelpLists
<1>4. MenuIn(chat, regs, scopeChats) = IF chat \in chats THEN a \o ByScope(regs, naming) ELSE a
  BY DEF MenuIn, DesiredMenus
<1>5. chat \notin chats => a \o ByScope(regs, naming) = a
  <2> SUFFICES ASSUME chat \notin chats
               PROVE  a \o ByScope(regs, naming) = a
    OBVIOUS
  <2> DEFINE b == ByScope(regs, naming)
  <2>1. naming = {}
    BY DEF ScopesNaming
  <2> HIDE DEF naming
  <2>2. b \in Seq(RegSet(CommandSet)) /\ ToSet(b) = {}
    BY <2>1, ScopesElements
  <2>3. a \in Seq(RegSet(CommandSet))
    BY ScopeElements
  <2> HIDE DEF a, b
  <2>4. DOMAIN b = {}
    BY <2>2 DEF ToSet
  <2>5. b = <<>>
    BY <2>2, <2>4, EmptySeq, LenProperties
  <2>6. a \o <<>> = a
    BY <2>3, ConcatEmptySeq
  <2> QED
    BY <2>5, <2>6 DEF b
<1> HIDE DEF naming, chats, a
<1> QED
  BY <1>1, <1>3, <1>4, <1>5

\* What the steps of a conversation are tried for, whatever is declared in which order:
\* those of the state first, the cancel commands next, entries last.
THEOREM StepsComeAsDeclared ==
    ASSUME NEW States, NEW UpdateSet,
           input.kind = "conversation" =>
               input.flows \in Seq(Seq(StepSet(States, UpdateSet)))
    PROVE  StepsAreTriedAsDeclared
<1> SUFFICES ASSUME input.kind = "conversation",
                    NEW f \in DOMAIN input.flows, NEW state, NEW update
             PROVE  StepsAsDeclared(input.flows, f, state, update)
  BY DEF StepsAreTriedAsDeclared
<1> DEFINE flows == input.flows
<1>1. flows \in Seq(Seq(StepSet(States, UpdateSet))) /\ DOMAIN flows = 1 .. Len(flows)
  BY LenProperties
<1> HIDE DEF flows
<1>2. StepsAsDeclared(flows, f, state, update)
  BY <1>1, StepsTriedInOrder DEF flows
<1> QED
  BY <1>2 DEF flows

\* The menu of a chat is what /help lists there, and /help <command> knows no other
\* command, for any declared commands and scopes.
THEOREM HelpIsTheMenu ==
    ASSUME NEW CommandSet,
           input.kind = "menu" => /\ input.regs \in Seq(RegSet(CommandSet))
                                  /\ DefaultScope \notin DOMAIN input.scopeChats
    PROVE  HelpAgreesWithMenus
  BY HelpIsDiscreet, MenuIsHelp DEF HelpAgreesWithMenus

(***************************************************************************)
(* The words of a line.                                                    *)
(***************************************************************************)

\* Two lists of parts, one after the other.
LEMMA PartsOfTwo ==
    ASSUME NEW S, NEW p \in Seq(Seq(S)), NEW q \in Seq(Seq(S))
    PROVE  /\ p \o q \in Seq(Seq(S))
           /\ FlattenSeq(p) \in Seq(S) /\ FlattenSeq(q) \in Seq(S)
           /\ FlattenSeq(p \o q) = FlattenSeq(p) \o FlattenSeq(q)
<1> DEFINE both == p \o q
           m == Len(p)
           n == Len(q)
<1>1. /\ m \in Nat /\ n \in Nat /\ both \in Seq(Seq(S)) /\ Len(both) = m + n
      /\ \A i \in 1 .. m : both[i] = p[i]
      /\ \A i \in m + 1 .. m + n : both[i] = q[i - m]
  BY LenProperties, JoinedTwo
<1> HIDE DEF both
<1>2. PICK jp : Joins(p, jp)
  BY PartByPart
<1>3. PICK jq : Joins(q, jq)
  BY PartByPart
<1>4. PICK jb : Joins(both, jb)
  BY <1>1, PartByPart
<1>5. /\ jp[0] = <<>> /\ jq[0] = <<>> /\ jb[0] = <<>>
      /\ \A i \in 1 .. m : jp[i] = jp[i - 1] \o p[i]
      /\ \A i \in 1 .. n : jq[i] = jq[i - 1] \o q[i]
      /\ \A i \in 1 .. m + n : jb[i] = jb[i - 1] \o both[i]
      /\ FlattenSeq(p) = jp[m] /\ FlattenSeq(q) = jq[n] /\ FlattenSeq(both) = jb[m + n]
  BY <1>1, <1>2, <1>3, <1>4 DEF Joins
<1>6. /\ \A i \in 1 .. m : p[i] \in Seq(S)
      /\ \A i \in 1 .. n : q[i] \in Seq(S)
  BY ElementOfSeq
<1> HIDE DEF m, n
<1> DEFINE T == {i \in Nat : i <= m => jb[i] = jp[i] /\ jp[i] \in Seq(S)}
<1>7. 0 \in T
  BY <1>5, EmptySeq
<1>8. ASSUME NEW i \in Nat, i \in T
      PROVE  i + 1 \in T
  <2> SUFFICES ASSUME i + 1 <= m
               PROVE  jb[i + 1] = jp[i + 1] /\ jp[i + 1] \in Seq(S)
    OBVIOUS
  <2>1. /\ i + 1 \in 1 .. m /\ i + 1 \in 1 .. m + n /\ (i + 1) - 1 = i /\ i <= m
    BY <1>1
  <2>2. jb[i] = jp[i] /\ jp[i] \in Seq(S)
    BY <1>8, <2>1
  <2>3. jb[i + 1] = jb[i] \o p[i + 1] /\ jp[i + 1] = jp[i] \o p[i + 1]
    BY <1>1, <1>5, <2>1
  <2>4. p[i + 1] \in Seq(S)
    BY <1>6, <2>1
  <2> QED
    BY <2>2, <2>3, <2>4, ConcatProperties
<1>9. jb[m] = jp[m] /\ jp[m] \in Seq(S)
  <2>1. Nat \subseteq T
    <3> HIDE DEF T
    <3> QED
      BY <1>7, <1>8, Climb
  <2> QED
    BY <1>1, <2>1
<1> DEFINE Right(i) == jb[m + i] = jp[m] \o jq[i] /\ jq[i] \in Seq(S)
           U == {i \in Nat : i <= n => Right(i)}
<1>10. 0 \in U
  <2>1. jp[m] \o <<>> = jp[m]
    BY <1>9, ConcatEmptySeq
  <2>2. m + 0 = m
    BY <1>1
  <2> QED
    BY <1>5, <1>9, <2>1, <2>2, EmptySeq
<1>11. ASSUME NEW i \in Nat, i \in U
       PROVE  i + 1 \in U
  <2> SUFFICES ASSUME i + 1 <= n
               PROVE  Right(i + 1)
    <3> HIDE DEF Right
    <3> QED
      OBVIOUS
  <2> DEFINE x == q[i + 1]
             front == jp[m]
             was == jq[i]
  <2>1. /\ i + 1 \in 1 .. n /\ (i + 1) - 1 = i /\ i <= n
        /\ m + (i + 1) \in 1 .. m + n /\ m + (i + 1) \in m + 1 .. m + n
        /\ (m + (i + 1)) - 1 = m + i /\ (m + (i + 1)) - m = i + 1
    BY <1>1
  <2>2. jb[m + i] = front \o was /\ was \in Seq(S)
    <3>1. Right(i)
      <4> HIDE DEF Right
      <4> QED
        BY <1>11, <2>1
    <3> QED
      BY <3>1
  <2>3. jb[m + (i + 1)] = jb[m + i] \o x
    <3>1. both[m + (i + 1)] = x
      BY <1>1, <2>1
    <3> QED
      BY <1>5, <2>1, <3>1
  <2>4. jq[i + 1] = was \o x
    BY <1>5, <2>1
  <2>5. x \in Seq(S) /\ front \in Seq(S)
    BY <1>6, <1>9, <2>1
  <2> HIDE DEF x, front, was
  <2>6. (front \o was) \o x = front \o (was \o x)
    BY <2>2, <2>5, ConcatAssociative, SMTT(40)
  <2>7. was \o x \in Seq(S)
    BY <2>2, <2>5, ConcatProperties
  <2> QED
    BY <2>2, <2>3, <2>4, <2>6, <2>7 DEF front
<1>12. Right(n)
  <2>1. Nat \subseteq U
    <3> HIDE DEF U
    <3> QED
      BY <1>10, <1>11, Climb
  <2>2. n \in U
    <3> HIDE DEF U
    <3> QED
      BY <1>1, <2>1
  <2> HIDE DEF Right
  <2> QED
    BY <1>1, <2>2
<1> QED
  BY <1>1, <1>5, <1>9, <1>12 DEF both

\* A text, word by word.
WordByWord(text) == [i \in 1 .. Len(text) |-> IF text[i] \in Words THEN <<text[i]>> ELSE <<>>]

LEMMA WordsAre ==
    ASSUME NEW S, NEW text \in Seq(S)
    PROVE  /\ WordByWord(text) \in Seq(Seq(S)) /\ Len(WordByWord(text)) = Len(text)
           /\ \A i \in 1 .. Len(text) :
                 WordByWord(text)[i] = IF text[i] \in Words THEN <<text[i]>> ELSE <<>>
           /\ WordsOf(text) = FlattenSeq(WordByWord(text))
           /\ WordsOf(text) \in Seq(S)
<1> DEFINE l == Len(text)
           part(i) == IF text[i] \in Words THEN <<text[i]>> ELSE <<>>
           chosen == {i \in DOMAIN text : text[i] \in Words}
           parts == [i \in 1 .. l |-> part(i)]
<1>1. l \in Nat /\ DOMAIN text = 1 .. l /\ \A i \in 1 .. l : text[i] \in S
  BY LenProperties, ElementOfSeq
<1>2. \A i \in 1 .. l : part(i) \in Seq(S)
  BY <1>1
<1>3. WordsOf(text) = FlattenSeq(parts)
  <2>1. parts = [i \in 1 .. l |-> IF i \in chosen THEN <<text[i]>> ELSE <<>>]
    BY <1>1
  <2> QED
    BY <2>1 DEF WordsOf, Those
<1>4. WordByWord(text) = parts
  BY DEF WordByWord
<1>5. \A i \in 1 .. l : parts[i] = part(i)
  OBVIOUS
<1> HIDE DEF part, l
<1>6. parts \in [1 .. l -> Seq(S)]
  BY <1>2
<1> HIDE DEF parts
<1>7. parts \in Seq(Seq(S)) /\ Len(parts) = l
  BY <1>1, <1>6, <1>4 DEF WordByWord
<1>8. FlattenSeq(parts) \in Seq(S)
  BY <1>7, ElementsOfParts
<1> QED
  BY <1>3, <1>4, <1>5, <1>7, <1>8 DEF part, l

\* The words of two texts, one after the other.
LEMMA WordsOfTwo ==
    ASSUME NEW S, NEW a \in Seq(S), NEW b \in Seq(S)
    PROVE  WordsOf(a \o b) = WordsOf(a) \o WordsOf(b)
<1> DEFINE ab == a \o b
           m == Len(a)
           n == Len(b)
           p == WordByWord(a)
           q == WordByWord(b)
           pq == WordByWord(ab)
<1>1. /\ m \in Nat /\ n \in Nat /\ ab \in Seq(S) /\ Len(ab) = m + n
      /\ \A i \in 1 .. m : ab[i] = a[i]
      /\ \A i \in m + 1 .. m + n : ab[i] = b[i - m]
  BY LenProperties, JoinedTwo
<1>2. /\ p \in Seq(Seq(S)) /\ Len(p) = m /\ WordsOf(a) = FlattenSeq(p)
      /\ \A i \in 1 .. m : p[i] = IF a[i] \in Words THEN <<a[i]>> ELSE <<>>
  BY WordsAre
<1>3. /\ q \in Seq(Seq(S)) /\ Len(q) = n /\ WordsOf(b) = FlattenSeq(q)
      /\ \A i \in 1 .. n : q[i] = IF b[i] \in Words THEN <<b[i]>> ELSE <<>>
  BY WordsAre
<1> HIDE DEF ab
<1>4. /\ pq \in Seq(Seq(S)) /\ Len(pq) = m + n /\ WordsOf(ab) = FlattenSeq(pq)
      /\ \A i \in 1 .. m + n : pq[i] = IF ab[i] \in Words THEN <<ab[i]>> ELSE <<>>
  BY <1>1, WordsAre
<1> HIDE DEF m, n, p, q, pq
<1> DEFINE joined == p \o q
           SS == Seq(S)
<1>5. /\ joined \in Seq(SS) /\ Len(joined) = m + n
      /\ \A i \in 1 .. m : joined[i] = p[i]
      /\ \A i \in m + 1 .. m + n : joined[i] = q[i - m]
  <2>1. p \in Seq(SS) /\ q \in Seq(SS)
    BY <1>2, <1>3
  <2> HIDE DEF SS
  <2>2. LET t == p \o q
        IN /\ t \in Seq(SS) /\ Len(t) = Len(p) + Len(q)
           /\ \A i \in 1 .. Len(p) : t[i] = p[i]
           /\ \A i \in Len(p) + 1 .. Len(p) + Len(q) : t[i] = q[i - Len(p)]
    BY <2>1, JoinedTwo, Zenon
  <2> QED
    BY <1>2, <1>3, <2>2
<1> HIDE DEF joined
<1>6. \A i \in 1 .. m + n : joined[i] = pq[i]
  <2> TAKE i \in 1 .. m + n
  <2>1. CASE i \in 1 .. m
    <3>1. joined[i] = p[i] /\ ab[i] = a[i]
      BY <1>1, <1>5, <2>1
    <3> QED
      BY <1>2, <1>4, <2>1, <3>1
  <2>2. CASE ~ (i \in 1 .. m)
    <3>1. i \in m + 1 .. m + n /\ i - m \in 1 .. n
      BY <1>1, <2>2
    <3>2. joined[i] = q[i - m] /\ ab[i] = b[i - m]
      BY <1>1, <1>5, <3>1
    <3> QED
      BY <1>3, <1>4, <3>1, <3>2
  <2> QED
    BY <2>1, <2>2
<1>7. joined = pq
  <2>1. joined \in Seq(SS) /\ pq \in Seq(SS) /\ Len(joined) = Len(pq)
        /\ \A i \in 1 .. Len(joined) : joined[i] = pq[i]
    BY <1>4, <1>5, <1>6
  <2> HIDE DEF SS
  <2> QED
    BY <2>1, SeqEqual
<1>8. FlattenSeq(joined) = FlattenSeq(p) \o FlattenSeq(q)
  BY <1>2, <1>3, PartsOfTwo DEF joined
<1> QED
  BY <1>2, <1>3, <1>4, <1>7, <1>8 DEF ab

\* Separators have no words; a word is one.
LEMMA WordsOfFew ==
    ASSUME NEW S
    PROVE  /\ \A text \in Seq(S) : (\A i \in 1 .. Len(text) : text[i] \notin Words)
                 => WordsOf(text) = <<>>
           /\ \A w \in Words : WordsOf(<<w>>) = <<w>>
<1>1. ASSUME NEW text \in Seq(S), \A i \in 1 .. Len(text) : text[i] \notin Words
      PROVE  WordsOf(text) = <<>>
  <2> DEFINE parts == WordByWord(text)
             l == Len(text)
             none == <<>>
  <2>1. /\ parts \in Seq(Seq(S)) /\ Len(parts) = l /\ l \in Nat
        /\ \A i \in 1 .. l : parts[i] = none
        /\ WordsOf(text) = FlattenSeq(parts)
    BY <1>1, WordsAre, LenProperties
  <2>2. none \o none = none
    BY EmptySeq, ConcatEmptySeq
  <2> HIDE DEF parts, l
  <2>3. PICK j : Joins(parts, j)
    BY <2>1, PartByPart
  <2>4. /\ j[0] = none /\ FlattenSeq(parts) = j[l]
        /\ \A i \in 1 .. l : j[i] = j[i - 1] \o none
    BY <2>1, <2>3 DEF Joins
  <2> HIDE DEF none
  <2> DEFINE T == {i \in Nat : i <= l => j[i] = none}
  <2>5. 0 \in T
    BY <2>4
  <2>6. ASSUME NEW i \in Nat, i \in T
        PROVE  i + 1 \in T
    <3> SUFFICES ASSUME i + 1 <= l
                 PROVE  j[i + 1] = none
      OBVIOUS
    <3>1. i + 1 \in 1 .. l /\ (i + 1) - 1 = i /\ i <= l
      BY <2>1
    <3>2. j[i] = none
      BY <2>6, <3>1
    <3>3. j[i + 1] = j[(i + 1) - 1] \o none
      BY <2>4, <3>1
    <3> QED
      BY <2>2, <3>1, <3>2, <3>3
  <2>7. Nat \subseteq T
    <3> HIDE DEF T
    <3> QED
      BY <2>5, <2>6, Climb
  <2>8. j[l] = none
    BY <2>1, <2>7
  <2> QED
    BY <2>1, <2>4, <2>8 DEF none
<1>2. ASSUME NEW w \in Words
      PROVE  WordsOf(<<w>>) = <<w>>
  <2> DEFINE one == <<w>>
             parts == WordByWord(one)
  <2>1. one \in Seq(Words) /\ Len(one) = 1 /\ one[1] = w
    OBVIOUS
  <2> HIDE DEF one
  <2>2. /\ parts \in Seq(Seq(Words)) /\ Len(parts) = 1
        /\ \A i \in 1 .. 1 : parts[i] = IF one[i] \in Words THEN <<one[i]>> ELSE <<>>
        /\ WordsOf(one) = FlattenSeq(parts)
    BY <2>1, WordsAre
  <2>3. parts[1] = <<w>>
    BY <2>1, <2>2
  <2> HIDE DEF parts
  <2>4. PICK j : Joins(parts, j)
    BY <2>2, PartByPart
  <2>5. j[0] = <<>> /\ FlattenSeq(parts) = j[1] /\ j[1] = j[1 - 1] \o parts[1]
    BY <2>2, <2>4 DEF Joins
  <2>6. FlattenSeq(parts) = <<>> \o one
    <3>1. 1 - 1 = 0
      OBVIOUS
    <3> QED
      BY <2>3, <2>5, <3>1 DEF one
  <2>7. <<>> \o one = one
    BY <2>1, ConcatEmptySeq
  <2> QED
    BY <2>2, <2>6, <2>7 DEF one
<1> QED
  BY <1>1, <1>2

\* A set of numbers up to a bound has a greatest one.
LEMMA MaxIsGreatest ==
    ASSUME NEW n \in Nat, NEW T, T \subseteq 1 .. n, T # {}
    PROVE  Max(T) \in T /\ \A y \in T : y <= Max(T)
<1> DEFINE D == {n - x : x \in T}
<1>1. \A x \in T : x \in Nat /\ x >= 1 /\ x <= n /\ n - x \in Nat
  OBVIOUS
<1>2. D \subseteq Nat /\ D # {}
  BY <1>1
<1>3. PICK d \in D : \A y \in D : d <= y
  <2> HIDE DEF D
  <2> QED
    BY <1>2, Smallest
<1>4. PICK g \in T : d = n - g
  OBVIOUS
<1>5. \A y \in T : g >= y
  <2> TAKE y \in T
  <2>1. n - g <= n - y
    BY <1>3, <1>4
  <2> QED
    BY <1>1, <2>1
<1>6. Max(T) \in T /\ \A y \in T : Max(T) >= y
  BY <1>5 DEF Max
<1> HIDE DEF D
<1> QED
  BY <1>1, <1>6

\* A part of a text.
LEMMA PartOfText ==
    ASSUME NEW S, NEW text \in Seq(S), Apart(text),
           NEW m \in Nat, m >= 1, NEW n \in Nat, n <= Len(text)
    PROVE  /\ SubSeq(text, m, n) \in Seq(S) /\ Apart(SubSeq(text, m, n))
           /\ Len(SubSeq(text, m, n)) = IF m <= n THEN n - m + 1 ELSE 0
           /\ \A i \in 1 .. n - m + 1 : SubSeq(text, m, n)[i] = text[m + i - 1]
<1> DEFINE part == SubSeq(text, m, n)
           l == Len(text)
<1>1. l \in Nat /\ \A i \in 1 .. l : text[i] \in S
  BY LenProperties, ElementOfSeq
<1>2. \A i \in m .. n : text[i] \in S
  <2>1. \A i \in m .. n : i \in 1 .. l
    BY <1>1
  <2> QED
    BY <1>1, <2>1
<1>3. /\ part \in Seq(S)
      /\ Len(part) = IF m <= n THEN n - m + 1 ELSE 0
      /\ \A i \in 1 .. n - m + 1 : part[i] = text[m + i - 1]
  BY <1>2, SubSeqProperties
<1> HIDE DEF part
<1>4. ASSUME NEW i \in 1 .. Len(part) - 1
      PROVE  {part[i], part[i + 1]} \cap Separators # {}
  <2>1. Len(part) = n - m + 1
    BY <1>3
  <2>2. /\ i \in 1 .. n - m + 1 /\ i + 1 \in 1 .. n - m + 1
        /\ m + i - 1 \in 1 .. l - 1 /\ m + (i + 1) - 1 = (m + i - 1) + 1
    BY <1>1, <2>1
  <2>3. part[i] = text[m + i - 1] /\ part[i + 1] = text[(m + i - 1) + 1]
    BY <1>3, <2>2
  <2> QED
    BY <2>2, <2>3 DEF Apart
<1> QED
  BY <1>3, <1>4 DEF Apart, part

\* A text is cut in two.
LEMMA CutText ==
    ASSUME NEW S, NEW text \in Seq(S), NEW k \in 0 .. Len(text)
    PROVE  /\ SubSeq(text, 1, k) \in Seq(S) /\ SubSeq(text, k + 1, Len(text)) \in Seq(S)
           /\ SubSeq(text, 1, k) \o SubSeq(text, k + 1, Len(text)) = text
           /\ WordsOf(text) = WordsOf(SubSeq(text, 1, k)) \o WordsOf(SubSeq(text, k + 1, Len(text)))
<1> DEFINE l == Len(text)
           a == SubSeq(text, 1, k)
           b == SubSeq(text, k + 1, l)
<1>1. l \in Nat /\ k \in Nat /\ k <= l /\ \A i \in 1 .. l : text[i] \in S
  BY LenProperties, ElementOfSeq
<1>2. a \in Seq(S)
  <2>1. \A i \in 1 .. k : text[i] \in S
    BY <1>1
  <2> QED
    BY <1>1, <2>1, SubSeqProperties
<1>3. b \in Seq(S)
  <2>1. \A i \in k + 1 .. l : text[i] \in S
    BY <1>1
  <2> QED
    BY <1>1, <2>1, SubSeqProperties
<1>4. a \o b = text
  <2>1. 1 \in 1 .. l + 1 /\ k \in 1 - 1 .. l /\ l \in k .. l
    BY <1>1
  <2>2. a \o b = SubSeq(text, 1, l)
    BY <2>1, ConcatAdjacentSubSeq
  <2> QED
    BY <2>2, SubSeqFull
<1> HIDE DEF a, b
<1>5. WordsOf(a \o b) = WordsOf(a) \o WordsOf(b)
  BY <1>2, <1>3, WordsOfTwo
<1> QED
  BY <1>2, <1>3, <1>4, <1>5 DEF a, b, l

\* A text that starts with a word, if there is anything in it.
Stripped(text) == Apart(text) /\ (text # <<>> => text[1] \in Words)

\* strip takes no word off.
LEMMA StripKeepsWords ==
    ASSUME NEW S, NEW text \in Seq(S), Apart(text)
    PROVE  /\ Strip(text) \in Seq(S) /\ Stripped(Strip(text))
           /\ WordsOf(Strip(text)) = WordsOf(text)
<1> DEFINE l == Len(text)
           kept == {i \in DOMAIN text : text[i] \in Words}
           from == Min(kept)
           to == Max(kept)
           strip == SubSeq(text, from, to)
           a == SubSeq(text, 1, from - 1)
           front == SubSeq(text, 1, to)
           b == SubSeq(text, to + 1, l)
           none == <<>>
<1>1. l \in Nat /\ DOMAIN text = 1 .. l
  BY LenProperties
<1>2. kept \subseteq 1 .. l
  BY <1>1
<1>3. CASE kept = {}
  <2>1. Strip(text) = none
    BY <1>3 DEF Strip
  <2>2. \A i \in 1 .. l : text[i] \notin Words
    BY <1>1, <1>3
  <2>3. WordsOf(text) = none
    BY <2>2, WordsOfFew
  <2>4. none \in Seq(S) /\ Len(none) = 0
    BY EmptySeq
  <2>5. WordsOf(none) = none
    <3>1. \A i \in 1 .. Len(none) : none[i] \notin Words
      BY <2>4
    <3> QED
      BY <2>4, <3>1, WordsOfFew
  <2>6. Stripped(none)
    BY <2>4 DEF Stripped, Apart
  <2> QED
    BY <2>1, <2>3, <2>4, <2>5, <2>6
<1>4. CASE kept # {}
  <2>1. Strip(text) = strip
    BY <1>4 DEF Strip
  <2>2. from \in kept /\ \A i \in kept : from <= i
    <3>1. kept \subseteq Nat
      BY <1>2
    <3> HIDE DEF kept
    <3> QED
      BY <1>4, <3>1, MinIsLeast
  <2>3. to \in kept /\ \A i \in kept : i <= to
    <3> HIDE DEF kept
    <3> QED
      BY <1>1, <1>2, <1>4, MaxIsGreatest
  <2>4. /\ \A i \in 1 .. l : text[i] \in Words => from <= i /\ i <= to
        /\ text[from] \in Words
    BY <1>1, <2>2, <2>3
  <2> HIDE DEF kept, from, to
  <2>5. from \in Nat /\ to \in Nat /\ 1 <= from /\ from <= to /\ to <= l
    BY <1>1, <1>2, <2>2, <2>3
  <2>6. /\ strip \in Seq(S) /\ Apart(strip) /\ Len(strip) = to - from + 1
        /\ strip[1] = text[from]
    <3>1. /\ strip \in Seq(S) /\ Apart(strip)
          /\ Len(strip) = IF from <= to THEN to - from + 1 ELSE 0
          /\ \A i \in 1 .. to - from + 1 : strip[i] = text[from + i - 1]
      BY <2>5, PartOfText
    <3>2. 1 \in 1 .. to - from + 1 /\ from + 1 - 1 = from
      BY <2>5
    <3> HIDE DEF strip
    <3> QED
      BY <2>5, <3>1, <3>2
  <2>7. Stripped(strip)
    BY <2>4, <2>6 DEF Stripped
  <2>8. /\ front \in Seq(S) /\ WordsOf(text) = WordsOf(front) \o WordsOf(b)
        /\ b \in Seq(S)
    <3>1. to \in 0 .. Len(text)
      BY <2>5
    <3> QED
      BY <3>1, CutText
  <2>9. WordsOf(b) = none
    <3>1. /\ Len(b) = IF to + 1 <= l THEN l - (to + 1) + 1 ELSE 0
          /\ \A i \in 1 .. l - (to + 1) + 1 : b[i] = text[(to + 1) + i - 1]
      <4>1. to + 1 \in Nat /\ to + 1 >= 1 /\ l <= Len(text)
        BY <1>1, <2>5
      <4> QED
        BY <1>1, <4>1, PartOfText
    <3> HIDE DEF b
    <3>2. ASSUME NEW i \in 1 .. Len(b)
          PROVE  b[i] \notin Words
      <4>1. /\ i \in 1 .. l - (to + 1) + 1 /\ (to + 1) + i - 1 \in 1 .. l
            /\ ~ ((to + 1) + i - 1 <= to)
        <5> DEFINE n == Len(b)
        <5>1. n = IF to + 1 <= l THEN l - (to + 1) + 1 ELSE 0
          BY <3>1
        <5>2. i \in 1 .. n
          OBVIOUS
        <5> HIDE DEF n, l
        <5>3. to + 1 <= l /\ n = l - (to + 1) + 1
          BY <1>1, <2>5, <5>1, <5>2
        <5> QED
          BY <1>1, <2>5, <5>2, <5>3
      <4> QED
        BY <2>4, <3>1, <4>1
    <3> QED
      BY <2>8, <3>2, WordsOfFew
  <2>10. Len(front) = to /\ \A i \in 1 .. to : front[i] = text[i]
    <3>1. /\ Len(front) = IF 1 <= to THEN to - 1 + 1 ELSE 0
          /\ \A i \in 1 .. to - 1 + 1 : front[i] = text[1 + i - 1]
      BY <1>1, <2>5, PartOfText
    <3>2. /\ 1 <= to /\ to - 1 + 1 = to
          /\ \A i \in 1 .. to : 1 + i - 1 = i /\ i \in 1 .. to - 1 + 1
      BY <2>5
    <3> HIDE DEF front
    <3> QED
      BY <3>1, <3>2
  <2>11. /\ a \in Seq(S) /\ front = a \o strip
         /\ Len(a) = from - 1 /\ \A i \in 1 .. Len(a) : a[i] = text[i]
    <3>1. /\ 1 \in 1 .. l + 1 /\ from - 1 \in 1 - 1 .. l /\ to \in from - 1 .. l
          /\ (from - 1) + 1 = from
      BY <1>1, <2>5
    <3>2. SubSeq(text, 1, from - 1) \o SubSeq(text, (from - 1) + 1, to) = SubSeq(text, 1, to)
      BY <3>1, ConcatAdjacentSubSeq
    <3>3. /\ a \in Seq(S)
          /\ Len(a) = IF 1 <= from - 1 THEN (from - 1) - 1 + 1 ELSE 0
          /\ \A i \in 1 .. (from - 1) - 1 + 1 : a[i] = text[1 + i - 1]
      <4>1. from - 1 \in Nat /\ from - 1 <= Len(text)
        BY <2>5
      <4> QED
        BY <4>1, PartOfText
    <3>4. /\ (from - 1) - 1 + 1 = from - 1
          /\ \A i \in 1 .. from - 1 : 1 + i - 1 = i
          /\ ~ (1 <= from - 1) => from - 1 = 0
      BY <2>5
    <3>5. front = a \o strip
      BY <3>1, <3>2
    <3> HIDE DEF a, front, strip
    <3>6. Len(a) = from - 1
      BY <3>3, <3>4
    <3> QED
      BY <3>3, <3>4, <3>5, <3>6
  <2>12. WordsOf(a) = none
    <3>1. ASSUME NEW i \in 1 .. Len(a)
          PROVE  a[i] \notin Words
      <4>1. i \in 1 .. l /\ ~ (from <= i)
        BY <1>1, <2>5, <2>11
      <4> QED
        BY <2>4, <2>11, <4>1
    <3> QED
      BY <2>11, <3>1, WordsOfFew
  <2>13. WordsOf(front) = WordsOf(a) \o WordsOf(strip)
    <3> HIDE DEF a, strip, front
    <3> QED
      BY <2>6, <2>11, WordsOfTwo
  <2>14. WordsOf(strip) \in Seq(S) /\ WordsOf(front) \in Seq(S)
    <3> HIDE DEF strip, front
    <3> QED
      BY <2>6, <2>8, WordsAre
  <2>15. none \o WordsOf(strip) = WordsOf(strip) /\ WordsOf(front) \o none = WordsOf(front)
    BY <2>14, ConcatEmptySeq
  <2>16. WordsOf(strip) = WordsOf(text)
    <3> HIDE DEF strip, front, a, b, none
    <3> QED
      BY <2>8, <2>9, <2>12, <2>13, <2>15
  <2> QED
    BY <2>1, <2>6, <2>7, <2>16
<1> QED
  BY <1>3, <1>4

\* What a line is made of, if there is no line break in it.
Letters == Words \cup {Space}

\* One letter of a text.
LEMMA OneOfText ==
    ASSUME NEW S, NEW text \in Seq(S), NEW k \in 1 .. Len(text)
    PROVE  /\ SubSeq(text, k, k) = <<text[k]>>
           /\ text[k] \in Words => WordsOf(SubSeq(text, k, k)) = <<text[k]>>
           /\ text[k] \notin Words => WordsOf(SubSeq(text, k, k)) = <<>>
<1> DEFINE one == <<text[k]>>
           sub == SubSeq(text, k, k)
<1>1. Len(text) \in Nat /\ k \in Nat /\ k >= 1 /\ k <= Len(text) /\ text[k] \in S
  BY LenProperties, ElementOfSeq
<1>2. one \in Seq(S) /\ Len(one) = 1 /\ one[1] = text[k]
  BY <1>1
<1>3. sub \in Seq(S) /\ Len(sub) = 1 /\ sub[1] = text[k]
  <2>1. \A i \in k .. k : text[i] \in S
    BY <1>1
  <2>2. /\ sub \in Seq(S) /\ Len(sub) = IF k <= k THEN k - k + 1 ELSE 0
        /\ \A i \in 1 .. k - k + 1 : sub[i] = text[k + i - 1]
    BY <1>1, <2>1, SubSeqProperties
  <2>3. 1 \in 1 .. k - k + 1 /\ k + 1 - 1 = k /\ k - k + 1 = 1 /\ k <= k
    BY <1>1
  <2> HIDE DEF sub
  <2> QED
    BY <2>2, <2>3
<1> HIDE DEF one, sub
<1>4. \A i \in 1 .. Len(one) : sub[i] = one[i]
  BY <1>2, <1>3
<1>5. sub = one
  BY <1>2, <1>3, <1>4, SeqEqual
<1>6. text[k] \in Words => WordsOf(one) = one
  BY WordsOfFew DEF one
<1>7. text[k] \notin Words => WordsOf(one) = <<>>
  <2> SUFFICES ASSUME text[k] \notin Words
               PROVE  WordsOf(one) = <<>>
    OBVIOUS
  <2>1. \A i \in 1 .. Len(one) : one[i] \notin Words
    BY <1>2
  <2> QED
    BY <1>2, <2>1, WordsOfFew
<1> QED
  BY <1>5, <1>6, <1>7 DEF one, sub

\* Up to its first space.
LEMMA CutAtSpace ==
    ASSUME NEW S, NEW text \in Seq(S), NEW k \in 1 .. Len(text), text[k] = Space,
           \A i \in 1 .. k - 1 : text[i] # Space
    PROVE  Before(text) = SubSeq(text, 1, k - 1) /\ After(text) = SubSeq(text, k + 1, Len(text))
<1> DEFINE spaces == {i \in DOMAIN text : text[i] = Space}
           l == Len(text)
<1>1. l \in Nat /\ DOMAIN text = 1 .. l /\ k \in Nat /\ k >= 1 /\ k <= l
      /\ \A i \in 1 .. l : text[i] \in S
  BY LenProperties, ElementOfSeq
<1>2. k \in spaces /\ spaces \subseteq Nat
  BY <1>1
<1>3. \A i \in spaces : k <= i
  <2> TAKE i \in spaces
  <2>1. i \in Nat /\ i >= 1 /\ text[i] = Space
    BY <1>1
  <2>2. ~ (i \in 1 .. k - 1)
    BY <2>1
  <2> QED
    BY <1>1, <2>1, <2>2
<1> HIDE DEF spaces
<1>4. Min(spaces) = k
  <2>1. spaces # {}
    BY <1>2
  <2>2. Min(spaces) \in spaces /\ Min(spaces) <= k
    BY <1>2, <2>1, MinIsLeast
  <2> DEFINE m == Min(spaces)
  <2> HIDE DEF m
  <2>3. m \in Nat /\ m <= k /\ k <= m
    BY <1>2, <1>3, <2>2 DEF m
  <2>4. m = k
    BY <1>1, <2>3
  <2> QED
    BY <2>4 DEF m
<1>5. Before(text) = SubSeq(text, 1, k - 1)
  BY <1>2, <1>4 DEF Before, spaces
<1>6. Len(SubSeq(text, 1, k - 1)) = k - 1
  <2> DEFINE sub == SubSeq(text, 1, k - 1)
  <2>1. \A i \in 1 .. k - 1 : text[i] \in S
    BY <1>1
  <2>2. Len(sub) = IF 1 <= k - 1 THEN (k - 1) - 1 + 1 ELSE 0
    BY <1>1, <2>1, SubSeqProperties
  <2> HIDE DEF sub
  <2>3. Len(sub) = k - 1
    BY <1>1, <2>2
  <2> QED
    BY <2>3 DEF sub
<1>7. (k - 1) + 2 = k + 1
  BY <1>1
<1> QED
  BY <1>5, <1>6, <1>7 DEF After

\* After the command comes a space; no word is lost with it.
LEMMA TextOfCommand ==
    ASSUME NEW message \in Seq(Letters), Apart(message), message # <<>> => message[1] = Space
    PROVE  /\ CommandArgText(message) \in Seq(Letters) /\ Apart(CommandArgText(message))
           /\ WordsOf(CommandArgText(message)) = WordsOf(message)
<1> DEFINE l == Len(message)
           rest == SubSeq(message, 2, l)
<1>1. l \in Nat
  BY LenProperties
<1>2. CASE l = 0
  <2> DEFINE none == <<>>
  <2>1. message = none
    BY <1>2, EmptySeq
  <2>2. Len(none) = 0 /\ none \in Seq(Letters)
    BY EmptySeq
  <2>3. Before(none) = none
    <3>1. {i \in DOMAIN none : none[i] = Space} = {}
      OBVIOUS
    <3> QED
      BY <3>1 DEF Before
  <2>4. After(none) = none
    <3>1. After(none) = SubSeq(none, 0 + 2, 0)
      BY <2>2, <2>3 DEF After
    <3>2. SubSeq(none, 2, 0) = none
      BY SubSeqEmpty
    <3> QED
      BY <3>1, <3>2
  <2> HIDE DEF none
  <2> QED
    BY <2>1, <2>4 DEF CommandArgText
<1>3. CASE l # 0
  <2>1. 1 \in 1 .. Len(message) /\ 1 .. 1 - 1 = {} /\ 1 + 1 = 2 /\ 2 \in Nat /\ 2 >= 1
    BY <1>1, <1>3
  <2>2. message # <<>>
    BY <1>3, EmptySeq
  <2>3. After(message) = rest
    BY <2>1, <2>2, CutAtSpace
  <2>4. rest \in Seq(Letters) /\ Apart(rest)
    BY <1>1, <2>1, PartOfText
  <2>5. WordsOf(message) = WordsOf(SubSeq(message, 1, 1)) \o WordsOf(rest)
    <3>1. 1 \in 0 .. Len(message)
      BY <1>1, <1>3
    <3> QED
      BY <2>1, <3>1, CutText
  <2>6. WordsOf(SubSeq(message, 1, 1)) = <<>>
    <3>1. message[1] \notin Words
      BY <2>2, ArgsAssumption
    <3> QED
      BY <2>1, <3>1, OneOfText
  <2> HIDE DEF rest
  <2>7. WordsOf(rest) \in Seq(Letters)
    BY <2>4, WordsAre
  <2>8. <<>> \o WordsOf(rest) = WordsOf(rest)
    BY <2>7, ConcatEmptySeq
  <2> QED
    BY <2>3, <2>4, <2>5, <2>6, <2>8 DEF CommandArgText
<1> QED
  BY <1>2, <1>3

\* partition takes the next word, and no other.
LEMMA NextWord ==
    ASSUME NEW text \in Seq(Letters), Stripped(text), text # <<>>
    PROVE  /\ text[1] \in Words
           /\ Before(text) = <<text[1]>>
           /\ After(text) \in Seq(Letters) /\ Apart(After(text))
           /\ WordsOf(text) = <<text[1]>> \o WordsOf(After(text))
<1> DEFINE l == Len(text)
           w == text[1]
           one == SubSeq(text, 1, 1)
           none == <<>>
<1>1. l \in Nat /\ l # 0 /\ DOMAIN text = 1 .. l /\ \A i \in 1 .. l : text[i] \in Letters
  <2>1. l # 0
    BY EmptySeq
  <2> QED
    BY <2>1, LenProperties, ElementOfSeq
<1>2. w \in Words /\ w # Space /\ Apart(text)
  BY ArgsAssumption DEF Stripped
<1>3. 1 \in 1 .. l /\ one = <<w>> /\ WordsOf(one) = <<w>>
  <2>1. 1 \in 1 .. l
    BY <1>1
  <2> QED
    BY <1>2, <2>1, OneOfText
<1>4. <<w>> \in Seq(Letters)
  BY <1>2 DEF Letters
<1>5. CASE l = 1
  <2>1. text = one
    BY <1>5, SubSeqFull
  <2>2. Before(text) = text
    <3>1. {i \in DOMAIN text : text[i] = Space} = {}
      BY <1>1, <1>2, <1>5
    <3> QED
      BY <3>1 DEF Before
  <2>3. After(text) = none
    <3>1. After(text) = SubSeq(text, 3, 1)
      BY <1>5, <2>2 DEF After
    <3> QED
      BY <3>1, SubSeqEmpty
  <2>4. none \in Seq(Letters) /\ Len(none) = 0
    BY EmptySeq
  <2>5. WordsOf(none) = none
    <3>1. \A i \in 1 .. Len(none) : none[i] \notin Words
      BY <2>4
    <3> QED
      BY <2>4, <3>1, WordsOfFew
  <2>6. Apart(none)
    <3>1. 1 .. Len(none) - 1 = {}
      BY <2>4
    <3> QED
      BY <3>1 DEF Apart
  <2>7. <<w>> \o none = <<w>>
    BY <1>4, ConcatEmptySeq
  <2> QED
    BY <1>2, <1>3, <2>1, <2>2, <2>3, <2>4, <2>5, <2>6, <2>7
<1>6. CASE l # 1
  <2> DEFINE rest == SubSeq(text, 2, l)
             after == SubSeq(text, 3, l)
  <2>1. /\ 2 \in 1 .. l /\ 1 \in 1 .. l - 1 /\ 2 - 1 = 1 /\ 2 + 1 = 3 /\ 1 + 1 = 2
        /\ 1 \in 0 .. l
    BY <1>1, <1>6
  <2>2. text[2] = Space
    <3>1. {text[1], text[1 + 1]} \cap Separators # {}
      BY <1>2, <2>1 DEF Apart
    <3>2. text[1] \notin Separators
      BY <1>2, ArgsAssumption DEF Separators
    <3>3. text[2] \in Separators /\ text[2] \in Letters
      BY <1>1, <2>1, <3>1, <3>2
    <3> QED
      BY <3>3, ArgsAssumption DEF Separators, Letters
  <2>3. Before(text) = one /\ After(text) = after
    <3>1. \A i \in 1 .. 2 - 1 : text[i] # Space
      BY <1>2
    <3> QED
      BY <2>1, <2>2, <3>1, CutAtSpace
  <2>4. after \in Seq(Letters) /\ Apart(after)
    <3>1. 3 \in Nat /\ 3 >= 1
      OBVIOUS
    <3> QED
      BY <1>1, <1>2, <3>1, PartOfText
  <2>5. WordsOf(text) = WordsOf(one) \o WordsOf(rest) /\ rest \in Seq(Letters)
    BY <2>1, CutText
  <2>6. rest = SubSeq(text, 2, 2) \o after
    <3>1. 2 \in 1 .. Len(text) + 1 /\ 2 \in 2 - 1 .. Len(text) /\ Len(text) \in 2 .. Len(text)
      BY <1>1, <2>1
    <3> QED
      BY <2>1, <3>1, ConcatAdjacentSubSeq
  <2>7. SubSeq(text, 2, 2) \in Seq(Letters) /\ WordsOf(SubSeq(text, 2, 2)) = none
    <3>1. text[2] \notin Words /\ text[2] \in Letters
      BY <2>2, ArgsAssumption DEF Letters
    <3>2. SubSeq(text, 2, 2) = <<text[2]>>
      BY <2>1, OneOfText
    <3> QED
      BY <2>1, <3>1, <3>2, OneOfText
  <2> DEFINE space == SubSeq(text, 2, 2)
  <2> HIDE DEF after, rest, space
  <2>8. WordsOf(space \o after) = WordsOf(space) \o WordsOf(after)
    BY <2>4, <2>7, WordsOfTwo DEF space
  <2>9. none \o WordsOf(after) = WordsOf(after)
    BY <2>4, WordsAre, ConcatEmptySeq
  <2>10. WordsOf(text) = <<w>> \o WordsOf(after)
    BY <1>3, <2>5, <2>6, <2>7, <2>8, <2>9 DEF space
  <2> QED
    BY <1>2, <1>3, <2>3, <2>4, <2>10
<1> QED
  BY <1>5, <1>6

\* A number takes a word that is one.
LEMMA ConvertsWord ==
    ASSUME NEW w \in Words, NEW spec
    PROVE  Converts(<<w>>, spec) <=> (spec.type = "number" => w \in Numbers)
<1> DEFINE one == <<w>>
<1>1. one \in Seq(Words) /\ Len(one) = 1 /\ one[1] = w /\ DOMAIN one = {1}
  OBVIOUS
<1>2. {i \in DOMAIN one : one[i] \in Words} = {1}
  BY <1>1
<1>3. Min({1}) = 1 /\ Max({1}) = 1
  <2>1. {1} \subseteq Nat /\ {1} \subseteq 1 .. 1 /\ {1} # {} /\ 1 \in Nat
    OBVIOUS
  <2> QED
    BY <2>1, MinIsLeast, MaxIsGreatest
<1>4. Strip(one) = SubSeq(one, 1, 1)
  BY <1>2, <1>3 DEF Strip
<1>5. SubSeq(one, 1, 1) = one
  BY <1>1, SubSeqFull
<1>6. one \in {<<v>> : v \in Numbers} <=> w \in Numbers
  OBVIOUS
<1> QED
  BY <1>4, <1>5, <1>6 DEF Converts

(***************************************************************************)
(* A command line, argument by argument.                                   *)
(***************************************************************************)

\* What is left of a list after its first n elements.
Ends(rest, words, n) ==
    /\ Len(rest) = IF n <= Len(words) THEN Len(words) - n ELSE 0
    /\ \A i \in 1 .. Len(rest) : rest[i] = words[n + i]

\* The first of what is left is the next one.
LEMMA NextOfEnd ==
    ASSUME NEW S, NEW words \in Seq(S), NEW n \in Nat, NEW x, NEW rest \in Seq(S),
           NEW whole \in Seq(S), whole = <<x>> \o rest, Ends(whole, words, n), x \in S
    PROVE  n + 1 <= Len(words) /\ words[n + 1] = x /\ Ends(rest, words, n + 1)
<1> DEFINE l == Len(words)
           r == Len(rest)
           one == <<x>>
<1>1. l \in Nat /\ r \in Nat
  BY LenProperties
<1>2. one \in Seq(S) /\ Len(one) = 1 /\ one[1] = x
  OBVIOUS
<1> HIDE DEF one
<1>3. /\ Len(whole) = 1 + r /\ \A i \in 1 .. 1 : whole[i] = one[i]
      /\ \A i \in 1 + 1 .. 1 + r : whole[i] = rest[i - 1]
  <2>1. one \in Seq(S) /\ rest \in Seq(S)
    BY <1>2
  <2>2. /\ Len(one \o rest) = Len(one) + Len(rest)
        /\ \A i \in 1 .. Len(one) : (one \o rest)[i] = one[i]
        /\ \A i \in Len(one) + 1 .. Len(one) + Len(rest) : (one \o rest)[i] = rest[i - Len(one)]
    BY <2>1, JoinedTwo, Zenon
  <2> QED
    BY <1>2, <2>2 DEF one
<1>4. /\ 1 + r = IF n <= l THEN l - n ELSE 0
      /\ \A i \in 1 .. 1 + r : whole[i] = words[n + i]
  BY <1>3 DEF Ends
<1> HIDE DEF l, r
<1>5. n + 1 <= l /\ r = l - (n + 1)
  BY <1>1, <1>4
<1>6. words[n + 1] = x
  <2>1. 1 \in 1 .. 1 + r /\ 1 \in 1 .. 1
    BY <1>1
  <2> QED
    BY <1>2, <1>3, <1>4, <2>1
<1>7. ASSUME NEW i \in 1 .. r
      PROVE  rest[i] = words[(n + 1) + i]
  <2>1. /\ i + 1 \in 1 + 1 .. 1 + r /\ i + 1 \in 1 .. 1 + r /\ (i + 1) - 1 = i
        /\ n + (i + 1) = (n + 1) + i
    BY <1>1
  <2> QED
    BY <1>3, <1>4, <2>1
<1> QED
  BY <1>5, <1>6, <1>7 DEF Ends, l, r

\* Nothing is left of nothing.
LEMMA NothingLeft ==
    ASSUME NEW S, NEW words \in Seq(S), NEW n \in Nat
    PROVE  Ends(<<>>, words, n) <=> n >= Len(words)
<1> DEFINE none == <<>>
           l == Len(words)
<1>1. Len(none) = 0 /\ l \in Nat /\ 1 .. Len(none) = {}
  BY LenProperties
<1>2. Ends(none, words, n) <=> 0 = IF n <= l THEN l - n ELSE 0
  BY <1>1 DEF Ends
<1> HIDE DEF none, l
<1>3. (0 = IF n <= l THEN l - n ELSE 0) <=> n >= l
  BY <1>1
<1> QED
  BY <1>2, <1>3 DEF none, l

\* Before any argument is taken.
Untaken(text) == [ok |-> TRUE, values |-> <<>>, rest |-> Strip(text)]

\* What comes of the arguments once one is taken.
TakeStep(specs, text, f, n) == IF n = 0 THEN Untaken(text) ELSE Take(f[n - 1], specs[n])

\* Arguments can be taken up to any one.
LEMMA TakenUpTo ==
    ASSUME NEW specs, NEW text
    PROVE  \A m \in Nat : \E f : f = [n \in 0 .. m |-> TakeStep(specs, text, f, n)]
<1> DEFINE Step(f, n) == TakeStep(specs, text, f, n)
           Goal(f, m) == f = [n \in 0 .. m |-> Step(f, n)]
           S == {m \in Nat : \E f : Goal(f, m)}
<1>1. 0 \in S
  <2> DEFINE g == [n \in 0 .. 0 |-> Untaken(text)]
  <2>1. \A n \in 0 .. 0 : Step(g, n) = Untaken(text)
    BY DEF TakeStep
  <2>2. g = [n \in 0 .. 0 |-> Step(g, n)]
    <3> HIDE DEF Step
    <3> QED
      BY <2>1
  <2>3. Goal(g, 0)
    <3> HIDE DEF Step, g
    <3> QED
      BY <2>2
  <2>4. \E f : Goal(f, 0)
    <3> HIDE DEF g, Goal
    <3> QED
      BY <2>3
  <2> QED
    BY <2>4
<1>2. ASSUME NEW m \in Nat, m \in S
      PROVE  m + 1 \in S
  <2>1. PICK f : Goal(f, m)
    BY <1>2
  <2> DEFINE g == [n \in 0 .. m + 1 |-> IF n <= m THEN f[n] ELSE Step(f, n)]
  <2>2. ASSUME NEW n \in 0 .. m + 1
        PROVE  g[n] = Step(g, n)
    <3>1. g[n] = IF n <= m THEN f[n] ELSE Step(f, n)
      OBVIOUS
    <3>2. n <= m => f[n] = Step(f, n)
      <4> SUFFICES ASSUME n <= m
                   PROVE  f[n] = Step(f, n)
        OBVIOUS
      <4>1. n \in 0 .. m
        OBVIOUS
      <4> HIDE DEF Step, g
      <4> QED
        BY <4>1, <2>1
    <3>3. g[n] = Step(f, n)
      <4> HIDE DEF Step, g
      <4> QED
        BY <3>1, <3>2
    <3>4. n # 0 => g[n - 1] = f[n - 1]
      <4>1. n # 0 => n - 1 \in 0 .. m + 1 /\ n - 1 <= m
        OBVIOUS
      <4> QED
        BY <4>1
    <3>5. Step(f, n) = Step(g, n)
      <4> HIDE DEF g
      <4> QED
        BY <3>4 DEF TakeStep
    <3> QED
      BY <3>3, <3>5
  <2>3. g = [n \in 0 .. m + 1 |-> g[n]]
    OBVIOUS
  <2>4. Goal(g, m + 1)
    <3> HIDE DEF g, Step
    <3> QED
      BY <2>2, <2>3
  <2> HIDE DEF g, Goal
  <2> QED
    BY <2>4
<1>3. Nat \subseteq S
  <2> HIDE DEF S
  <2> QED
    BY <1>1, <1>2, Climb
<1> QED
  BY <1>3

\* The arguments of a line are taken in turn: taken[n] is what comes of the first n.
TakenInTurn(specs, text, taken) ==
    /\ taken[0] = Untaken(text)
    /\ \A n \in 1 .. Len(specs) : taken[n] = Take(taken[n - 1], specs[n])
    /\ ParseArgs(specs, text) = [ok |-> taken[Len(specs)].ok /\ taken[Len(specs)].rest = <<>>,
                                 values |-> taken[Len(specs)].values]

\* A line is parsed argument by argument.
LEMMA ArgByArg ==
    ASSUME NEW specs, NEW text, Len(specs) \in Nat
    PROVE  \E taken : TakenInTurn(specs, text, taken)
<1> DEFINE l == Len(specs)
           Step(f, n) == TakeStep(specs, text, f, n)
           IsTaken(f) == f = [n \in 0 .. l |-> Step(f, n)]
           taken == CHOOSE f : IsTaken(f)
<1>1. l \in Nat
  OBVIOUS
<1>2. \E f : IsTaken(f)
  <2>1. \A m \in Nat : \E f : f = [n \in 0 .. m |-> Step(f, n)]
    BY TakenUpTo
  <2> HIDE DEF Step, l
  <2> QED
    BY <1>1, <2>1
<1>3. IsTaken(taken)
  <2> HIDE DEF IsTaken
  <2> QED
    BY <1>2
<1>4. ParseArgs(specs, text) = [ok |-> taken[l].ok /\ taken[l].rest = <<>>,
                                values |-> taken[l].values]
  BY DEF ParseArgs, Untaken, TakeStep
<1>5. \A n \in 0 .. l : taken[n] = Step(taken, n)
  <2> HIDE DEF taken, Step, l
  <2> QED
    BY <1>3
<1> HIDE DEF taken, IsTaken
<1>6. taken[0] = Untaken(text)
  BY <1>1, <1>5 DEF TakeStep
<1>7. \A n \in 1 .. l : taken[n] = Take(taken[n - 1], specs[n])
  BY <1>1, <1>5 DEF TakeStep
<1>8. TakenInTurn(specs, text, taken)
  BY <1>4, <1>6, <1>7 DEF TakenInTurn
<1> QED
  BY <1>8

\* The word of the i-th argument, if the line has one, is of its type; if it has none, the
\* argument is optional.
Given(specs, words, i) ==
    /\ i > Len(words) => ~ specs[i].required
    /\ (~ specs[i].greedy /\ i <= Len(words) /\ specs[i].type = "number") => words[i] \in Numbers

\* The values are those of the first n arguments; no word is lost, and what is left of the
\* line goes on with the next one.
Holds(values, rest, specs, words, n) ==
    /\ values \in Seq(Seq(Letters)) /\ Len(values) = n
    /\ rest \in Seq(Letters) /\ Stripped(rest)
    /\ WordsOf(FlattenSeq(values)) \o WordsOf(rest) = words
    /\ \A i \in 1 .. n : ~ specs[i].greedy =>
          WordsOf(values[i]) = IF i <= Len(words) THEN <<words[i]>> ELSE <<>>
    /\ IF n # 0 /\ specs[n].greedy THEN rest = <<>> ELSE Ends(WordsOf(rest), words, n)

\* What comes of the first n arguments.
Reached(st, specs, words, n) ==
    /\ st.ok \in BOOLEAN
    /\ st.ok <=> \A i \in 1 .. n : Given(specs, words, i)
    /\ st.ok => Holds(st.values, st.rest, specs, words, n)

\* One part, joined.
LEMMA FlattenOne ==
    ASSUME NEW S, NEW part \in Seq(S)
    PROVE  FlattenSeq(<<part>>) = part
<1> DEFINE one == <<part>>
<1>1. one \in Seq(Seq(S)) /\ Len(one) = 1 /\ one[1] = part
  OBVIOUS
<1> HIDE DEF one
<1>2. PICK j : Joins(one, j)
  BY <1>1, PartByPart
<1>3. j[0] = <<>> /\ j[1] = j[1 - 1] \o part /\ FlattenSeq(one) = j[1]
  BY <1>1, <1>2 DEF Joins
<1>4. 1 - 1 = 0
  OBVIOUS
<1>5. <<>> \o part = part
  BY ConcatEmptySeq
<1> QED
  BY <1>3, <1>4, <1>5 DEF one

\* A value more.
LEMMA ValueMore ==
    ASSUME NEW values \in Seq(Seq(Letters)), NEW value \in Seq(Letters)
    PROVE  /\ Append(values, value) \in Seq(Seq(Letters))
           /\ Len(Append(values, value)) = Len(values) + 1
           /\ \A i \in 1 .. Len(values) : Append(values, value)[i] = values[i]
           /\ Append(values, value)[Len(values) + 1] = value
           /\ WordsOf(FlattenSeq(Append(values, value)))
              = WordsOf(FlattenSeq(values)) \o WordsOf(value)
           /\ WordsOf(FlattenSeq(values)) \in Seq(Letters)
<1> DEFINE one == <<value>>
           none == <<>>
           SS == Seq(Letters)
<1>1. one \in Seq(SS) /\ Len(one) = 1 /\ one[1] = value
  OBVIOUS
<1>2. Append(values, value) = values \o one
  BY AppendIsConcat DEF one
<1>3. FlattenSeq(one) = value
  BY FlattenOne
<1>4. /\ FlattenSeq(values) \in Seq(Letters) /\ FlattenSeq(one) \in Seq(Letters)
      /\ FlattenSeq(values \o one) = FlattenSeq(values) \o FlattenSeq(one)
  BY <1>1, PartsOfTwo
<1>5. WordsOf(FlattenSeq(values) \o value) = WordsOf(FlattenSeq(values)) \o WordsOf(value)
  BY <1>3, <1>4, WordsOfTwo
<1>6. WordsOf(FlattenSeq(values)) \in Seq(Letters)
  BY <1>4, WordsAre
<1>7. /\ Append(values, value) \in Seq(SS)
      /\ Len(Append(values, value)) = Len(values) + 1
      /\ \A i \in 1 .. Len(values) : Append(values, value)[i] = values[i]
      /\ Append(values, value)[Len(values) + 1] = value
  <2>1. values \in Seq(SS) /\ value \in SS
    OBVIOUS
  <2> HIDE DEF SS
  <2> QED
    BY <2>1, AppendProperties
<1> QED
  BY <1>2, <1>3, <1>4, <1>5, <1>6, <1>7

\* The next argument's value and what is then left are the rest of the line.
GoesOn(rest, value, left, specs, words, n) ==
    /\ value \in Seq(Letters) /\ left \in Seq(Letters) /\ Stripped(left)
    /\ WordsOf(rest) = WordsOf(value) \o WordsOf(left)
    /\ ~ specs[n + 1].greedy =>
          WordsOf(value) = IF n + 1 <= Len(words) THEN <<words[n + 1]>> ELSE <<>>
    /\ IF specs[n + 1].greedy THEN left = <<>> ELSE Ends(WordsOf(left), words, n + 1)

\* Letters joined in any order.
LEMMA LettersJoined ==
    \A a, b, c \in Seq(Letters) : (a \o b) \o c = a \o (b \o c)
<1> TAKE a, b, c \in Seq(Letters)
<1> QED
  BY ConcatAssociative

\* A round that takes a value keeps track of the words.
LEMMA RoundHolds ==
    ASSUME NEW specs, NEW words, NEW n \in Nat, NEW values, NEW rest, NEW value, NEW left,
           Holds(values, rest, specs, words, n), GoesOn(rest, value, left, specs, words, n)
    PROVE  Holds(Append(values, value), left, specs, words, n + 1)
<1> DEFINE more == Append(values, value)
<1>1. /\ values \in Seq(Seq(Letters)) /\ Len(values) = n
      /\ WordsOf(FlattenSeq(values)) \o WordsOf(rest) = words
      /\ \A i \in 1 .. n : ~ specs[i].greedy =>
            WordsOf(values[i]) = IF i <= Len(words) THEN <<words[i]>> ELSE <<>>
  BY DEF Holds
<1>2. /\ more \in Seq(Seq(Letters)) /\ Len(more) = n + 1
      /\ \A i \in 1 .. n : more[i] = values[i]
      /\ more[n + 1] = value
  BY <1>1, ValueMore DEF GoesOn
<1> HIDE DEF more
<1>3. WordsOf(FlattenSeq(more)) \o WordsOf(left) = words
  <2> DEFINE front == WordsOf(FlattenSeq(values))
             mid == WordsOf(value)
             back == WordsOf(left)
  <2>1. WordsOf(FlattenSeq(more)) = front \o mid /\ WordsOf(rest) = mid \o back
    BY <1>1, ValueMore DEF more, GoesOn
  <2>2. front \in Seq(Letters) /\ mid \in Seq(Letters) /\ back \in Seq(Letters)
    BY <1>1, ValueMore, WordsAre DEF GoesOn
  <2> HIDE DEF front, mid, back
  <2>3. (front \o mid) \o back = front \o (mid \o back)
    BY <2>2, LettersJoined
  <2> QED
    BY <1>1, <2>1, <2>3 DEF front, back
<1>4. ASSUME NEW i \in 1 .. n + 1, ~ specs[i].greedy
      PROVE  WordsOf(more[i]) = IF i <= Len(words) THEN <<words[i]>> ELSE <<>>
  <2>1. CASE i = n + 1
    BY <1>2, <1>4, <2>1 DEF GoesOn
  <2>2. CASE i # n + 1
    <3>1. i \in 1 .. n
      BY <2>2
    <3> QED
      BY <1>1, <1>2, <1>4, <3>1
  <2> QED
    BY <2>1, <2>2
<1>5. /\ n + 1 # 0
      /\ IF n + 1 # 0 /\ specs[n + 1].greedy THEN left = <<>>
         ELSE Ends(WordsOf(left), words, n + 1)
  BY DEF GoesOn
<1> QED
  BY <1>2, <1>3, <1>4, <1>5 DEF Holds, GoesOn, more

\* What is known of the arguments up to one, and of that one, is known of them all.
LEMMA GivenMore ==
    ASSUME NEW specs, NEW words, NEW n \in Nat
    PROVE  (\A i \in 1 .. n + 1 : Given(specs, words, i))
           <=> (\A i \in 1 .. n : Given(specs, words, i)) /\ Given(specs, words, n + 1)
<1>1. /\ n + 1 \in 1 .. n + 1
      /\ \A i \in 1 .. n : i \in 1 .. n + 1
      /\ \A i \in 1 .. n + 1 : i # n + 1 => i \in 1 .. n
  OBVIOUS
<1> QED
  BY <1>1

\* A line that has ended.
LEMMA TakeNone ==
    ASSUME NEW specs, NEW words \in Seq(Letters), NEW n \in Nat, NEW st,
           Reached(st, specs, words, n), n = 0 \/ ~ specs[n].greedy,
           st.ok, st.rest = <<>>
    PROVE  Reached(Take(st, specs[n + 1]), specs, words, n + 1)
<1> DEFINE spec == specs[n + 1]
           next == Take(st, spec)
           l == Len(words)
           none == <<>>
           values == st.values
<1>1. /\ \A i \in 1 .. n : Given(specs, words, i)
      /\ Holds(values, none, specs, words, n)
  BY DEF Reached
<1>2. l \in Nat /\ none \in Seq(Letters) /\ Len(none) = 0
  BY LenProperties
<1>3. WordsOf(none) = none
  <2>1. \A i \in 1 .. Len(none) : none[i] \notin Words
    BY <1>2
  <2> QED
    BY <1>2, <2>1, WordsOfFew
<1>4. n >= l
  <2>1. Ends(WordsOf(none), words, n)
    BY <1>1 DEF Holds
  <2> QED
    BY <1>3, <2>1, NothingLeft
<1>5. Given(specs, words, n + 1) <=> ~ spec.required
  <2>1. n + 1 > l /\ ~ (n + 1 <= l)
    BY <1>2, <1>4
  <2> QED
    BY <2>1 DEF Given
<1>6. CASE spec.required
  <2>1. next.ok = FALSE
    BY <1>6 DEF Take
  <2>2. ~ \A i \in 1 .. n + 1 : Given(specs, words, i)
    BY <1>5, <1>6, GivenMore
  <2> HIDE DEF next
  <2> QED
    BY <2>1, <2>2 DEF Reached, next
<1>7. CASE ~ spec.required
  <2>1. next.ok = TRUE /\ next.values = Append(values, none) /\ next.rest = none
    BY <1>7 DEF Take, Default
  <2>2. \A i \in 1 .. n + 1 : Given(specs, words, i)
    BY <1>1, <1>5, <1>7, GivenMore
  <2>3. Stripped(none)
    BY <1>1 DEF Holds
  <2>4. GoesOn(none, none, none, specs, words, n)
    <3>1. none \o none = none
      BY <1>2, ConcatEmptySeq
    <3>2. ~ (n + 1 <= l)
      BY <1>2, <1>4
    <3>3. Ends(none, words, n + 1)
      <4>1. n + 1 \in Nat /\ n + 1 >= l
        BY <1>2, <1>4
      <4> QED
        BY <4>1, NothingLeft
    <3> QED
      BY <1>2, <1>3, <2>3, <3>1, <3>2, <3>3 DEF GoesOn
  <2>5. Holds(Append(values, none), none, specs, words, n + 1)
    <3> HIDE DEF none
    <3> QED
      BY <1>1, <1>2, <2>3, <2>4, RoundHolds
  <2> HIDE DEF next
  <2> QED
    BY <2>1, <2>2, <2>5 DEF Reached, next
<1> QED
  BY <1>6, <1>7

\* The next word of a line.
LEMMA NextTaken ==
    ASSUME NEW specs, NEW words \in Seq(Letters), NEW n \in Nat, NEW values, NEW rest,
           Holds(values, rest, specs, words, n), n = 0 \/ ~ specs[n].greedy, rest # <<>>
    PROVE  /\ n + 1 <= Len(words) /\ words[n + 1] \in Words
           /\ Before(rest) = <<words[n + 1]>>
           /\ Strip(After(rest)) \in Seq(Letters) /\ Stripped(Strip(After(rest)))
           /\ WordsOf(rest) = WordsOf(Before(rest)) \o WordsOf(Strip(After(rest)))
           /\ WordsOf(Before(rest)) = <<words[n + 1]>>
           /\ Ends(WordsOf(Strip(After(rest))), words, n + 1)
<1> DEFINE w == rest[1]
           after == After(rest)
           left == Strip(after)
<1>1. rest \in Seq(Letters) /\ Stripped(rest) /\ Ends(WordsOf(rest), words, n)
  BY DEF Holds
<1>2. /\ w \in Words /\ Before(rest) = <<w>>
      /\ after \in Seq(Letters) /\ Apart(after)
      /\ WordsOf(rest) = <<w>> \o WordsOf(after)
  BY <1>1, NextWord
<1>3. left \in Seq(Letters) /\ Stripped(left) /\ WordsOf(left) = WordsOf(after)
  <2> HIDE DEF after
  <2> QED
    BY <1>2, StripKeepsWords
<1>4. WordsOf(<<w>>) = <<w>>
  BY <1>2, WordsOfFew
<1>5. WordsOf(rest) \in Seq(Letters) /\ WordsOf(after) \in Seq(Letters)
  BY <1>1, <1>2, WordsAre
<1>6. w \in Letters
  BY <1>2 DEF Letters
<1> HIDE DEF w, after
<1>7. n + 1 <= Len(words) /\ words[n + 1] = w /\ Ends(WordsOf(after), words, n + 1)
  BY <1>1, <1>2, <1>5, <1>6, NextOfEnd
<1> QED
  BY <1>2, <1>3, <1>4, <1>7 DEF after

\* A greedy argument takes what is left.
LEMMA TakeRest ==
    ASSUME NEW specs, NEW words \in Seq(Letters), NEW n \in Nat, NEW st,
           Reached(st, specs, words, n), n = 0 \/ ~ specs[n].greedy,
           st.ok, st.rest # <<>>, specs[n + 1].greedy
    PROVE  Reached(Take(st, specs[n + 1]), specs, words, n + 1)
<1> DEFINE spec == specs[n + 1]
           next == Take(st, spec)
           values == st.values
           rest == st.rest
           none == <<>>
<1>1. /\ \A i \in 1 .. n : Given(specs, words, i)
      /\ Holds(values, rest, specs, words, n)
  BY DEF Reached
<1>2. next.ok = TRUE /\ next.values = Append(values, rest) /\ next.rest = none
  BY DEF Take
<1>3. rest \in Seq(Letters) /\ none \in Seq(Letters) /\ Len(none) = 0
  BY <1>1 DEF Holds
<1>4. Stripped(none)
  BY <1>3 DEF Stripped, Apart
<1>5. n + 1 <= Len(words)
  BY <1>1, NextTaken
<1>6. \A i \in 1 .. n + 1 : Given(specs, words, i)
  <2>1. ~ (n + 1 > Len(words))
    BY <1>5, LenProperties
  <2>2. Given(specs, words, n + 1)
    BY <2>1 DEF Given
  <2> QED
    BY <1>1, <2>2, GivenMore
<1>7. GoesOn(rest, rest, none, specs, words, n)
  <2>1. WordsOf(none) = none
    <3>1. \A i \in 1 .. Len(none) : none[i] \notin Words
      BY <1>3
    <3> QED
      BY <1>3, <3>1, WordsOfFew
  <2>2. WordsOf(rest) \in Seq(Letters)
    BY <1>3, WordsAre
  <2>3. WordsOf(rest) \o none = WordsOf(rest)
    BY <2>2, ConcatEmptySeq
  <2> QED
    BY <1>3, <1>4, <2>1, <2>3 DEF GoesOn
<1> HIDE DEF none, rest
<1>8. Holds(Append(values, rest), none, specs, words, n + 1)
  BY <1>1, <1>3, <1>4, <1>7, RoundHolds
<1> HIDE DEF next
<1> QED
  BY <1>2, <1>6, <1>8 DEF Reached, next

\* Any other argument takes the next word, if it is of its type.
LEMMA TakeWord ==
    ASSUME NEW specs, NEW words \in Seq(Letters), NEW n \in Nat, NEW st,
           Reached(st, specs, words, n), n = 0 \/ ~ specs[n].greedy,
           st.ok, st.rest # <<>>, ~ specs[n + 1].greedy
    PROVE  Reached(Take(st, specs[n + 1]), specs, words, n + 1)
<1> DEFINE spec == specs[n + 1]
           next == Take(st, spec)
           values == st.values
           rest == st.rest
           token == Before(rest)
           left == Strip(After(rest))
           w == words[n + 1]
<1>1. /\ \A i \in 1 .. n : Given(specs, words, i)
      /\ Holds(values, rest, specs, words, n)
  BY DEF Reached
<1>2. /\ next.ok = Converts(token, spec) /\ next.values = Append(values, token)
      /\ next.rest = left
  BY DEF Take
<1>3. /\ n + 1 <= Len(words) /\ w \in Words /\ token = <<w>>
      /\ left \in Seq(Letters) /\ Stripped(left)
      /\ WordsOf(rest) = WordsOf(token) \o WordsOf(left)
      /\ WordsOf(token) = <<w>>
      /\ Ends(WordsOf(left), words, n + 1)
  BY <1>1, NextTaken
<1> HIDE DEF token, left, w
<1>4. token \in Seq(Letters)
  BY <1>3 DEF Letters
<1>5. Converts(token, spec) <=> Given(specs, words, n + 1)
  <2>1. Converts(token, spec) <=> (spec.type = "number" => w \in Numbers)
    BY <1>3, ConvertsWord
  <2>2. n + 1 <= Len(words) /\ ~ (n + 1 > Len(words))
    BY <1>3, LenProperties
  <2> QED
    BY <2>1, <2>2 DEF Given, w
<1>6. next.ok \in BOOLEAN
  BY <1>2 DEF Converts
<1>7. next.ok <=> \A i \in 1 .. n + 1 : Given(specs, words, i)
  <2>1. (\A i \in 1 .. n + 1 : Given(specs, words, i)) <=> Given(specs, words, n + 1)
    BY <1>1, GivenMore
  <2> HIDE DEF next
  <2> QED
    BY <1>2, <1>5, <2>1
<1>8. GoesOn(rest, token, left, specs, words, n)
  BY <1>3 DEF GoesOn, w
<1>9. Holds(Append(values, token), left, specs, words, n + 1)
  BY <1>1, <1>3, <1>4, <1>8, RoundHolds
<1> HIDE DEF next
<1> QED
  BY <1>2, <1>6, <1>7, <1>9 DEF Reached, next

\* A round of the loop takes the next argument.
LEMMA TakeOne ==
    ASSUME NEW specs, NEW words \in Seq(Letters), NEW n \in Nat, NEW st,
           Reached(st, specs, words, n), n = 0 \/ ~ specs[n].greedy
    PROVE  Reached(Take(st, specs[n + 1]), specs, words, n + 1)
<1>1. CASE ~ st.ok
  <2> DEFINE next == Take(st, specs[n + 1])
  <2>1. next.ok = FALSE
    BY <1>1 DEF Take
  <2>2. ~ \A i \in 1 .. n + 1 : Given(specs, words, i)
    BY <1>1, GivenMore DEF Reached
  <2> HIDE DEF next
  <2> QED
    BY <2>1, <2>2 DEF Reached, next
<1>2. CASE st.ok
  BY <1>2, TakeNone, TakeRest, TakeWord
<1> QED
  BY <1>1, <1>2

\* Which words fit a usage, argument by argument.
LEMMA FitsIs ==
    ASSUME NEW ParamSet, NEW specs \in Seq(ParamSet), NEW words \in Seq(Letters),
           \A i \in 1 .. Len(specs) - 1 : ~ specs[i].greedy
    PROVE  /\ Fits(specs, words) \in BOOLEAN
           /\ Fits(specs, words)
              <=> /\ \A i \in 1 .. Len(specs) : Given(specs, words, i)
                  /\ Len(words) <= Len(specs) \/ (Len(specs) # 0 /\ specs[Len(specs)].greedy)
<1> DEFINE l == Len(specs)
           L == Len(words)
           greedy == specs # <<>> /\ Last(specs).greedy
           singles == IF greedy THEN l - 1 ELSE l
           A == L <= singles \/ greedy
           B == \A i \in 1 .. l : i > L => ~ specs[i].required
           C == \A i \in 1 .. singles :
                   (i <= L /\ specs[i].type = "number") => words[i] \in Numbers
           all == \A i \in 1 .. l : Given(specs, words, i)
           last == l # 0 /\ specs[l].greedy
<1>1. /\ l \in Nat /\ L \in Nat /\ DOMAIN specs = 1 .. l
      /\ \A i \in 1 .. l - 1 : ~ specs[i].greedy
  BY LenProperties
<1>2. greedy <=> last
  <2>1. specs # <<>> <=> l # 0
    BY EmptySeq
  <2>2. Last(specs) = specs[l]
    BY DEF Last
  <2> QED
    BY <2>1, <2>2
<1>3. Fits(specs, words) = (A /\ B /\ C)
  BY <1>1 DEF Fits
<1>4. \A i \in 1 .. l : i \in 1 .. singles <=> ~ specs[i].greedy
  <2> HIDE DEF greedy, l
  <2> TAKE i \in 1 .. l
  <2>1. CASE last
    <3>1. singles = l - 1 /\ specs[l].greedy
      BY <1>2, <2>1
    <3>2. i \in 1 .. l - 1 \/ i = l
      BY <1>1
    <3>3. ~ (l \in 1 .. l - 1)
      BY <1>1
    <3> QED
      BY <1>1, <3>1, <3>2, <3>3
  <2>2. CASE ~ last
    <3>1. singles = l /\ i \in 1 .. l
      BY <1>2, <2>2
    <3>2. i \in 1 .. l - 1 \/ (i = l /\ l # 0)
      BY <1>1
    <3>3. ~ specs[i].greedy
      BY <1>1, <2>2, <3>2
    <3> QED
      BY <3>1, <3>3
  <2> QED
    BY <2>1, <2>2
<1>5. \A i \in 1 .. singles : i \in 1 .. l
  BY <1>1
<1>6. singles = l \/ greedy
  OBVIOUS
<1> HIDE DEF greedy, singles, l, L
<1>7. all <=> B /\ C
  <2>1. ASSUME all
        PROVE  B /\ C
    BY <1>4, <1>5, <2>1 DEF Given, L
  <2>2. ASSUME B, C
        PROVE  all
    BY <1>4, <2>2 DEF Given, L
  <2> QED
    BY <2>1, <2>2
<1>8. A <=> L <= l \/ last
  BY <1>2, <1>6
<1> HIDE DEF all, last, A, B, C
<1>9. Fits(specs, words) \in BOOLEAN /\ (Fits(specs, words) <=> all /\ (L <= l \/ last))
  <2>1. (A /\ B /\ C) \in BOOLEAN
    OBVIOUS
  <2> QED
    BY <1>3, <1>7, <1>8, <2>1
<1> QED
  BY <1>9 DEF all, last, l, L

\* Before the first argument, the whole line is left.
LEMMA UntakenReached ==
    ASSUME NEW specs, NEW text \in Seq(Letters), Apart(text)
    PROVE  Reached(Untaken(text), specs, WordsOf(text), 0)
<1> DEFINE st == Untaken(text)
           words == WordsOf(text)
           none == <<>>
           SS == Seq(Letters)
<1>1. st.ok = TRUE /\ st.values = none /\ st.rest = Strip(text)
  BY DEF Untaken
<1>2. Strip(text) \in Seq(Letters) /\ Stripped(Strip(text)) /\ WordsOf(Strip(text)) = words
  BY StripKeepsWords
<1>3. words \in Seq(Letters)
  BY WordsAre
<1>4. none \in Seq(SS) /\ none \in Seq(Letters) /\ Len(none) = 0
  BY EmptySeq
<1>5. FlattenSeq(none) = none
  BY DEF FlattenSeq
<1>6. WordsOf(none) = none
  <2>1. \A i \in 1 .. Len(none) : none[i] \notin Words
    BY <1>4
  <2> QED
    BY <1>4, <2>1, WordsOfFew
<1>7. none \o words = words
  BY <1>3, ConcatEmptySeq
<1>8. Ends(words, words, 0)
  <2> DEFINE n == Len(words)
  <2>1. n \in Nat
    BY <1>3, LenProperties
  <2> HIDE DEF words
  <2>2. \A i \in 1 .. n : 0 + i = i
    BY <2>1
  <2>3. n = IF 0 <= n THEN n - 0 ELSE 0
    <3> HIDE DEF n
    <3> QED
      BY <2>1
  <2> QED
    BY <2>2, <2>3 DEF Ends
<1>9. 1 .. 0 = {}
  OBVIOUS
<1> HIDE DEF st, words, none
<1>10. Holds(none, Strip(text), specs, words, 0)
  BY <1>2, <1>4, <1>5, <1>6, <1>7, <1>8, <1>9 DEF Holds
<1> QED
  BY <1>1, <1>9, <1>10 DEF Reached, st, words

\* What comes of a line.
LEMMA LineParsed ==
    ASSUME NEW ParamSet, NEW specs \in Seq(ParamSet), NEW text \in Seq(Letters), Apart(text),
           \A i \in 1 .. Len(specs) - 1 : ~ specs[i].greedy
    PROVE  \E st : /\ Reached(st, specs, WordsOf(text), Len(specs))
                   /\ ParseArgs(specs, text) = [ok |-> st.ok /\ st.rest = <<>>, values |-> st.values]
<1> DEFINE l == Len(specs)
           words == WordsOf(text)
<1>1. l \in Nat
  BY LenProperties
<1>2. PICK taken : TakenInTurn(specs, text, taken)
  BY <1>1, ArgByArg
<1>3. /\ taken[0] = Untaken(text)
      /\ \A n \in 1 .. l : taken[n] = Take(taken[n - 1], specs[n])
      /\ ParseArgs(specs, text) = [ok |-> taken[l].ok /\ taken[l].rest = <<>>,
                                   values |-> taken[l].values]
  BY <1>2 DEF TakenInTurn
<1>4. words \in Seq(Letters)
  BY WordsAre
<1>5. Reached(taken[0], specs, words, 0)
  BY <1>3, UntakenReached
<1>6. \A n \in 1 .. l - 1 : ~ specs[n].greedy
  OBVIOUS
<1> HIDE DEF l, words
<1> DEFINE T == {n \in Nat : n <= l => Reached(taken[n], specs, words, n)}
<1>7. 0 \in T
  BY <1>5
<1>8. ASSUME NEW n \in Nat, n \in T
      PROVE  n + 1 \in T
  <2> SUFFICES ASSUME n + 1 <= l
               PROVE  Reached(taken[n + 1], specs, words, n + 1)
    OBVIOUS
  <2>1. n <= l /\ n + 1 \in 1 .. l /\ (n + 1) - 1 = n /\ (n = 0 \/ n \in 1 .. l - 1)
    BY <1>1
  <2>2. Reached(taken[n], specs, words, n)
    BY <1>8, <2>1
  <2>3. taken[n + 1] = Take(taken[n], specs[n + 1])
    BY <1>3, <2>1
  <2>4. n = 0 \/ ~ specs[n].greedy
    BY <1>6, <2>1
  <2>5. Reached(Take(taken[n], specs[n + 1]), specs, words, n + 1)
    BY <1>4, <2>2, <2>4, TakeOne
  <2> QED
    BY <2>3, <2>5
<1>9. Nat \subseteq T
  <2> HIDE DEF T
  <2> QED
    BY <1>7, <1>8, Climb
<1>10. Reached(taken[l], specs, words, l)
  BY <1>1, <1>9
<1> QED
  BY <1>3, <1>10 DEF l, words

\* A command line is accepted exactly when it fits the usage that is shown for it, whatever
\* parameters the handler has and however long the line is (parse_args).  What is typed
\* after the word of the command starts with a space.
THEOREM LinesFitTheirUsage ==
    ASSUME NEW ParamSet,
           input.kind = "line" =>
              /\ input.params \in Seq(ParamSet)
              /\ input.rest \in Seq(Words \cup {Space}) /\ Apart(input.rest)
              /\ input.rest # <<>> => input.rest[1] = Space
    PROVE  AcceptedIffUsageFits
<1> SUFFICES ASSUME input.kind = "line"
             PROVE  ParsesItsUsage(input.params, input.rest)
  BY DEF AcceptedIffUsageFits
<1> DEFINE params == input.params
           message == input.rest
           signature == Signature(params)
           specs == signature.specs
           chosen == {i \in DOMAIN params : params[i].arg}
           text == CommandArgText(message)
           words == WordsOf(message)
           parsed == ParseArgs(specs, text)
           l == Len(specs)
           none == <<>>
<1>1. /\ params \in Seq(ParamSet) /\ message \in Seq(Letters) /\ Apart(message)
      /\ message # <<>> => message[1] = Space
  BY DEF Letters
<1>2. specs = Those(params, chosen)
      /\ signature.ok = \A i \in 1 .. l - 1 : ~ specs[i].greedy
  BY DEF Signature
<1>3. specs \in Seq(ParamSet)
  <2>1. chosen \subseteq DOMAIN params
    OBVIOUS
  <2> HIDE DEF chosen, params, specs
  <2> QED
    BY <1>1, <1>2, <2>1, ElementsOfThose
<1>4. text \in Seq(Letters) /\ Apart(text) /\ WordsOf(text) = words
  <2> HIDE DEF message
  <2> QED
    BY <1>1, TextOfCommand DEF message
<1>5. words \in Seq(Letters) /\ l \in Nat /\ DOMAIN specs = 1 .. l
  BY <1>1, <1>3, WordsAre, LenProperties
<1> HIDE DEF message, params, specs, text, words
<1> SUFFICES ASSUME \A i \in 1 .. l - 1 : ~ specs[i].greedy
             PROVE  /\ parsed.ok = Fits(specs, words)
                    /\ parsed.ok =>
                          /\ WordsOf(FlattenSeq(parsed.values)) = words
                          /\ \A i \in DOMAIN specs : ~ specs[i].greedy =>
                                WordsOf(parsed.values[i]) =
                                IF i <= Len(words) THEN <<words[i]>> ELSE <<>>
  BY <1>2 DEF ParsesItsUsage, specs, words, text, params, message
<1>6. PICK st : /\ Reached(st, specs, words, l)
                /\ parsed = [ok |-> st.ok /\ st.rest = <<>>, values |-> st.values]
  BY <1>3, <1>4, LineParsed
<1>7. /\ parsed.ok = (st.ok /\ st.rest = none) /\ parsed.values = st.values
  BY <1>6
<1>8. /\ st.ok \in BOOLEAN
      /\ st.ok <=> \A i \in 1 .. l : Given(specs, words, i)
      /\ st.ok => Holds(st.values, st.rest, specs, words, l)
  BY <1>6 DEF Reached
<1>9. /\ Fits(specs, words) \in BOOLEAN
      /\ Fits(specs, words)
         <=> /\ \A i \in 1 .. l : Given(specs, words, i)
             /\ Len(words) <= l \/ (l # 0 /\ specs[l].greedy)
  BY <1>3, <1>5, FitsIs
<1>10. none \in Seq(Letters) /\ WordsOf(none) = none
  <2>1. none \in Seq(Letters) /\ Len(none) = 0
    BY EmptySeq
  <2>2. \A i \in 1 .. Len(none) : none[i] \notin Words
    BY <2>1
  <2> QED
    BY <2>1, <2>2, WordsOfFew
<1>11. ASSUME st.ok
       PROVE  st.rest = none <=> Len(words) <= l \/ (l # 0 /\ specs[l].greedy)
  <2>1. Holds(st.values, st.rest, specs, words, l)
    BY <1>8, <1>11
  <2>2. CASE l # 0 /\ specs[l].greedy
    BY <2>1, <2>2 DEF Holds
  <2>3. CASE ~ (l # 0 /\ specs[l].greedy)
    <3>1. Ends(WordsOf(st.rest), words, l)
      BY <2>1, <2>3 DEF Holds
    <3>2. ASSUME st.rest = none
          PROVE  Len(words) <= l
      <4>1. Ends(none, words, l)
        BY <1>10, <3>1, <3>2
      <4>2. l >= Len(words)
        BY <1>5, <4>1, NothingLeft
      <4> QED
        BY <4>2
    <3>3. ASSUME st.rest # none
          PROVE  ~ (Len(words) <= l)
      <4>1. l + 1 <= Len(words)
        BY <1>5, <2>1, <2>3, <3>3, NextTaken
      <4>2. Len(words) \in Nat
        BY <1>5, LenProperties
      <4> QED
        BY <1>5, <4>1, <4>2
    <3> QED
      BY <2>3, <3>2, <3>3
  <2> QED
    BY <2>2, <2>3
<1> HIDE DEF none, parsed, l
<1>12. parsed.ok = Fits(specs, words)
  BY <1>7, <1>8, <1>9, <1>11
<1>13. ASSUME parsed.ok
       PROVE  /\ WordsOf(FlattenSeq(parsed.values)) = words
              /\ \A i \in DOMAIN specs : ~ specs[i].greedy =>
                    WordsOf(parsed.values[i]) =
                    IF i <= Len(words) THEN <<words[i]>> ELSE <<>>
  <2>1. Holds(parsed.values, none, specs, words, l)
    BY <1>7, <1>8, <1>13
  <2>2. WordsOf(FlattenSeq(parsed.values)) \o none = words
    BY <1>10, <2>1 DEF Holds
  <2>3. WordsOf(FlattenSeq(parsed.values)) \in Seq(Letters)
    BY <2>1, ValueMore, <1>10 DEF Holds
  <2>4. WordsOf(FlattenSeq(parsed.values)) = words
    BY <2>2, <2>3, ConcatEmptySeq DEF none
  <2> QED
    BY <1>5, <2>1, <2>4 DEF Holds
<1> QED
  BY <1>12, <1>13
=============================================================================
