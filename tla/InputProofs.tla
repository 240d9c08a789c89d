----------------------------- MODULE InputProofs -----------------------------
(***************************************************************************)
(* Theorems about the operators on a user's input, for inputs of any size: *)
(* schedules of calls to a throttle, lists behind a pager, buttons.        *)
(*                                                                         *)
(* The operators recur over their input.  Induction is done on sets: a set *)
(* of numbers has a least one, so a set that holds 0 and, with a number,   *)
(* its successor holds them all.                                           *)
(***************************************************************************)
EXTENDS InputProperties, SequenceTheorems, FiniteSetTheorems, FunctionTheorems,
        WellFoundedInduction, TLAPS

(***************************************************************************)
(* Numbers.                                                                *)
(***************************************************************************)

\* A set of numbers has a least one.
LEMMA Smallest ==
    ASSUME NEW T, T \subseteq Nat, T # {}
    PROVE  \E x \in T : \A y \in T : x <= y
<1> DEFINE R == {ss \in Nat \X Nat : ss[1] < ss[2]}
<1>1. IsWellFoundedOn(R, Nat)
  BY NatLessThanWellFounded DEF OpToRel
<1>2. PICK x \in T : \A y \in T : ~ (<<y, x>> \in R)
  <2> HIDE DEF R
  <2> QED
    BY <1>1, WFMin, Zenon
<1>3. ASSUME NEW y \in T
      PROVE  x <= y
  <2>1. x \in Nat /\ y \in Nat
    OBVIOUS
  <2>2. ~ (<<y, x>> \in R)
    BY <1>2
  <2>3. ~ (y < x)
    BY <2>1, <2>2
  <2> QED
    BY <2>1, <2>3
<1> QED
  BY <1>3

\* A set that holds 0 and, with a number, the next one holds them all.
LEMMA Climb ==
    ASSUME NEW S, 0 \in S, \A n \in Nat : n \in S => n + 1 \in S
    PROVE  Nat \subseteq S
<1> DEFINE T == Nat \ S
<1> SUFFICES ASSUME T # {}
             PROVE  FALSE
  OBVIOUS
<1>1. PICK x \in T : \A y \in T : x <= y
  <2> HIDE DEF T
  <2>1. T \subseteq Nat
    BY DEF T
  <2> QED
    BY <2>1, Smallest
<1>2. x # 0 /\ x \in Nat
  OBVIOUS
<1>3. x - 1 \in Nat /\ x - 1 \notin T /\ (x - 1) + 1 = x
  BY <1>1, <1>2
<1> QED
  BY <1>1, <1>2, <1>3

\* Min is the least element.
LEMMA MinIsLeast ==
    ASSUME NEW T, T \subseteq Nat, T # {}
    PROVE  Min(T) \in T /\ \A y \in T : Min(T) <= y
<1>1. \E x \in T : \A y \in T : x <= y
  BY Smallest
<1> QED
  BY <1>1 DEF Min

(***************************************************************************)
(* Throttles: how a schedule is played.                                    *)
(***************************************************************************)

\* A schedule can be played up to any call.
LEMMA PlayedUpTo ==
    ASSUME NEW schedule
    PROVE  \A m \in Nat : \E f : f = [n \in 0 .. m |->
               IF n = 0 THEN Started ELSE Play(f[n - 1], schedule[n])]
<1> DEFINE Fits2(f, m) == f = [n \in 0 .. m |->
               IF n = 0 THEN Started ELSE Play(f[n - 1], schedule[n])]
           S == {m \in Nat : \E f : Fits2(f, m)}
<1>1. 0 \in S
  <2>1. Fits2([n \in 0 .. 0 |-> Started], 0)
    OBVIOUS
  <2> QED
    BY <2>1
<1>2. ASSUME NEW m \in Nat, m \in S
      PROVE  m + 1 \in S
  <2>1. PICK f : Fits2(f, m)
    BY <1>2
  <2> DEFINE g == [n \in 0 .. m + 1 |->
                      IF n <= m THEN f[n] ELSE Play(f[n - 1], schedule[n])]
  <2>2. ASSUME NEW n \in 0 .. m + 1
        PROVE  g[n] = IF n = 0 THEN Started ELSE Play(g[n - 1], schedule[n])
    <3>1. CASE n = 0
      <4>1. 0 \in 0 .. m /\ 0 \in 0 .. m + 1
        OBVIOUS
      <4>2. g[0] = f[0] /\ f[0] = Started
        BY <4>1, <2>1
      <4> QED
        BY <4>2, <3>1
    <3>2. CASE n # 0
      <4>1. n - 1 \in 0 .. m /\ n - 1 \in 0 .. m + 1 /\ n - 1 <= m
        BY <3>2
      <4>2. g[n - 1] = f[n - 1]
        BY <4>1
      <4>3. CASE n <= m
        <5>1. n \in 0 .. m
          BY <4>3
        <5>2. f[n] = Play(f[n - 1], schedule[n])
          BY <5>1, <2>1, <3>2
        <5>3. g[n] = f[n]
          BY <4>3
        <5> HIDE DEF g
        <5> QED
          BY <5>2, <5>3, <4>2, <3>2
      <4>4. CASE ~ (n <= m)
        <5>1. g[n] = Play(f[n - 1], schedule[n])
          BY <4>4
        <5> HIDE DEF g
        <5> QED
          BY <5>1, <4>2, <3>2
      <4> QED
        BY <4>3, <4>4
    <3> QED
      BY <3>1, <3>2
  <2>3. Fits2(g, m + 1)
    <3>1. g = [n \in 0 .. m + 1 |-> g[n]]
      OBVIOUS
    <3> HIDE DEF g
    <3> QED
      BY <3>1, <2>2
  <2>4. \E h : Fits2(h, m + 1)
    <3> HIDE DEF g, Fits2
    <3> QED
      BY <2>3
  <2> QED
    BY <2>4
<1>3. Nat \subseteq S
  <2> HIDE DEF S
  <2> QED
    BY <1>1, <1>2, Climb
<1> QED
  BY <1>3

\* Each state of the play comes from the one before it.
LEMMA PlayedStepByStep ==
    ASSUME NEW schedule, Len(schedule) \in Nat
    PROVE  /\ Played(schedule)[0] = Started
           /\ \A n \in 1 .. Len(schedule) :
                 Played(schedule)[n] = Play(Played(schedule)[n - 1], schedule[n])
<1> DEFINE IsPlay(f) == f = [n \in 0 .. Len(schedule) |->
               IF n = 0 THEN Started ELSE Play(f[n - 1], schedule[n])]
<1>1. \E f : IsPlay(f)
  BY PlayedUpTo
<1>2. Played(schedule) = CHOOSE f : IsPlay(f)
  BY DEF Played
<1>3. IsPlay(Played(schedule))
  <2> HIDE DEF IsPlay
  <2> QED
    BY <1>1, <1>2
<1> DEFINE p == Played(schedule)
<1>4. p = [n \in 0 .. Len(schedule) |->
               IF n = 0 THEN Started ELSE Play(p[n - 1], schedule[n])]
  BY <1>3
<1> HIDE DEF p, IsPlay
<1>5. \A n \in 0 .. Len(schedule) :
          p[n] = IF n = 0 THEN Started ELSE Play(p[n - 1], schedule[n])
  BY <1>4
<1>6. p[0] = Started
  BY <1>5
<1>7. \A n \in 1 .. Len(schedule) : p[n] = Play(p[n - 1], schedule[n])
  BY <1>5
<1> QED
  BY <1>6, <1>7 DEF p

(***************************************************************************)
(* What a limiter remembers.                                               *)
(***************************************************************************)

\* The calls a schedule is made of: a window lets at least one call through, and
\* the clock never runs back.
CallSet(Keys) == [key : Keys, limit : Nat \ {0}, per : Nat, wait : Nat]
LogEntries(Keys) == [at : Nat, call : CallSet(Keys), retry : Int]

\* A log is in the order of its times, all of them past.
Orderly(Keys, log, now) ==
    /\ log \in Seq(LogEntries(Keys))
    /\ \A i \in 1 .. Len(log) : log[i].at <= now
    /\ \A i, j \in 1 .. Len(log) : i <= j => log[i].at <= log[j].at

LetThrough(log, k) == {j \in 1 .. Len(log) : log[j].call.key = k /\ log[j].retry = 0}

\* A call is out of the window of some call of its key, not of its own alone: a key
\* may serve several throttles.
Expired(log, now, j) ==
    \E i \in 1 .. Len(log) : /\ log[i].call.key = log[j].call.key
                             /\ now - log[j].at >= log[i].call.per

\* The times of a deque are those of calls idx[1] < idx[2] < ... of the key.
Backs(idx, times, log, k) ==
    /\ times \in Seq(Nat)
    /\ idx \in [1 .. Len(times) -> LetThrough(log, k)]
    /\ \A i \in 1 .. Len(times) : times[i] = log[idx[i]].at
    /\ \A i, j \in 1 .. Len(times) : i < j => idx[i] < idx[j]

\* A deque forgets nothing but what has expired.
Remembers(log, now, times, k) ==
    \E idx : /\ Backs(idx, times, log, k)
             /\ \A j \in LetThrough(log, k) :
                   (\E i \in 1 .. Len(times) : idx[i] = j) \/ Expired(log, now, j)

TimesOf(hits, k) == IF k \in DOMAIN hits THEN hits[k] ELSE <<>>

\* An entry of a log has its type.
LEMMA EntryOfLog ==
    ASSUME NEW Keys, NEW log \in Seq(LogEntries(Keys)), NEW i \in 1 .. Len(log)
    PROVE  /\ log[i].at \in Nat
           /\ log[i].retry \in Int
           /\ log[i].call \in CallSet(Keys)
           /\ log[i].call.key \in Keys
           /\ log[i].call.limit \in Nat /\ log[i].call.limit >= 1
           /\ log[i].call.per \in Nat
           /\ log[i].call.wait \in Nat
<1>1. log[i] \in LogEntries(Keys)
  BY ElementOfSeq
<1>2. log[i].at \in Nat /\ log[i].retry \in Int /\ log[i].call \in CallSet(Keys)
  BY <1>1 DEF LogEntries
<1>3. /\ log[i].call.key \in Keys /\ log[i].call.limit \in Nat \ {0}
      /\ log[i].call.per \in Nat /\ log[i].call.wait \in Nat
  BY <1>2 DEF CallSet
<1> QED
  BY <1>2, <1>3

\* A deque is sorted.
LEMMA TimesSorted ==
    ASSUME NEW Keys, NEW log, NEW now, NEW times, NEW k, NEW idx,
           Orderly(Keys, log, now), Backs(idx, times, log, k)
    PROVE  \A i, j \in 1 .. Len(times) : i <= j => times[i] <= times[j]
<1> SUFFICES ASSUME NEW i \in 1 .. Len(times), NEW j \in 1 .. Len(times), i <= j
             PROVE  times[i] <= times[j]
  OBVIOUS
<1>1. Len(times) \in Nat
  BY LenProperties DEF Backs
<1>2. /\ idx[i] \in 1 .. Len(log) /\ idx[j] \in 1 .. Len(log)
      /\ times[i] = log[idx[i]].at /\ times[j] = log[idx[j]].at
  BY DEF Backs, LetThrough
<1>3. Len(log) \in Nat
  BY LenProperties DEF Orderly
<1>4. idx[i] <= idx[j]
  BY <1>1, <1>2, <1>3 DEF Backs
<1> QED
  BY <1>2, <1>4 DEF Orderly

\* What has expired stays so.
LEMMA TimePasses ==
    ASSUME NEW Keys, NEW log, NEW before \in Int, NEW now \in Int, before <= now,
           NEW times, NEW k, Orderly(Keys, log, before), Remembers(log, before, times, k)
    PROVE  Orderly(Keys, log, now) /\ Remembers(log, now, times, k)
<1>1. log \in Seq(LogEntries(Keys)) /\ Len(log) \in Nat
  BY LenProperties DEF Orderly
<1>2. \A i \in 1 .. Len(log) : log[i].at \in Nat /\ log[i].call.per \in Nat
  BY <1>1, EntryOfLog
<1>3. Orderly(Keys, log, now)
  <2>1. \A i \in 1 .. Len(log) : log[i].at <= now
    BY <1>2 DEF Orderly
  <2> QED
    BY <2>1 DEF Orderly
<1>4. \A j \in LetThrough(log, k) : Expired(log, before, j) => Expired(log, now, j)
  BY <1>2 DEF Expired, LetThrough
<1> QED
  BY <1>3, <1>4 DEF Remembers

\* The sweep drops a deque only when all of it has expired.
LEMMA SweepForgetsExpired ==
    ASSUME NEW Keys, NEW log, NEW now \in Int, NEW hits, NEW k, NEW maxPer \in Nat,
           Orderly(Keys, log, now), Remembers(log, now, TimesOf(hits, k), k),
           \A i \in 1 .. Len(log) : log[i].call.per <= maxPer
    PROVE  Remembers(log, now, TimesOf(Sweep(hits, now, maxPer), k), k)
<1> DEFINE live == {l \in DOMAIN hits : hits[l] # <<>> /\ now - Last(hits[l]) < maxPer}
<1>1. Sweep(hits, now, maxPer) = [l \in live |-> hits[l]]
  BY DEF Sweep
<1>2. CASE k \in live
  <2>1. TimesOf(Sweep(hits, now, maxPer), k) = TimesOf(hits, k)
    BY <1>1, <1>2 DEF TimesOf
  <2> QED
    BY <2>1
<1>3. CASE k \notin live
  <2> DEFINE times == TimesOf(hits, k)
  <2>1. TimesOf(Sweep(hits, now, maxPer), k) = <<>>
    BY <1>1, <1>3 DEF TimesOf
  <2>2. PICK idx : /\ Backs(idx, times, log, k)
                   /\ \A j \in LetThrough(log, k) :
                         (\E i \in 1 .. Len(times) : idx[i] = j) \/ Expired(log, now, j)
    BY DEF Remembers
  <2>3. times \in Seq(Nat) /\ Len(times) \in Nat
    BY <2>2, LenProperties DEF Backs
  <2>4. times = <<>> \/ now - times[Len(times)] >= maxPer
    <3>1. times # <<>> => k \in DOMAIN hits /\ times = hits[k]
      BY DEF TimesOf
    <3>2. times # <<>> => ~ (now - Last(times) < maxPer)
      <4> HIDE DEF times
      <4> QED
        BY <3>1, <1>3
    <3>3. times # <<>> => Len(times) \in 1 .. Len(times)
      BY <2>3, EmptySeq
    <3>4. times # <<>> => times[Len(times)] \in Nat
      BY <3>3, <2>3, ElementOfSeq
    <3> HIDE DEF times
    <3> QED
      BY <3>2, <3>4 DEF Last
  <2> HIDE DEF times
  <2>5. ASSUME NEW j \in LetThrough(log, k), NEW i \in 1 .. Len(times), idx[i] = j
        PROVE  Expired(log, now, j)
    <3>1. times # <<>> /\ Len(times) \in 1 .. Len(times) /\ i <= Len(times)
      BY <2>3, EmptySeq
    <3>2. times[i] <= times[Len(times)]
      BY <3>1, <2>2, TimesSorted
    <3>3. times[i] \in Nat /\ times[Len(times)] \in Nat
      BY <3>1, <2>3, ElementOfSeq
    <3>4. times[i] = log[j].at
      BY <2>2, <2>5 DEF Backs
    <3>5. j \in 1 .. Len(log)
      BY DEF LetThrough
    <3>6. log[j].call.per \in Nat /\ log[j].call.per <= maxPer
      BY <3>5, EntryOfLog DEF Orderly
    <3>7. now - log[j].at >= log[j].call.per
      BY <3>1, <3>2, <3>3, <3>4, <3>6, <2>4
    <3> QED
      BY <3>5, <3>7 DEF Expired
  <2>6. \A j \in LetThrough(log, k) : Expired(log, now, j)
    BY <2>2, <2>5
  <2>7. \E none : Backs(none, <<>>, log, k)
    <3> DEFINE none == [i \in 1 .. 0 |-> i]
    <3>1. <<>> \in Seq(Nat) /\ Len(<<>>) = 0
      BY EmptySeq
    <3>2. Backs(none, <<>>, log, k)
      BY <3>1 DEF Backs
    <3> QED
      BY <3>2
  <2> QED
    BY <2>1, <2>6, <2>7 DEF Remembers
<1> QED
  BY <1>2, <1>3

\* Popping from the left leaves what is in the window, as the deque is sorted.
LEMMA RecentIsTheWindow ==
    ASSUME NEW times \in Seq(Nat), NEW now \in Int, NEW per \in Nat,
           \A i, j \in 1 .. Len(times) : i <= j => times[i] <= times[j]
    PROVE  \E gone \in 0 .. Len(times) :
              /\ Recent(times, now, per) \in Seq(Nat)
              /\ Len(Recent(times, now, per)) = Len(times) - gone
              /\ \A i \in 1 .. Len(times) - gone :
                    Recent(times, now, per)[i] = times[gone + i]
              /\ \A i \in 1 .. Len(times) : now - times[i] < per <=> i > gone
<1>1. Len(times) \in Nat /\ DOMAIN times = 1 .. Len(times)
  BY LenProperties
<1>2. \A i \in 1 .. Len(times) : times[i] \in Nat
  BY ElementOfSeq
<1> DEFINE within == {i \in DOMAIN times : now - times[i] < per}
<1>3. CASE within = {}
  <2>1. Recent(times, now, per) = <<>>
    BY <1>3 DEF Recent
  <2>2. \A i \in 1 .. Len(times) : ~ (now - times[i] < per)
    BY <1>1, <1>3
  <2>3. <<>> \in Seq(Nat) /\ Len(<<>>) = 0
    BY EmptySeq
  <2>4. Len(times) \in 0 .. Len(times) /\ Len(times) - Len(times) = 0
    BY <1>1
  <2>5. \A i \in 1 .. Len(times) : now - times[i] < per <=> i > Len(times)
    BY <1>1, <2>2
  <2>6. \A i \in 1 .. 0 : Recent(times, now, per)[i] = times[Len(times) + i]
    OBVIOUS
  <2> HIDE DEF within
  <2>7. /\ Recent(times, now, per) \in Seq(Nat)
        /\ Len(Recent(times, now, per)) = Len(times) - Len(times)
    BY <2>1, <2>3, <2>4
  <2> QED
    BY <2>4, <2>5, <2>6, <2>7
<1>4. CASE within # {}
  <2>1. within \subseteq Nat
    BY <1>1
  <2> DEFINE first == Min(within)
  <2>2. first \in within /\ \A i \in within : first <= i
    <3> HIDE DEF within
    <3> QED
      BY <2>1, <1>4, MinIsLeast
  <2>3. Recent(times, now, per) = SubSeq(times, first, Len(times))
    BY <1>4 DEF Recent
  <2>4. first \in 1 .. Len(times) /\ now - times[first] < per
    BY <2>2, <1>1
  <2>5. ASSUME NEW i \in 1 .. Len(times)
        PROVE  now - times[i] < per <=> i >= first
    <3>1. i >= first => times[first] <= times[i]
      BY <2>4
    <3>2. i >= first => now - times[i] < per
      BY <3>1, <2>4, <1>2
    <3>3. now - times[i] < per => i \in within
      BY <1>1
    <3> QED
      BY <3>2, <3>3, <2>2
  <2> HIDE DEF first, within
  <2>6. /\ SubSeq(times, first, Len(times)) \in Seq(Nat)
        /\ Len(SubSeq(times, first, Len(times))) = Len(times) - first + 1
        /\ \A i \in 1 .. Len(times) - first + 1 :
              SubSeq(times, first, Len(times))[i] = times[first + i - 1]
    <3>1. \A i \in first .. Len(times) : times[i] \in Nat
      BY <1>2, <2>4
    <3>2. first \in Int /\ Len(times) \in Int /\ first <= Len(times)
      BY <2>4, <1>1
    <3> QED
      BY <3>1, <3>2, SubSeqProperties
  <2>7. first - 1 \in 0 .. Len(times)
    BY <2>4, <1>1
  <2>8. Len(times) - (first - 1) = Len(times) - first + 1
    BY <2>4, <1>1
  <2>9. \A i \in 1 .. Len(times) - (first - 1) :
           Recent(times, now, per)[i] = times[(first - 1) + i]
    <3> SUFFICES ASSUME NEW i \in 1 .. Len(times) - (first - 1)
                 PROVE  Recent(times, now, per)[i] = times[(first - 1) + i]
      OBVIOUS
    <3>1. first + i - 1 = (first - 1) + i
      BY <2>4
    <3> QED
      BY <3>1, <2>3, <2>6, <2>8
  <2>10. \A i \in 1 .. Len(times) : now - times[i] < per <=> i > first - 1
    BY <2>5, <2>4
  <2> QED
    BY <2>3, <2>6, <2>7, <2>8, <2>9, <2>10
<1> QED
  BY <1>3, <1>4

\* The calls behind a deque.
Behind(idx, times) == {idx[i] : i \in 1 .. Len(times)}

\* A deque has as many times as there are calls behind it.
LEMMA BackedCount ==
    ASSUME NEW log, NEW times, NEW k, NEW idx, Backs(idx, times, log, k),
           Len(log) \in Nat
    PROVE  /\ Behind(idx, times) \subseteq LetThrough(log, k)
           /\ IsFiniteSet(Behind(idx, times))
           /\ Cardinality(Behind(idx, times)) = Len(times)
<1> DEFINE R == {idx[i] : i \in 1 .. Len(times)}
<1>1. Len(times) \in Nat
  BY LenProperties DEF Backs
<1>2. /\ idx \in [1 .. Len(times) -> LetThrough(log, k)]
      /\ \A i, j \in 1 .. Len(times) : i < j => idx[i] < idx[j]
  BY DEF Backs
<1>3. idx \in [1 .. Len(times) -> R]
  BY <1>2
<1>4. ASSUME NEW i \in 1 .. Len(times), NEW j \in 1 .. Len(times), idx[i] = idx[j]
      PROVE  i = j
  <2>1. idx[i] \in Nat /\ idx[j] \in Nat
    BY <1>2 DEF LetThrough
  <2>2. ~ (idx[i] < idx[j]) /\ ~ (idx[j] < idx[i])
    BY <2>1, <1>4
  <2> QED
    BY <2>2, <1>2, <1>1
<1>5. idx \in Bijection(1 .. Len(times), R)
  <2>1. \A t \in R : \E i \in 1 .. Len(times) : idx[i] = t
    OBVIOUS
  <2> HIDE DEF R
  <2>2. idx \in Injection(1 .. Len(times), R)
    BY <1>2, <1>3, <1>4 DEF Injection, IsInjective
  <2>3. idx \in Surjection(1 .. Len(times), R)
    BY <1>3, <2>1 DEF Surjection
  <2> QED
    BY <2>2, <2>3 DEF Bijection
<1>6. ExistsBijection(1 .. Len(times), R)
  <2> HIDE DEF R
  <2> QED
    BY <1>5 DEF ExistsBijection
<1>7. Cardinality(R) = Len(times)
  <2> HIDE DEF R
  <2> QED
    BY <1>1, <1>6, FS_CountingElements
<1>8. IsFiniteSet(R)
  <2> HIDE DEF R
  <2> QED
    BY <1>1, <1>6, FS_NatBijection
<1>9. R \subseteq LetThrough(log, k)
  BY <1>2
<1> QED
  BY <1>7, <1>8, <1>9 DEF Behind

\* What the left end of a deque is popped down to: calls in the window, and all of
\* them but what a shorter window had made the limiter forget.
Recalls(idx, log, now, recent, k, per) ==
    /\ Backs(idx, recent, log, k)
    /\ \A i \in 1 .. Len(recent) : now - recent[i] < per
    /\ \A j \in LetThrough(log, k) : \/ \E i \in 1 .. Len(recent) : idx[i] = j
                                     \/ Expired(log, now, j)
                                     \/ now - log[j].at >= per

LEMMA PoppedRecalls ==
    ASSUME NEW Keys, NEW log, NEW now \in Int, NEW times, NEW k, NEW per \in Nat,
           Orderly(Keys, log, now), Remembers(log, now, times, k)
    PROVE  /\ \E idx : Recalls(idx, log, now, Recent(times, now, per), k, per)
           /\ Len(Recent(times, now, per)) <= Len(times)
<1> DEFINE recent == Recent(times, now, per)
<1>1. PICK idx : /\ Backs(idx, times, log, k)
                 /\ \A j \in LetThrough(log, k) :
                       (\E i \in 1 .. Len(times) : idx[i] = j) \/ Expired(log, now, j)
  BY DEF Remembers
<1>2. times \in Seq(Nat) /\ Len(times) \in Nat
  BY <1>1, LenProperties DEF Backs
<1>3. \A i, j \in 1 .. Len(times) : i <= j => times[i] <= times[j]
  BY <1>1, TimesSorted
<1>4. PICK gone \in 0 .. Len(times) :
              /\ recent \in Seq(Nat)
              /\ Len(recent) = Len(times) - gone
              /\ \A i \in 1 .. Len(times) - gone : recent[i] = times[gone + i]
              /\ \A i \in 1 .. Len(times) : now - times[i] < per <=> i > gone
  BY <1>2, <1>3, RecentIsTheWindow
<1> HIDE DEF recent
<1> DEFINE late == [i \in 1 .. Len(recent) |-> idx[gone + i]]
<1>5. \A i \in 1 .. Len(recent) : gone + i \in 1 .. Len(times) /\ gone + i > gone
  BY <1>2, <1>4
<1>6. Backs(late, recent, log, k)
  <2>1. late \in [1 .. Len(recent) -> LetThrough(log, k)]
    BY <1>1, <1>5 DEF Backs
  <2>2. ASSUME NEW i \in 1 .. Len(recent)
        PROVE  recent[i] = log[late[i]].at
    BY <1>1, <1>4, <1>5 DEF Backs
  <2>3. ASSUME NEW i \in 1 .. Len(recent), NEW j \in 1 .. Len(recent), i < j
        PROVE  late[i] < late[j]
    <3>1. gone + i < gone + j
      BY <2>3, <1>4
    <3>2. idx[gone + i] < idx[gone + j]
      BY <3>1, <1>1, <1>5 DEF Backs
    <3> QED
      BY <3>2
  <2> HIDE DEF late
  <2> QED
    BY <1>4, <2>1, <2>2, <2>3 DEF Backs
<1>7. \A i \in 1 .. Len(recent) : now - recent[i] < per
  BY <1>4, <1>5
<1>8. ASSUME NEW j \in LetThrough(log, k), ~ Expired(log, now, j),
             ~ (now - log[j].at >= per)
      PROVE  \E i \in 1 .. Len(recent) : late[i] = j
  <2>1. PICK i \in 1 .. Len(times) : idx[i] = j
    BY <1>1, <1>8
  <2>2. times[i] = log[j].at
    BY <1>1, <2>1 DEF Backs
  <2>3. times[i] \in Nat
    BY <1>2, ElementOfSeq
  <2>4. i > gone
    BY <2>2, <2>3, <1>4, <1>8
  <2>5. i - gone \in 1 .. Len(recent) /\ gone + (i - gone) = i
    BY <2>4, <1>2, <1>4
  <2> QED
    BY <2>1, <2>5
<1>9. Recalls(late, log, now, recent, k, per)
  <2> HIDE DEF late
  <2> QED
    BY <1>6, <1>7, <1>8 DEF Recalls
<1>10. Len(recent) <= Len(times)
  BY <1>2, <1>4
<1> QED
  BY <1>9, <1>10 DEF recent

(***************************************************************************)
(* What a call adds to the log.                                            *)
(***************************************************************************)

\* The earlier calls of the key of the last entry that are in its window at a time.
Within(log, k, per, t) == {j \in LetThrough(log, k) : t - log[j].at < per}

\* The log only grows: what was counted for an entry stays so.
LEMMA CountedStays ==
    ASSUME NEW Keys, NEW log \in Seq(LogEntries(Keys)), NEW e \in LogEntries(Keys),
           NEW i \in 1 .. Len(log), NEW t
    PROVE  /\ Append(log, e)[i] = log[i]
           /\ Counted(Append(log, e), i, t) = Counted(log, i, t)
<1>1. /\ Len(log) \in Nat
      /\ \A j \in 1 .. Len(log) : Append(log, e)[j] = log[j]
  BY AppendProperties, LenProperties
<1>2. \A j \in 1 .. i - 1 : j \in 1 .. Len(log)
  BY <1>1
<1> QED
  BY <1>1, <1>2 DEF Counted

\* What is counted for the entry that is added.
LEMMA CountedAtTheEnd ==
    ASSUME NEW Keys, NEW log \in Seq(LogEntries(Keys)), NEW e \in LogEntries(Keys), NEW t
    PROVE  /\ Append(log, e)[Len(log) + 1] = e
           /\ Counted(Append(log, e), Len(log) + 1, t) =
              Within(log, e.call.key, e.call.per, t)
<1>1. /\ Len(log) \in Nat
      /\ Append(log, e)[Len(log) + 1] = e
      /\ \A j \in 1 .. Len(log) : Append(log, e)[j] = log[j]
  BY AppendProperties, LenProperties
<1>2. (Len(log) + 1) - 1 = Len(log)
  BY <1>1
<1> QED
  BY <1>1, <1>2 DEF Counted, Within, LetThrough

\* What was let through stays so; only the new entry may be added.
LEMMA LetThroughGrows ==
    ASSUME NEW Keys, NEW log \in Seq(LogEntries(Keys)), NEW e \in LogEntries(Keys), NEW k
    PROVE  /\ LetThrough(log, k) \subseteq LetThrough(Append(log, e), k)
           /\ \A j \in LetThrough(Append(log, e), k) :
                 j \in LetThrough(log, k)
                 \/ (j = Len(log) + 1 /\ e.call.key = k /\ e.retry = 0)
           /\ (e.call.key = k /\ e.retry = 0) =>
                 Len(log) + 1 \in LetThrough(Append(log, e), k)
           /\ \A j \in LetThrough(log, k) : /\ j \in 1 .. Len(log)
                                            /\ Append(log, e)[j] = log[j]
           /\ \A now : \A j \in LetThrough(log, k) :
                 Expired(log, now, j) => Expired(Append(log, e), now, j)
<1> DEFINE more == Append(log, e)
<1>1. /\ Len(log) \in Nat
      /\ Len(more) = Len(log) + 1
      /\ more[Len(log) + 1] = e
      /\ \A j \in 1 .. Len(log) : more[j] = log[j]
  BY AppendProperties, LenProperties
<1>2. /\ 1 .. Len(more) = (1 .. Len(log)) \cup {Len(log) + 1}
  BY <1>1
<1> HIDE DEF more
<1>3. LetThrough(log, k) \subseteq LetThrough(more, k)
  BY <1>1, <1>2 DEF LetThrough
<1>4. \A j \in LetThrough(more, k) :
          j \in LetThrough(log, k)
          \/ (j = Len(log) + 1 /\ e.call.key = k /\ e.retry = 0)
  BY <1>1, <1>2 DEF LetThrough
<1>5. (e.call.key = k /\ e.retry = 0) => Len(log) + 1 \in LetThrough(more, k)
  BY <1>1, <1>2 DEF LetThrough
<1>6. \A j \in LetThrough(log, k) : j \in 1 .. Len(log) /\ more[j] = log[j]
  BY <1>1 DEF LetThrough
<1>7. ASSUME NEW now, NEW j \in LetThrough(log, k), Expired(log, now, j)
      PROVE  Expired(more, now, j)
  <2>1. PICK i \in 1 .. Len(log) : /\ log[i].call.key = log[j].call.key
                                   /\ now - log[j].at >= log[i].call.per
    BY <1>7 DEF Expired
  <2>2. i \in 1 .. Len(more) /\ more[i] = log[i] /\ more[j] = log[j]
    BY <1>1, <1>2, <1>6
  <2> QED
    BY <2>1, <2>2 DEF Expired
<1> QED
  BY <1>3, <1>4, <1>5, <1>6, <1>7 DEF more

\* The deque of another key.
LEMMA OthersRemember ==
    ASSUME NEW Keys, NEW log \in Seq(LogEntries(Keys)), NEW e \in LogEntries(Keys),
           NEW k, k # e.call.key, NEW now, NEW times, Remembers(log, now, times, k)
    PROVE  Remembers(Append(log, e), now, times, k)
<1>1. PICK idx : /\ Backs(idx, times, log, k)
                 /\ \A j \in LetThrough(log, k) :
                       (\E i \in 1 .. Len(times) : idx[i] = j) \/ Expired(log, now, j)
  BY DEF Remembers
<1> DEFINE more == Append(log, e)
<1>2. /\ LetThrough(log, k) \subseteq LetThrough(more, k)
      /\ \A j \in LetThrough(more, k) : j \in LetThrough(log, k)
      /\ \A j \in LetThrough(log, k) : more[j] = log[j]
      /\ \A j \in LetThrough(log, k) : Expired(log, now, j) => Expired(more, now, j)
  BY LetThroughGrows
<1> HIDE DEF more
<1>3. Backs(idx, times, more, k)
  BY <1>1, <1>2 DEF Backs
<1> QED
  BY <1>1, <1>2, <1>3 DEF Remembers, more

\* The deque of the key of the call.
LEMMA OwnRemembers ==
    ASSUME NEW Keys, NEW log, NEW e \in LogEntries(Keys), NEW now \in Nat,
           Orderly(Keys, log, now), e.at = now, NEW recent, NEW idx,
           Recalls(idx, log, now, recent, e.call.key, e.call.per),
           e.retry = 0 <=> Len(recent) < e.call.limit
    PROVE  Remembers(Append(log, e), now, Slot(recent, now, e.call.limit), e.call.key)
<1> DEFINE more == Append(log, e)
           k == e.call.key
           limit == e.call.limit
<1>1. log \in Seq(LogEntries(Keys)) /\ Len(log) \in Nat
  BY LenProperties DEF Orderly
<1>2. /\ LetThrough(log, k) \subseteq LetThrough(more, k)
      /\ \A j \in LetThrough(more, k) :
            j \in LetThrough(log, k) \/ (j = Len(log) + 1 /\ e.retry = 0)
      /\ e.retry = 0 => Len(log) + 1 \in LetThrough(more, k)
      /\ \A j \in LetThrough(log, k) : j \in 1 .. Len(log) /\ more[j] = log[j]
      /\ \A j \in LetThrough(log, k) : Expired(log, now, j) => Expired(more, now, j)
  BY <1>1, LetThroughGrows
<1>3. /\ Len(more) = Len(log) + 1 /\ more[Len(log) + 1] = e
  BY <1>1, AppendProperties
<1>4. /\ Backs(idx, recent, log, k)
      /\ \A j \in LetThrough(log, k) : \/ \E i \in 1 .. Len(recent) : idx[i] = j
                                       \/ Expired(log, now, j)
                                       \/ now - log[j].at >= e.call.per
  BY DEF Recalls
<1>5. recent \in Seq(Nat) /\ Len(recent) \in Nat
  BY <1>4, LenProperties DEF Backs
<1>6. limit \in Nat
  BY DEF LogEntries, CallSet
\* The call itself tells what it has popped.
<1>7. ASSUME NEW j \in LetThrough(log, k), now - log[j].at >= e.call.per
      PROVE  Expired(more, now, j)
  <2>1. Len(log) + 1 \in 1 .. Len(more)
    BY <1>1, <1>3
  <2>2. log[j].call.key = k /\ more[j] = log[j]
    BY <1>2 DEF LetThrough
  <2> QED
    BY <2>1, <2>2, <1>3, <1>7 DEF Expired
<1> HIDE DEF more
<1>8. CASE e.retry # 0
  <2>1. Slot(recent, now, limit) = recent
    BY <1>8, <1>5, <1>6 DEF Slot
  <2>2. Backs(idx, recent, more, k)
    BY <1>2, <1>4 DEF Backs
  <2>3. \A j \in LetThrough(more, k) :
            (\E i \in 1 .. Len(recent) : idx[i] = j) \/ Expired(more, now, j)
    BY <1>2, <1>4, <1>7, <1>8
  <2> QED
    BY <2>1, <2>2, <2>3 DEF Remembers, more
<1>9. CASE e.retry = 0
  <2> DEFINE slots == Append(recent, now)
             next == [i \in 1 .. Len(recent) + 1 |->
                         IF i <= Len(recent) THEN idx[i] ELSE Len(log) + 1]
  <2>1. Slot(recent, now, limit) = slots
    BY <1>9, <1>5, <1>6 DEF Slot
  <2>2. /\ slots \in Seq(Nat)
        /\ Len(slots) = Len(recent) + 1
        /\ slots[Len(recent) + 1] = now
        /\ \A i \in 1 .. Len(recent) : slots[i] = recent[i]
    BY <1>5, AppendProperties
  <2>3. \A i \in 1 .. Len(recent) : next[i] = idx[i] /\ i \in 1 .. Len(recent) + 1
    BY <1>5
  <2>4. next[Len(recent) + 1] = Len(log) + 1 /\ Len(recent) + 1 \in 1 .. Len(recent) + 1
    BY <1>5
  <2>5. \A i \in 1 .. Len(recent) + 1 : i \in 1 .. Len(recent) \/ i = Len(recent) + 1
    BY <1>5
  <2>6. DOMAIN next = 1 .. Len(recent) + 1 /\ next = [i \in 1 .. Len(recent) + 1 |-> next[i]]
    OBVIOUS
  <2> HIDE DEF slots, next
  <2>7. \A i \in 1 .. Len(recent) : /\ idx[i] \in LetThrough(log, k)
                                    /\ recent[i] = log[idx[i]].at
                                    /\ idx[i] \in 1 .. Len(log)
    BY <1>4, <1>2 DEF Backs
  <2>8. ASSUME NEW i \in 1 .. Len(recent) + 1
        PROVE  next[i] \in LetThrough(more, k) /\ slots[i] = more[next[i]].at
    <3>1. CASE i \in 1 .. Len(recent)
      <4>1. next[i] = idx[i] /\ slots[i] = recent[i]
        BY <3>1, <2>2, <2>3
      <4>2. /\ idx[i] \in LetThrough(log, k) /\ recent[i] = log[idx[i]].at
            /\ idx[i] \in 1 .. Len(log)
        BY <3>1, <2>7
      <4> QED
        BY <4>1, <4>2, <1>2
    <3>2. CASE i = Len(recent) + 1
      BY <3>2, <2>2, <2>4, <1>2, <1>3, <1>9
    <3> QED
      BY <3>1, <3>2, <2>5
  <2>9. ASSUME NEW i \in 1 .. Len(recent) + 1, NEW j \in 1 .. Len(recent) + 1, i < j
        PROVE  next[i] < next[j]
    <3>1. i \in 1 .. Len(recent)
      BY <2>9, <1>5
    <3>2. CASE j \in 1 .. Len(recent)
      BY <3>1, <3>2, <2>3, <2>9, <1>4 DEF Backs
    <3>3. CASE j = Len(recent) + 1
      BY <3>1, <3>3, <2>3, <2>4, <2>7, <1>1
    <3> QED
      BY <3>2, <3>3, <2>5
  <2>10. next \in [1 .. Len(recent) + 1 -> LetThrough(more, k)]
    BY <2>6, <2>8
  <2>11. Backs(next, slots, more, k)
    BY <2>2, <2>8, <2>9, <2>10 DEF Backs
  <2>12. ASSUME NEW j \in LetThrough(more, k)
         PROVE  (\E i \in 1 .. Len(slots) : next[i] = j) \/ Expired(more, now, j)
    <3>1. CASE j \in LetThrough(log, k)
      BY <3>1, <2>2, <2>3, <1>2, <1>4, <1>7
    <3>2. CASE j = Len(log) + 1
      BY <3>2, <2>2, <2>4
    <3> QED
      BY <3>1, <3>2, <1>2
  <2> QED
    BY <2>1, <2>11, <2>12 DEF Remembers, more
<1> QED
  BY <1>8, <1>9

(***************************************************************************)
(* The verdict on a call.                                                  *)
(***************************************************************************)

\* What IsSlidingWindow and SharedKeyErrsOpen say of one entry.
ExactAt(log, i) ==
    LET room(now) == Cardinality(Counted(log, i, now)) < log[i].call.limit
    IN /\ (log[i].retry = 0) = room(log[i].at)
       /\ log[i].retry # 0 => /\ log[i].retry > 0
                              /\ room(log[i].at + log[i].retry)
                              /\ ~room(log[i].at + log[i].retry - 1)

ErrsOpenAt(log, i) ==
    LET full == Cardinality(Counted(log, i, log[i].at)) >= log[i].call.limit
    IN /\ log[i].retry # 0 => full
       /\ (log[i].retry = 0 /\ full) =>
             \E j \in 1 .. i - 1 : /\ log[j].call.key = log[i].call.key
                                   /\ log[j].call.per < log[i].call.per

\* The verdict on an entry does not change as the log grows.
LEMMA VerdictStays ==
    ASSUME NEW Keys, NEW log \in Seq(LogEntries(Keys)), NEW e \in LogEntries(Keys),
           NEW i \in 1 .. Len(log)
    PROVE  /\ ErrsOpenAt(log, i) => ErrsOpenAt(Append(log, e), i)
           /\ ExactAt(log, i) => ExactAt(Append(log, e), i)
<1> DEFINE more == Append(log, e)
<1>1. more[i] = log[i] /\ \A t : Counted(more, i, t) = Counted(log, i, t)
  BY CountedStays
<1>2. \A j \in 1 .. i - 1 : more[j] = log[j]
  <2>1. \A j \in 1 .. i - 1 : j \in 1 .. Len(log)
    BY LenProperties
  <2> QED
    BY <2>1, CountedStays
<1> HIDE DEF more
<1>3. ErrsOpenAt(log, i) => ErrsOpenAt(more, i)
  BY <1>1, <1>2 DEF ErrsOpenAt
<1>4. ExactAt(log, i) => ExactAt(more, i)
  BY <1>1, Zenon DEF ExactAt
<1> QED
  BY <1>3, <1>4 DEF more

\* What the deque holds is in the window; what it lacks, an earlier call with a
\* shorter window has made it forget.
LEMMA RecalledIsWithin ==
    ASSUME NEW Keys, NEW log, NEW now \in Nat, NEW k, NEW per \in Nat,
           Orderly(Keys, log, now), NEW recent, NEW idx,
           Recalls(idx, log, now, recent, k, per)
    PROVE  /\ Behind(idx, recent) \subseteq Within(log, k, per, now)
           /\ IsFiniteSet(Behind(idx, recent))
           /\ Cardinality(Behind(idx, recent)) = Len(recent)
           /\ Behind(idx, recent) # Within(log, k, per, now) =>
                 \E j \in 1 .. Len(log) : log[j].call.key = k /\ log[j].call.per < per
<1> DEFINE R == Behind(idx, recent)
<1>1. log \in Seq(LogEntries(Keys)) /\ Len(log) \in Nat
  BY LenProperties DEF Orderly
<1>2. R \subseteq LetThrough(log, k) /\ IsFiniteSet(R) /\ Cardinality(R) = Len(recent)
  BY <1>1, BackedCount DEF Recalls
<1>3. \A i \in 1 .. Len(recent) : now - log[idx[i]].at < per
  BY DEF Recalls, Backs
<1>4. R \subseteq Within(log, k, per, now)
  BY <1>2, <1>3 DEF Within, Behind
<1>5. ASSUME NEW j \in Within(log, k, per, now), j \notin R
      PROVE  \E i \in 1 .. Len(log) : log[i].call.key = k /\ log[i].call.per < per
  <2>1. /\ j \in LetThrough(log, k) /\ j \in 1 .. Len(log) /\ log[j].call.key = k
        /\ now - log[j].at < per
    BY DEF Within, LetThrough
  <2>2. log[j].at \in Nat
    BY <2>1, <1>1, EntryOfLog
  <2>3. Expired(log, now, j)
    BY <2>1, <2>2, <1>5 DEF Recalls, Behind
  <2>4. PICK i \in 1 .. Len(log) : /\ log[i].call.key = k
                                   /\ now - log[j].at >= log[i].call.per
    BY <2>1, <2>3 DEF Expired
  <2>5. log[i].call.per \in Nat
    BY <1>1, EntryOfLog
  <2>6. log[i].call.per < per
    BY <2>1, <2>2, <2>4, <2>5
  <2> QED
    BY <2>4, <2>6
<1> QED
  BY <1>2, <1>4, <1>5

LEMMA WithinIsFinite ==
    ASSUME NEW log, Len(log) \in Nat, NEW k, NEW per, NEW t
    PROVE  /\ IsFiniteSet(Within(log, k, per, t))
           /\ Cardinality(Within(log, k, per, t)) \in Nat
<1>1. Within(log, k, per, t) \subseteq 1 .. Len(log)
  BY DEF Within, LetThrough
<1>2. IsFiniteSet(1 .. Len(log))
  BY FS_Interval
<1> QED
  BY <1>1, <1>2, FS_Subset, FS_CardinalityType

\* What check answers, from the times in the window.
Answer(recent, now, call) ==
    IF Len(recent) < call.limit THEN 0
    ELSE IF recent = <<>> THEN -1
    ELSE call.per - (now - recent[1])

\* A refused call is told to wait.
LEMMA AnswerSign ==
    ASSUME NEW Keys, NEW call \in CallSet(Keys), NEW now \in Nat, NEW recent \in Seq(Nat),
           \A i \in 1 .. Len(recent) : now - recent[i] < call.per
    PROVE  /\ Answer(recent, now, call) \in Nat
           /\ Answer(recent, now, call) = 0 <=> Len(recent) < call.limit
           /\ Answer(recent, now, call) # 0 =>
                 /\ 1 \in 1 .. Len(recent)
                 /\ Answer(recent, now, call) = call.per - (now - recent[1])
<1>1. call.limit \in Nat /\ call.limit >= 1 /\ call.per \in Nat
  <2>1. call.limit \in Nat \ {0} /\ call.per \in Nat
    BY DEF CallSet
  <2> QED
    BY <2>1
<1>2. Len(recent) \in Nat
  BY LenProperties
<1>3. CASE Len(recent) < call.limit
  BY <1>3 DEF Answer
<1>4. CASE ~ (Len(recent) < call.limit)
  <2>1. 1 \in 1 .. Len(recent)
    BY <1>1, <1>2, <1>4
  <2>2. recent # <<>>
    BY <2>1, <1>2, EmptySeq
  <2>3. recent[1] \in Nat /\ now - recent[1] < call.per
    BY <2>1, ElementOfSeq
  <2> QED
    BY <1>1, <1>4, <2>1, <2>2, <2>3 DEF Answer
<1> QED
  BY <1>3, <1>4

\* The verdict on the call that is added: it errs on the open side, and only after
\* a call with a shorter window.
LEMMA NewVerdictErrsOpen ==
    ASSUME NEW Keys, NEW log, NEW e \in LogEntries(Keys), NEW now \in Nat,
           Orderly(Keys, log, now), e.at = now, NEW recent, NEW idx,
           Recalls(idx, log, now, recent, e.call.key, e.call.per),
           e.retry = Answer(recent, now, e.call)
    PROVE  ErrsOpenAt(Append(log, e), Len(log) + 1)
<1> DEFINE more == Append(log, e)
           R == Behind(idx, recent)
           W == Within(log, e.call.key, e.call.per, now)
<1>1. log \in Seq(LogEntries(Keys)) /\ Len(log) \in Nat
  BY LenProperties DEF Orderly
<1>2. e.call \in CallSet(Keys) /\ e.call.per \in Nat /\ e.call.limit \in Nat
  BY DEF LogEntries, CallSet
<1>3. recent \in Seq(Nat) /\ Len(recent) \in Nat
  BY LenProperties DEF Recalls, Backs
<1>4. e.retry = 0 <=> Len(recent) < e.call.limit
  BY <1>2, <1>3, AnswerSign DEF Recalls
<1>5. /\ R \subseteq W /\ IsFiniteSet(R) /\ Cardinality(R) = Len(recent)
      /\ R # W => \E j \in 1 .. Len(log) : /\ log[j].call.key = e.call.key
                                           /\ log[j].call.per < e.call.per
  <2> DEFINE k == e.call.key
             per == e.call.per
  <2>1. per \in Nat /\ Recalls(idx, log, now, recent, k, per)
    BY <1>2
  <2>2. W = Within(log, k, per, now)
    OBVIOUS
  <2>3. SUFFICES /\ R \subseteq W /\ IsFiniteSet(R) /\ Cardinality(R) = Len(recent)
                 /\ R # W => \E j \in 1 .. Len(log) : /\ log[j].call.key = k
                                                      /\ log[j].call.per < per
    OBVIOUS
  <2> HIDE DEF k, per, W
  <2> QED
    BY <2>1, <2>2, RecalledIsWithin
<1>6. IsFiniteSet(W) /\ Cardinality(W) \in Nat
  BY <1>1, WithinIsFinite
<1>7. more[Len(log) + 1] = e /\ Counted(more, Len(log) + 1, now) = W
  BY <1>1, CountedAtTheEnd
<1>8. \A j \in 1 .. Len(log) : more[j] = log[j]
  BY <1>1, AppendProperties
<1>9. Len(recent) <= Cardinality(W)
  <2> HIDE DEF R, W
  <2> QED
    BY <1>5, <1>6, FS_Subset
<1>10. (Len(log) + 1) - 1 = Len(log)
  BY <1>1
<1> HIDE DEF more, R, W
<1>11. e.retry # 0 => Cardinality(W) >= e.call.limit
  BY <1>2, <1>3, <1>4, <1>6, <1>9
<1>12. e.retry = 0 /\ Cardinality(W) >= e.call.limit =>
           \E j \in 1 .. Len(log) : /\ more[j].call.key = e.call.key
                                    /\ more[j].call.per < e.call.per
  <2>1. e.retry = 0 /\ Cardinality(W) >= e.call.limit => R # W
    BY <1>2, <1>3, <1>4, <1>5, <1>6
  <2> QED
    BY <2>1, <1>5, <1>8
<1>13. ErrsOpenAt(more, Len(log) + 1)
  BY <1>7, <1>10, <1>11, <1>12 DEF ErrsOpenAt
<1> QED
  BY <1>13 DEF more

\* When the key has this window only, the verdict is exact.
LEMMA NewVerdictIsExact ==
    ASSUME NEW Keys, NEW log, NEW e \in LogEntries(Keys), NEW now \in Nat,
           Orderly(Keys, log, now), e.at = now, NEW recent, NEW idx,
           Recalls(idx, log, now, recent, e.call.key, e.call.per),
           e.retry = Answer(recent, now, e.call),
           \A i \in 1 .. Len(log) : log[i].call.key = e.call.key =>
               log[i].call.per = e.call.per,
           Len(recent) <= e.call.limit
    PROVE  ExactAt(Append(log, e), Len(log) + 1)
<1> DEFINE more == Append(log, e)
           R == Behind(idx, recent)
           W(t) == Within(log, e.call.key, e.call.per, t)
<1>1. log \in Seq(LogEntries(Keys)) /\ Len(log) \in Nat
  BY LenProperties DEF Orderly
<1>2. /\ e.call \in CallSet(Keys) /\ e.call.per \in Nat /\ e.call.limit \in Nat
      /\ e.retry \in Int
  BY DEF LogEntries, CallSet
<1>3. recent \in Seq(Nat) /\ Len(recent) \in Nat
  BY LenProperties DEF Recalls, Backs
<1>4. /\ e.retry \in Nat
      /\ e.retry = 0 <=> Len(recent) < e.call.limit
      /\ e.retry # 0 => 1 \in 1 .. Len(recent) /\ e.retry = e.call.per - (now - recent[1])
  BY <1>2, <1>3, AnswerSign DEF Recalls
<1>5. R = W(now) /\ IsFiniteSet(R) /\ Cardinality(R) = Len(recent)
  <2>1. /\ IsFiniteSet(R) /\ Cardinality(R) = Len(recent)
        /\ R # W(now) => \E j \in 1 .. Len(log) : /\ log[j].call.key = e.call.key
                                                  /\ log[j].call.per < e.call.per
    <3> DEFINE k == e.call.key
               per == e.call.per
               V == W(now)
    <3>1. per \in Nat /\ Recalls(idx, log, now, recent, k, per)
      BY <1>2
    <3>2. V = Within(log, k, per, now)
      OBVIOUS
    <3>3. SUFFICES /\ IsFiniteSet(R) /\ Cardinality(R) = Len(recent)
                   /\ R # V => \E j \in 1 .. Len(log) : /\ log[j].call.key = k
                                                        /\ log[j].call.per < per
      OBVIOUS
    <3> HIDE DEF k, per, V
    <3> QED
      BY <3>1, <3>2, RecalledIsWithin
  <2>2. ~ \E j \in 1 .. Len(log) : /\ log[j].call.key = e.call.key
                                   /\ log[j].call.per < e.call.per
    BY <1>2
  <2> HIDE DEF R, W
  <2> QED
    BY <2>1, <2>2
<1>6. \A t : IsFiniteSet(W(t)) /\ Cardinality(W(t)) \in Nat
  BY <1>1, WithinIsFinite
<1>7. more[Len(log) + 1] = e /\ \A t : Counted(more, Len(log) + 1, t) = W(t)
  BY <1>1, CountedAtTheEnd
<1>8. \A j \in LetThrough(log, e.call.key) : log[j].at \in Nat /\ j \in 1 .. Len(log)
  BY <1>1, EntryOfLog DEF LetThrough
<1>9. ASSUME e.retry # 0
      PROVE  /\ Cardinality(W(now + e.retry)) < e.call.limit
             /\ ~ (Cardinality(W(now + e.retry - 1)) < e.call.limit)
  <2> DEFINE first == recent[1]
  <2>1. first \in Nat /\ 1 \in 1 .. Len(recent)
    BY <1>3, <1>4, <1>9, ElementOfSeq
  <2>2. e.retry = e.call.per - (now - first) /\ e.retry > 0
    BY <1>4, <1>9
  <2>3. \A i \in 1 .. Len(recent) : first <= recent[i] /\ recent[i] \in Nat
    BY <1>3, <2>1, TimesSorted, ElementOfSeq DEF Recalls
  <2>4. /\ idx[1] \in LetThrough(log, e.call.key) /\ log[idx[1]].at = first
        /\ \A i \in 1 .. Len(recent) : log[idx[i]].at = recent[i]
        /\ R \subseteq LetThrough(log, e.call.key)
    BY <2>1 DEF Recalls, Backs, Behind
  <2>5. idx[1] \in R
    BY <2>1 DEF Behind
  <2>6. W(now + e.retry) \subseteq R \ {idx[1]}
    <3> SUFFICES ASSUME NEW j \in W(now + e.retry)
                 PROVE  j \in W(now) /\ j # idx[1]
      BY <1>5
    <3>1. j \in LetThrough(log, e.call.key) /\ (now + e.retry) - log[j].at < e.call.per
      BY DEF Within
    <3>2. log[j].at \in Nat
      BY <3>1, <1>8
    <3>3. first < log[j].at
      BY <3>1, <3>2, <2>1, <2>2, <1>2
    <3>4. now - log[j].at < e.call.per
      BY <3>1, <3>2, <2>2, <1>2
    <3>5. j # idx[1]
      BY <3>3, <2>1, <2>4
    <3> QED
      BY <3>1, <3>4, <3>5 DEF Within
  <2>7. R \subseteq W(now + e.retry - 1)
    <3> SUFFICES ASSUME NEW i \in 1 .. Len(recent)
                 PROVE  idx[i] \in W(now + e.retry - 1)
      BY DEF Behind
    <3>1. (now + e.retry - 1) - recent[i] < e.call.per
      BY <2>1, <2>2, <2>3, <1>2, SMTT(30)
    <3>2. idx[i] \in LetThrough(log, e.call.key) /\ log[idx[i]].at = recent[i]
      BY <2>4 DEF Behind
    <3> QED
      BY <3>1, <3>2 DEF Within
  <2> HIDE DEF R, W, first
  <2>8. IsFiniteSet(R \ {idx[1]}) /\ Cardinality(R \ {idx[1]}) = Len(recent) - 1
    BY <2>5, <1>5, FS_RemoveElement
  <2>9. Cardinality(W(now + e.retry)) <= Len(recent) - 1
    BY <2>6, <2>8, FS_Subset
  <2>10. Len(recent) <= Cardinality(W(now + e.retry - 1))
    BY <2>7, <1>5, <1>6, FS_Subset
  <2>11. ~ (Len(recent) < e.call.limit)
    BY <1>4, <1>9
  <2>12. /\ Cardinality(W(now + e.retry)) \in Nat
         /\ Cardinality(W(now + e.retry - 1)) \in Nat
    BY <1>6
  <2> QED
    BY <2>9, <2>10, <2>11, <2>12, <1>2, <1>3
<1>10. (e.retry = 0) = (Cardinality(W(now)) < e.call.limit)
  <2> HIDE DEF R, W
  <2> QED
    BY <1>4, <1>5
<1> HIDE DEF more, R, W
<1>11. e.retry # 0 => e.retry > 0
  BY <1>4
<1>12. ExactAt(more, Len(log) + 1)
  BY <1>7, <1>9, <1>10, <1>11 DEF ExactAt
<1> QED
  BY <1>12 DEF more

(***************************************************************************)
(* One call after the other.                                               *)
(***************************************************************************)

\* The parts of a check.
LongestPer(limiter, call) == IF call.per > limiter.maxPer THEN call.per ELSE limiter.maxPer
Swept(limiter, now, call) ==
    IF limiter.checks + 1 >= SweepEvery
    THEN Sweep(limiter.hits, now, LongestPer(limiter, call)) ELSE limiter.hits
Popped(limiter, now, call) ==
    Recent(TimesOf(Swept(limiter, now, call), call.key), now, call.per)

LEMMA CheckByParts ==
    ASSUME NEW limiter, NEW now, NEW call
    PROVE  LET checked == Check(limiter, now, call)
           IN /\ checked.retry = Answer(Popped(limiter, now, call), now, call)
              /\ checked.limiter.maxPer = LongestPer(limiter, call)
              /\ TimesOf(checked.limiter.hits, call.key) =
                 Slot(Popped(limiter, now, call), now, call.limit)
              /\ \A k : k # call.key =>
                    TimesOf(checked.limiter.hits, k) = TimesOf(Swept(limiter, now, call), k)
<1> DEFINE checked == Check(limiter, now, call)
           swept == Swept(limiter, now, call)
           recent == Popped(limiter, now, call)
           hits == [k \in DOMAIN swept \cup {call.key} |->
                       IF k = call.key THEN Slot(recent, now, call.limit) ELSE swept[k]]
<1>1. checked.retry = Answer(recent, now, call)
  BY DEF Check, Answer, Popped, Swept, LongestPer, TimesOf
<1>2. checked.limiter.maxPer = LongestPer(limiter, call)
  BY DEF Check, LongestPer
<1>3. checked.limiter.hits = hits
  BY DEF Check, Popped, Swept, LongestPer, TimesOf
<1> HIDE DEF checked, swept, recent
<1>4. DOMAIN hits = DOMAIN swept \cup {call.key}
  OBVIOUS
<1>5. hits[call.key] = Slot(recent, now, call.limit)
  OBVIOUS
<1>6. \A k \in DOMAIN swept : k # call.key => hits[k] = swept[k]
  OBVIOUS
<1> HIDE DEF hits
<1>7. TimesOf(hits, call.key) = Slot(recent, now, call.limit)
  BY <1>4, <1>5 DEF TimesOf
<1>8. \A k : k # call.key => TimesOf(hits, k) = TimesOf(swept, k)
  BY <1>4, <1>6 DEF TimesOf
<1> QED
  BY <1>1, <1>2, <1>3, <1>7, <1>8 DEF checked, swept, recent

\* What holds after n calls: the limiter remembers what it needs of the log, and
\* every verdict so far is right.
Kept(Keys, st) ==
    /\ st.now \in Nat
    /\ Orderly(Keys, st.log, st.now)
    /\ st.limiter.maxPer \in Nat
    /\ \A i \in 1 .. Len(st.log) : st.log[i].call.per <= st.limiter.maxPer
    /\ \A k : Remembers(st.log, st.now, TimesOf(st.limiter.hits, k), k)

Judged(log) == \A i \in 1 .. Len(log) : ErrsOpenAt(log, i)

\* With a window of its own for each key, a deque never holds more than its limit.
SingleWindow(log) ==
    \A i, j \in 1 .. Len(log) : log[i].call.key = log[j].call.key =>
        log[i].call.limit = log[j].call.limit /\ log[i].call.per = log[j].call.per
KeptExact(st) ==
    /\ \A i \in 1 .. Len(st.log) : ExactAt(st.log, i)
    /\ \A i \in 1 .. Len(st.log) :
          Len(TimesOf(st.limiter.hits, st.log[i].call.key)) <= st.log[i].call.limit

LEMMA StartIsKept ==
    ASSUME NEW Keys
    PROVE  /\ Kept(Keys, Started)
           /\ Judged(Started.log)
           /\ KeptExact(Started)
           /\ Started.log = <<>>
<1>1. /\ Started.now = 0 /\ Started.log = <<>>
      /\ Started.limiter.maxPer = 0 /\ Started.limiter.hits = <<>>
  BY DEF Started, NewLimiter
<1>2. <<>> \in Seq(LogEntries(Keys)) /\ <<>> \in Seq(Nat) /\ Len(<<>>) = 0
  BY EmptySeq
<1>3. Orderly(Keys, <<>>, 0)
  BY <1>2 DEF Orderly
<1>4. ASSUME NEW k
      PROVE  Remembers(<<>>, 0, TimesOf(<<>>, k), k)
  <2>1. TimesOf(<<>>, k) = <<>>
    BY DEF TimesOf
  <2> DEFINE none == [i \in 1 .. 0 |-> i]
  <2>2. Backs(none, <<>>, <<>>, k)
    BY <1>2 DEF Backs
  <2>3. LetThrough(<<>>, k) = {}
    BY <1>2 DEF LetThrough
  <2>4. \E idx : Backs(idx, <<>>, <<>>, k)
    BY <2>2
  <2> QED
    BY <2>1, <2>3, <2>4 DEF Remembers
<1> QED
  BY <1>1, <1>2, <1>3, <1>4 DEF Kept, Judged, KeptExact

\* The log of the calls so far, in order, and what a call adds to it.
LEMMA PlayAdds ==
    ASSUME NEW st, NEW call
    PROVE  LET now == st.now + call.wait
           IN /\ Play(st, call).now = now
              /\ Play(st, call).limiter = Check(st.limiter, now, call).limiter
              /\ Play(st, call).log =
                 Append(st.log, [at |-> now, call |-> call,
                                 retry |-> Check(st.limiter, now, call).retry])
BY DEF Play

\* A call keeps what holds.
LEMMA PlayKeeps ==
    ASSUME NEW Keys, NEW st, NEW call \in CallSet(Keys), Kept(Keys, st)
    PROVE  LET next == Play(st, call)
           IN /\ Kept(Keys, next)
              /\ Len(next.log) = Len(st.log) + 1
              /\ \A i \in 1 .. Len(st.log) : next.log[i] = st.log[i]
              /\ next.log[Len(st.log) + 1].call = call
              /\ Judged(st.log) => Judged(next.log)
              /\ KeptExact(st) /\ SingleWindow(next.log) => KeptExact(next)
<1> DEFINE next == Play(st, call)
           now == st.now + call.wait
           log == st.log
           limiter == st.limiter
           k == call.key
           recent == Popped(limiter, now, call)
           e == [at |-> now, call |-> call, retry |-> Answer(recent, now, call)]
           more == Append(log, e)
           swept == Swept(limiter, now, call)
<1>1. /\ call.wait \in Nat /\ call.per \in Nat /\ call.limit \in Nat
      /\ call.limit >= 1 /\ call.key \in Keys
  <2>1. call.wait \in Nat /\ call.per \in Nat /\ call.limit \in Nat \ {0} /\ call.key \in Keys
    BY DEF CallSet
  <2> QED
    BY <2>1
<1>2. st.now \in Nat /\ now \in Nat /\ st.now <= now
  BY <1>1 DEF Kept
<1>3. /\ next.now = now
      /\ next.limiter.maxPer = LongestPer(limiter, call)
      /\ TimesOf(next.limiter.hits, k) = Slot(recent, now, call.limit)
      /\ \A l : l # k => TimesOf(next.limiter.hits, l) = TimesOf(swept, l)
      /\ next.log = more
  BY PlayAdds, CheckByParts
<1> HIDE DEF next, now, recent, swept
<1>4. limiter.maxPer \in Nat /\ Orderly(Keys, log, st.now)
  BY DEF Kept
<1>5. log \in Seq(LogEntries(Keys)) /\ Len(log) \in Nat
  BY <1>4, LenProperties DEF Orderly
<1>6. Orderly(Keys, log, now)
  BY <1>2, <1>4, TimePasses DEF Kept
<1>7. /\ LongestPer(limiter, call) \in Nat
      /\ call.per <= LongestPer(limiter, call)
      /\ limiter.maxPer <= LongestPer(limiter, call)
  BY <1>1, <1>4 DEF LongestPer
<1>8. \A i \in 1 .. Len(log) : log[i].call.per <= LongestPer(limiter, call)
  <2>1. \A i \in 1 .. Len(log) : log[i].call.per \in Nat /\ log[i].call.per <= limiter.maxPer
    BY <1>5, EntryOfLog DEF Kept
  <2> QED
    BY <2>1, <1>4, <1>7
<1>9. ASSUME NEW l
      PROVE  Remembers(log, now, TimesOf(swept, l), l)
  <2>1. Remembers(log, st.now, TimesOf(limiter.hits, l), l)
    BY DEF Kept
  <2>2. Remembers(log, now, TimesOf(limiter.hits, l), l)
    <3> DEFINE before == st.now
               times == TimesOf(limiter.hits, l)
    <3>1. /\ before \in Int /\ now \in Int /\ before <= now
          /\ Orderly(Keys, log, before) /\ Remembers(log, before, times, l)
      BY <2>1, <1>2, <1>4
    <3> HIDE DEF before, times, log
    <3>2. Remembers(log, now, times, l)
      BY <3>1, TimePasses
    <3> QED
      BY <3>2 DEF times
  <2>3. Remembers(log, now, TimesOf(Sweep(limiter.hits, now, LongestPer(limiter, call)), l), l)
    BY <2>2, <1>2, <1>6, <1>7, <1>8, SweepForgetsExpired
  <2> QED
    BY <2>2, <2>3 DEF swept, Swept
<1>10. PICK idx : Recalls(idx, log, now, recent, k, call.per)
  BY <1>1, <1>2, <1>6, <1>9, PoppedRecalls DEF recent, Popped, swept
<1>11. recent \in Seq(Nat) /\ Len(recent) \in Nat
  BY <1>10, LenProperties DEF Recalls, Backs
<1>12. /\ Answer(recent, now, call) \in Nat
       /\ Answer(recent, now, call) = 0 <=> Len(recent) < call.limit
  BY <1>2, <1>10, <1>11, AnswerSign DEF Recalls
<1>13. /\ e.at = now /\ e.call = call /\ e.retry = Answer(recent, now, call)
       /\ e \in LogEntries(Keys)
  BY <1>2, <1>12 DEF LogEntries
<1> HIDE DEF e
<1>14. /\ more \in Seq(LogEntries(Keys))
       /\ Len(more) = Len(log) + 1
       /\ \A i \in 1 .. Len(log) : more[i] = log[i]
       /\ more[Len(log) + 1] = e
  BY <1>5, <1>13, AppendProperties
<1>15. \A i \in 1 .. Len(more) : i \in 1 .. Len(log) \/ i = Len(log) + 1
  BY <1>5, <1>14
<1> HIDE DEF k, log, more
<1>16. Orderly(Keys, more, now)
  <2>1. \A i \in 1 .. Len(log) : log[i].at \in Nat /\ log[i].at <= now
    BY <1>5, <1>6, EntryOfLog DEF Orderly
  <2>2. \A i \in 1 .. Len(more) : more[i].at <= now
    BY <2>1, <1>2, <1>13, <1>14, <1>15
  <2>3. ASSUME NEW i \in 1 .. Len(more), NEW j \in 1 .. Len(more), i <= j
        PROVE  more[i].at <= more[j].at
    <3>1. CASE j = Len(log) + 1
      BY <3>1, <2>2, <1>13, <1>14
    <3>2. CASE j \in 1 .. Len(log)
      <4>1. i \in 1 .. Len(log)
        BY <3>2, <2>3, <1>15, <1>5
      <4> QED
        BY <4>1, <3>2, <2>3, <1>6, <1>14 DEF Orderly
    <3> QED
      BY <3>1, <3>2, <1>15
  <2> QED
    BY <2>2, <2>3, <1>14 DEF Orderly
<1>17. \A i \in 1 .. Len(more) : more[i].call.per <= LongestPer(limiter, call)
  BY <1>7, <1>8, <1>13, <1>14, <1>15
<1>18. e.call.key = k
  BY <1>13 DEF k
<1>19. Recalls(idx, log, now, recent, e.call.key, e.call.per)
  BY <1>10, <1>13, <1>18
<1>20. ASSUME NEW l
       PROVE  Remembers(more, now, TimesOf(next.limiter.hits, l), l)
  <2>1. CASE l = k
    <3>1. e.retry = 0 <=> Len(recent) < e.call.limit
      BY <1>12, <1>13
    <3>2. Remembers(more, now, Slot(recent, now, e.call.limit), e.call.key)
      BY <3>1, <1>2, <1>6, <1>13, <1>19, OwnRemembers DEF more
    <3> QED
      BY <3>2, <2>1, <1>3, <1>13, <1>18
  <2>2. CASE l # k
    <3>1. Remembers(more, now, TimesOf(swept, l), l)
      BY <2>2, <1>5, <1>9, <1>13, <1>18, OthersRemember DEF more
    <3> QED
      BY <3>1, <2>2, <1>3
  <2> QED
    BY <2>1, <2>2
<1>21. Kept(Keys, next)
  BY <1>2, <1>3, <1>7, <1>16, <1>17, <1>20 DEF Kept
<1>22. Judged(log) => Judged(more)
  <2> SUFFICES ASSUME Judged(log), NEW i \in 1 .. Len(more)
               PROVE  ErrsOpenAt(more, i)
    BY DEF Judged
  <2>1. CASE i \in 1 .. Len(log)
    BY <2>1, <1>5, <1>13, VerdictStays DEF Judged, more
  <2>2. CASE i = Len(log) + 1
    <3>1. e.retry = Answer(recent, now, e.call)
      BY <1>13
    <3>2. ErrsOpenAt(Append(log, e), Len(log) + 1)
      BY <3>1, <1>2, <1>6, <1>13, <1>19, NewVerdictErrsOpen
    <3> QED
      BY <3>2, <2>2 DEF more
  <2> QED
    BY <2>1, <2>2, <1>15
<1>23. ASSUME KeptExact(st), SingleWindow(more)
       PROVE  KeptExact(next)
  <2>1. \A i \in 1 .. Len(log) : log[i].call.key = k =>
            log[i].call.per = call.per /\ log[i].call.limit = call.limit
    <3> SUFFICES ASSUME NEW i \in 1 .. Len(log), log[i].call.key = k
                 PROVE  log[i].call.per = call.per /\ log[i].call.limit = call.limit
      OBVIOUS
    <3>1. /\ i \in 1 .. Len(more) /\ Len(log) + 1 \in 1 .. Len(more)
          /\ more[i] = log[i] /\ more[Len(log) + 1] = e
      BY <1>5, <1>14
    <3> QED
      BY <3>1, <1>13, <1>18, <1>23 DEF SingleWindow
  <2>2. Len(TimesOf(swept, k)) <= call.limit /\ Len(TimesOf(swept, k)) \in Nat
    <3>1. PICK ix : /\ Backs(ix, TimesOf(swept, k), log, k)
      BY <1>9 DEF Remembers
    <3>2. Len(TimesOf(swept, k)) \in Nat
      BY <3>1, LenProperties DEF Backs
    <3>3. CASE \E i \in 1 .. Len(log) : log[i].call.key = k
      <4>1. Len(TimesOf(limiter.hits, k)) <= call.limit
        BY <3>3, <2>1, <1>23 DEF KeptExact, log
      <4>2. \/ TimesOf(swept, k) = TimesOf(limiter.hits, k)
            \/ TimesOf(swept, k) = <<>>
        BY DEF swept, Swept, TimesOf, Sweep
      <4>3. Len(<<>>) = 0
        BY EmptySeq
      <4> QED
        BY <4>1, <4>2, <4>3, <3>2, <1>1
    <3>4. CASE ~ \E i \in 1 .. Len(log) : log[i].call.key = k
      <4>1. LetThrough(log, k) = {}
        BY <3>4 DEF LetThrough
      <4>2. ~ (1 \in 1 .. Len(TimesOf(swept, k)))
        BY <4>1, <3>1 DEF Backs
      <4> QED
        BY <4>2, <3>2, <1>1
    <3> QED
      BY <3>2, <3>3, <3>4
  <2>3. Len(recent) <= call.limit
    <3>1. Len(recent) <= Len(TimesOf(swept, k))
      BY <1>1, <1>2, <1>6, <1>9, PoppedRecalls DEF recent, Popped, swept, k
    <3> QED
      BY <3>1, <2>2, <1>1, <1>11
  <2>4. \A i \in 1 .. Len(more) : ExactAt(more, i)
    <3> SUFFICES ASSUME NEW i \in 1 .. Len(more)
                 PROVE  ExactAt(more, i)
      OBVIOUS
    <3>1. CASE i \in 1 .. Len(log)
      BY <3>1, <1>5, <1>13, <1>23, VerdictStays DEF KeptExact, more, log
    <3>2. CASE i = Len(log) + 1
      <4>1. e.retry = Answer(recent, now, e.call)
        BY <1>13
      <4>2. Len(recent) <= e.call.limit
        BY <2>3, <1>13
      <4>3. \A j \in 1 .. Len(log) : log[j].call.key = e.call.key =>
               log[j].call.per = e.call.per
        BY <2>1, <1>13, <1>18
      <4>4. ExactAt(Append(log, e), Len(log) + 1)
        BY <4>1, <4>2, <4>3, <1>2, <1>6, <1>13, <1>19, NewVerdictIsExact
      <4> QED
        BY <4>4, <3>2 DEF more
    <3> QED
      BY <3>1, <3>2, <1>15
  <2>5. Len(Slot(recent, now, call.limit)) <= call.limit
    <3>1. Len(recent) < call.limit => Len(Append(recent, now)) = Len(recent) + 1
      BY <1>2, <1>11, AppendProperties
    <3> QED
      BY <3>1, <2>3, <1>1, <1>11 DEF Slot
  <2>6. ASSUME NEW i \in 1 .. Len(more)
        PROVE  Len(TimesOf(next.limiter.hits, more[i].call.key)) <= more[i].call.limit
    <3>1. CASE more[i].call.key = k
      <4>1. more[i].call.limit = call.limit
        BY <3>1, <2>1, <1>13, <1>14, <1>15
      <4> QED
        BY <4>1, <3>1, <2>5, <1>3
    <3>2. CASE more[i].call.key # k
      <4> DEFINE l == more[i].call.key
      <4>1. i \in 1 .. Len(log) /\ more[i] = log[i]
        BY <3>2, <1>13, <1>14, <1>15, <1>18
      <4>2. Len(TimesOf(limiter.hits, l)) <= log[i].call.limit
        BY <4>1, <1>23 DEF KeptExact, log
      <4>3. log[i].call.limit \in Nat
        BY <4>1, <1>5, EntryOfLog
      <4>4. TimesOf(next.limiter.hits, l) = TimesOf(swept, l)
        BY <3>2, <1>3
      <4>5. \/ TimesOf(swept, l) = TimesOf(limiter.hits, l)
            \/ TimesOf(swept, l) = <<>>
        BY DEF swept, Swept, TimesOf, Sweep
      <4>6. Len(<<>>) = 0
        BY EmptySeq
      <4> QED
        BY <4>1, <4>2, <4>3, <4>4, <4>5, <4>6
    <3> QED
      BY <3>1, <3>2
  <2> QED
    BY <2>4, <2>6, <1>3 DEF KeptExact
<1>24. /\ next.log = more
       /\ more[Len(log) + 1].call = call
  BY <1>3, <1>13, <1>14
<1> QED
  BY <1>14, <1>21, <1>22, <1>23, <1>24 DEF next, log

\* After any number of calls of a schedule.
LEMMA EveryPlayIsKept ==
    ASSUME NEW Keys, NEW schedule \in Seq(CallSet(Keys))
    PROVE  \A n \in 0 .. Len(schedule) :
              LET st == Played(schedule)[n]
              IN /\ Kept(Keys, st)
                 /\ Len(st.log) = n
                 /\ \A i \in 1 .. n : st.log[i].call = schedule[i]
                 /\ Judged(st.log)
                 /\ OwnWindows(schedule) => KeptExact(st)
<1>1. Len(schedule) \in Nat /\ DOMAIN schedule = 1 .. Len(schedule)
  BY LenProperties
<1> DEFINE played == Played(schedule)
           Right(n) == /\ Kept(Keys, played[n])
                       /\ Len(played[n].log) = n
                       /\ \A i \in 1 .. n : played[n].log[i].call = schedule[i]
                       /\ Judged(played[n].log)
                       /\ OwnWindows(schedule) => KeptExact(played[n])
           S == {n \in Nat : n <= Len(schedule) => Right(n)}
<1>2. /\ played[0] = Started
      /\ \A n \in 1 .. Len(schedule) : played[n] = Play(played[n - 1], schedule[n])
  BY <1>1, PlayedStepByStep
<1> HIDE DEF played
<1>3. 0 \in S
  <2>1. Len(Started.log) = 0
    BY StartIsKept, EmptySeq
  <2>2. Right(0)
    BY <1>2, <2>1, StartIsKept
  <2> QED
    BY <2>2
<1>4. ASSUME NEW n \in Nat, n \in S
      PROVE  n + 1 \in S
  <2> SUFFICES ASSUME n + 1 <= Len(schedule)
               PROVE  Right(n + 1)
    OBVIOUS
  <2>1. n <= Len(schedule) /\ n + 1 \in 1 .. Len(schedule) /\ (n + 1) - 1 = n
    BY <1>1
  <2>2. Right(n)
    BY <2>1, <1>4
  <2> DEFINE st == played[n]
             call == schedule[n + 1]
             next == Play(st, call)
  <2>3. played[n + 1] = next
    BY <2>1, <1>2
  <2>4. call \in CallSet(Keys)
    BY <2>1, ElementOfSeq
  <2>5. /\ Kept(Keys, next)
        /\ Len(next.log) = n + 1
        /\ \A i \in 1 .. n : next.log[i] = st.log[i]
        /\ next.log[n + 1].call = call
        /\ Judged(next.log)
        /\ KeptExact(st) /\ SingleWindow(next.log) => KeptExact(next)
    <3>1. Kept(Keys, st) /\ Len(st.log) = n /\ Judged(st.log)
      BY <2>2
    <3> HIDE DEF st, call
    <3>2. /\ Kept(Keys, next)
          /\ Len(next.log) = Len(st.log) + 1
          /\ \A i \in 1 .. Len(st.log) : next.log[i] = st.log[i]
          /\ next.log[Len(st.log) + 1].call = call
          /\ Judged(st.log) => Judged(next.log)
          /\ KeptExact(st) /\ SingleWindow(next.log) => KeptExact(next)
      BY <3>1, <2>4, PlayKeeps
    <3> HIDE DEF next
    <3> QED
      BY <3>1, <3>2
  <2>6. \A i \in 1 .. n : st.log[i].call = schedule[i]
    BY <2>2
  <2>7. \A i \in 1 .. n + 1 : i \in 1 .. n \/ i = n + 1
    OBVIOUS
  <2>8. \A i \in 1 .. n + 1 : next.log[i].call = schedule[i] /\ i \in 1 .. Len(schedule)
    <3> HIDE DEF st, next
    <3> QED
      BY <2>1, <2>5, <2>6, <2>7, <1>1
  <2>9. OwnWindows(schedule) => KeptExact(next)
    <3>1. OwnWindows(schedule) => KeptExact(st)
      BY <2>2
    <3> HIDE DEF st, next, call
    <3>2. OwnWindows(schedule) => SingleWindow(next.log)
      BY <2>5, <2>8, <1>1, SMTT(30) DEF OwnWindows, SingleWindow
    <3> QED
      BY <3>1, <3>2, <2>5
  <2> HIDE DEF st, next
  <2> QED
    BY <2>3, <2>5, <2>8, <2>9
<1>5. Nat \subseteq S
  <2> HIDE DEF S
  <2> QED
    BY <1>3, <1>4, Climb
<1>6. \A n \in 0 .. Len(schedule) : Right(n)
  <2> HIDE DEF Right
  <2> QED
    BY <1>1, <1>5
<1> QED
  BY <1>6 DEF played

(***************************************************************************)
(* For any schedule of any keys: a throttle whose key is its own lets a    *)
(* call through exactly when its sliding window has room and tells a       *)
(* refused one the first time at which it will, whenever the sweeps run;   *)
(* and throttles that share a key err on the open side only, after a call  *)
(* with a shorter window.  (A limit of 0 is left out: check has no oldest  *)
(* hit to wait for then, and raises.)                                      *)
(***************************************************************************)
THEOREM WindowsAreExact ==
    ASSUME NEW Keys,
           input.kind = "schedule" => input.calls \in Seq(CallSet(Keys))
    PROVE  WindowIsExact
<1> SUFFICES ASSUME input.kind = "schedule"
             PROVE  /\ SharedKeyErrsOpen(Verdicts(input.calls))
                    /\ OwnWindows(input.calls) => IsSlidingWindow(Verdicts(input.calls))
  BY DEF WindowIsExact
<1> DEFINE calls == input.calls
           n == Len(calls)
           st == Played(calls)[n]
<1>1. calls \in Seq(CallSet(Keys)) /\ n \in Nat
  BY LenProperties
<1>2. Verdicts(calls) = st.log
  BY DEF Verdicts
<1>3. /\ Kept(Keys, st) /\ Judged(st.log)
      /\ OwnWindows(calls) => KeptExact(st)
  <2>1. n \in 0 .. n
    BY <1>1
  <2> HIDE DEF calls
  <2> QED
    BY <1>1, <2>1, EveryPlayIsKept
<1> HIDE DEF calls, st
<1>4. DOMAIN st.log = 1 .. Len(st.log)
  BY <1>3, LenProperties DEF Kept, Orderly
<1>5. SharedKeyErrsOpen(st.log)
  BY <1>3, <1>4 DEF Judged, ErrsOpenAt, SharedKeyErrsOpen
<1>6. OwnWindows(calls) => IsSlidingWindow(st.log)
  BY <1>3, <1>4, Zenon DEF KeptExact, ExactAt, IsSlidingWindow
<1> QED
  BY <1>2, <1>5, <1>6 DEF calls

(***************************************************************************)
(* Pagination.                                                             *)
(***************************************************************************)

\* Python's floor division.
LEMMA Floor ==
    ASSUME NEW a \in Int, NEW p \in Nat \ {0}
    PROVE  /\ a \div p \in Int
           /\ (a \div p) * p <= a
           /\ a < (a \div p) * p + p
OBVIOUS

\* Multiplying by a positive number keeps the order.
LEMMA TimesIsMonotonic ==
    ASSUME NEW a \in Int, NEW b \in Int, NEW p \in Nat \ {0}
    PROVE  /\ a * p \in Int
           /\ a <= b => a * p <= b * p
           /\ (a + 1) * p = a * p + p
           /\ (a - 1) * p = a * p - p
           /\ a \in Nat => a * p \in Nat /\ a <= a * p
OBVIOUS

\* The pages hold every item, and the last of several is not empty.
LEMMA PagesFit ==
    ASSUME NEW total \in Nat, NEW p \in Nat \ {0}
    PROVE  LET pages == Pages(total, p)
           IN /\ pages \in Nat /\ pages >= 1
              /\ total <= pages * p
              /\ pages > 1 => (pages - 1) * p < total
              /\ pages <= total + 1
<1> DEFINE q == (-total) \div p
           c == -q
<1>1. /\ q \in Int /\ q * p <= -total /\ -total < q * p + p
  BY Floor
<1> HIDE DEF q
<1>2. /\ c \in Int /\ c * p = -(q * p) /\ c * p \in Int
  BY <1>1
<1>3. total <= c * p /\ c * p - p < total
  BY <1>1, <1>2
<1>4. Pages(total, p) = IF 1 >= c THEN 1 ELSE c
  BY DEF Pages, Larger, q
<1> HIDE DEF c
<1>5. CASE 1 >= c
  <2>1. c * p <= 1 * p /\ 1 * p \in Int
    BY <1>2, <1>5, TimesIsMonotonic
  <2>2. Pages(total, p) = 1
    BY <1>4, <1>5
  <2> QED
    BY <2>1, <2>2, <1>2, <1>3
<1>6. CASE ~ (1 >= c)
  <2>1. Pages(total, p) = c /\ c > 1 /\ c \in Nat
    BY <1>2, <1>4, <1>6
  <2>2. (c - 1) * p = c * p - p /\ c - 1 <= (c - 1) * p
    BY <2>1, <1>2, TimesIsMonotonic
  <2> QED
    BY <2>1, <2>2, <1>2, <1>3
<1> QED
  BY <1>2, <1>5, <1>6

\* A page that is shown is one that was counted, and has what the list has there.
LEMMA PageIsSlice ==
    ASSUME NEW Items, NEW counted \in Seq(Items), NEW fetched \in Seq(Items),
           NEW p \in Nat \ {0}, NEW number \in Int
    PROVE  LET page == Page(counted, fetched, p, number)
               n == Clamped(number, Len(counted), p)
               offset == (n - 1) * p
               end == Smaller(offset + p, Len(fetched))
           IN /\ n \in 1 .. Pages(Len(counted), p)
              /\ offset \in Nat /\ end \in Nat
              /\ page.number = n
              /\ page.items = SubSeq(fetched, offset + 1, end)
              /\ NavRow(page) = <<IF n > 1 THEN n - 1 ELSE Noop, Noop,
                                  IF n < Pages(Len(counted), p) THEN n + 1 ELSE Noop>>
<1> DEFINE pages == Pages(Len(counted), p)
           n == Clamped(number, Len(counted), p)
           offset == (n - 1) * p
           end == Smaller(offset + p, Len(fetched))
           page == Page(counted, fetched, p, number)
<1>1. Len(counted) \in Nat /\ Len(fetched) \in Nat
  BY LenProperties
<1>2. pages \in Nat /\ pages >= 1
  BY <1>1, PagesFit
<1> HIDE DEF pages
<1>3. n = IF (IF 1 >= number THEN 1 ELSE number) <= pages
          THEN (IF 1 >= number THEN 1 ELSE number) ELSE pages
  BY DEF Clamped, Smaller, Larger, pages
<1> HIDE DEF n
<1>4. n \in 1 .. pages
  BY <1>2, <1>3
<1>5. n - 1 \in Nat
  BY <1>2, <1>4
<1>6. offset \in Nat
  BY <1>5, TimesIsMonotonic
<1>7. end \in Nat
  BY <1>1, <1>6 DEF Smaller
<1>8. /\ page.number = n /\ page.total = Len(counted) /\ page.perPage = p
      /\ page.items = SubSeq(fetched, offset + 1, end)
  BY DEF Page, Fetch, n
<1>9. NavRow(page) = <<IF n > 1 THEN n - 1 ELSE Noop, Noop,
                       IF n < pages THEN n + 1 ELSE Noop>>
  <2> HIDE DEF page
  <2> QED
    BY <1>8 DEF NavRow, HasPrev, HasNext, pages
<1> QED
  BY <1>4, <1>6, <1>7, <1>8, <1>9 DEF n, pages

\* A page and its row stay in the range that was counted.
LEMMA PagesStayInRange ==
    ASSUME NEW Items, NEW counted \in Seq(Items), NEW fetched \in Seq(Items),
           NEW p \in Nat \ {0}, NEW number \in Int
    PROVE  StaysInRange(counted, fetched, p, number)
<1> DEFINE pages == Pages(Len(counted), p)
           page == Page(counted, fetched, p, number)
           n == Clamped(number, Len(counted), p)
           offset == (n - 1) * p
           end == Smaller(offset + p, Len(fetched))
<1>1. /\ n \in 1 .. pages
      /\ offset \in Nat /\ end \in Nat
      /\ page.number = n
      /\ page.items = SubSeq(fetched, offset + 1, end)
      /\ NavRow(page) = <<IF n > 1 THEN n - 1 ELSE Noop, Noop,
                          IF n < pages THEN n + 1 ELSE Noop>>
  BY PageIsSlice
<1>2. Len(counted) \in Nat /\ Len(fetched) \in Nat
  BY LenProperties
<1>3. pages \in Nat /\ pages >= 1
  BY <1>2, PagesFit
<1>4. end <= offset + p /\ end <= Len(fetched)
  <2> HIDE DEF offset
  <2> QED
    BY <1>1, <1>2 DEF Smaller
<1> HIDE DEF pages, page, n, end
<1>5. \A i \in offset + 1 .. end : fetched[i] \in Items
  <2> SUFFICES ASSUME NEW i \in offset + 1 .. end
               PROVE  fetched[i] \in Items
    OBVIOUS
  <2>1. i \in 1 .. Len(fetched)
    <3> HIDE DEF offset
    <3> QED
      BY <1>1, <1>2, <1>4
  <2> QED
    BY <2>1, ElementOfSeq
<1> HIDE DEF offset
<1>6. /\ page.items \in Seq(Items)
      /\ Len(page.items) = IF offset + 1 <= end THEN end - (offset + 1) + 1 ELSE 0
      /\ \A i \in 1 .. end - (offset + 1) + 1 : page.items[i] = fetched[(offset + 1) + i - 1]
  <2>1. offset + 1 \in Int /\ end \in Int
    BY <1>1
  <2> QED
    BY <2>1, <1>1, <1>5, SubSeqProperties
<1>7. Len(page.items) \in Nat /\ DOMAIN page.items = 1 .. Len(page.items)
  BY <1>6, LenProperties
<1>8. Len(page.items) <= p
  BY <1>1, <1>4, <1>6
<1>9. ASSUME NEW i \in DOMAIN page.items
      PROVE  page.items[i] = fetched[offset + i]
  <2>1. i \in 1 .. end - (offset + 1) + 1 /\ (offset + 1) + i - 1 = offset + i
    BY <1>1, <1>6, <1>7
  <2> QED
    BY <2>1, <1>6
<1>10. ASSUME NEW i \in 1 .. 3
       PROVE  NavRow(page)[i] \in ((1 .. pages) \ {n}) \cup {Noop}
  <2>1. i = 1 \/ i = 2 \/ i = 3
    OBVIOUS
  <2>2. NavRow(page)[1] \in ((1 .. pages) \ {n}) \cup {Noop}
    BY <1>1, <1>3
  <2>3. NavRow(page)[2] = Noop
    BY <1>1
  <2>4. NavRow(page)[3] \in ((1 .. pages) \ {n}) \cup {Noop}
    BY <1>1, <1>3
  <2> QED
    BY <2>1, <2>2, <2>3, <2>4
<1> QED
  BY <1>1, <1>8, <1>9, <1>10 DEF StaysInRange, pages, page, n, offset

\* Pressing Next shows the rest of the list.
LEMMA NextShowsTheRest ==
    ASSUME NEW Items, NEW items \in Seq(Items), NEW p \in Nat \ {0}
    PROVE  Walked(items, p) = items
<1> DEFINE D == 1 .. Len(items) + 2
           pages == Pages(Len(items), p)
           c(n) == Clamped(n, Len(items), p)
           shown(n) == Page(items, items, p, n).items
           next(n) == NavRow(Page(items, items, p, n))[3]
           rest(n) == SubSeq(items, (c(n) - 1) * p + 1, Len(items))
           IsWalk(f) == f = [n \in D |->
               IF next(n) \in D THEN shown(n) \o f[next(n)] ELSE shown(n)]
<1>1. Len(items) \in Nat
  BY LenProperties
<1>2. /\ pages \in Nat /\ pages >= 1 /\ pages <= Len(items) + 1
      /\ Len(items) <= pages * p
      /\ pages > 1 => (pages - 1) * p < Len(items)
  BY <1>1, PagesFit
<1>3. ASSUME NEW n \in D
      PROVE  /\ c(n) \in 1 .. pages
             /\ n <= pages => c(n) = n
             /\ (c(n) - 1) * p \in Nat
             /\ shown(n) = SubSeq(items, (c(n) - 1) * p + 1,
                                  Smaller((c(n) - 1) * p + p, Len(items)))
             /\ next(n) = IF c(n) < pages THEN c(n) + 1 ELSE Noop
  <2>1. n \in Int /\ n >= 1
    BY <1>1
  <2>2. n <= pages => c(n) = n
    <3> HIDE DEF D
    <3> QED
      BY <2>1, <1>2 DEF Clamped, Smaller, Larger
  <2> HIDE DEF D
  <2>3. /\ c(n) \in 1 .. pages
        /\ (c(n) - 1) * p \in Nat
        /\ shown(n) = SubSeq(items, (c(n) - 1) * p + 1,
                             Smaller((c(n) - 1) * p + p, Len(items)))
        /\ NavRow(Page(items, items, p, n)) =
           <<IF c(n) > 1 THEN c(n) - 1 ELSE Noop, Noop,
             IF c(n) < pages THEN c(n) + 1 ELSE Noop>>
    BY <2>1, PageIsSlice
  <2> HIDE DEF c, shown, pages
  <2> QED
    BY <2>2, <2>3
<1>4. Walked(items, p) = (CHOOSE f : IsWalk(f))[1]
  BY DEF Walked
<1>5. 1 \in D /\ 0 \notin D /\ DOMAIN items = 1 .. Len(items)
  BY <1>1, LenProperties
<1> HIDE DEF D, pages, c, shown, next
\* The rest from one page on is the page and the rest from the next one on.
<1>6. ASSUME NEW n \in D
      PROVE  /\ next(n) \in D => /\ c(n) < pages /\ next(n) = c(n) + 1
                                 /\ c(next(n)) = c(n) + 1
                                 /\ rest(n) = shown(n) \o rest(next(n))
             /\ next(n) \notin D => rest(n) = shown(n)
  <2> DEFINE offset == (c(n) - 1) * p
             m == c(n)
  <2>1. /\ m \in 1 .. pages /\ offset \in Nat /\ m \in Int
        /\ next(n) = IF m < pages THEN m + 1 ELSE 0
    BY <1>3, <1>2 DEF Noop
  <2>2. m < pages <=> next(n) \in D
    <3>1. m < pages => m + 1 \in D
      BY <2>1, <1>1, <1>2 DEF D
    <3> HIDE DEF m
    <3> QED
      BY <3>1, <2>1, <1>5
  <2>3. offset + p = m * p /\ (m + 1 - 1) * p = m * p /\ m * p \in Int
    <3>1. m - 1 \in Int /\ m + 1 - 1 = m
      BY <2>1
    <3>2. (m - 1) * p = m * p - p /\ m * p \in Int
      BY <2>1, TimesIsMonotonic
    <3> HIDE DEF m
    <3> QED
      BY <3>1, <3>2 DEF m
  <2>4. CASE m < pages
    <3>1. next(n) = m + 1 /\ c(next(n)) = m + 1
      <4>1. next(n) = m + 1 /\ m + 1 \in D /\ m + 1 <= pages
        BY <2>1, <2>2, <2>4, <1>2
      <4> QED
        BY <4>1, <1>3
    <3>2. m * p <= (pages - 1) * p /\ (pages - 1) * p < Len(items) /\ (pages - 1) * p \in Int
      <4>1. m <= pages - 1 /\ pages - 1 \in Int /\ pages > 1
        BY <2>1, <2>4, <1>2
      <4> HIDE DEF m
      <4> QED
        BY <4>1, <2>1, <1>2, TimesIsMonotonic
    <3>3. offset + p < Len(items)
      <4> HIDE DEF m, offset
      <4> QED
        BY <3>2, <2>3, <1>1
    <3>4. shown(n) = SubSeq(items, offset + 1, offset + p)
      <4>1. Smaller(offset + p, Len(items)) = offset + p
        <5> HIDE DEF offset
        <5> QED
          BY <3>3, <2>1, <1>1 DEF Smaller
      <4> QED
        BY <4>1, <1>3
    <3>5. rest(next(n)) = SubSeq(items, (offset + p) + 1, Len(items))
      <4>1. (c(next(n)) - 1) * p = offset + p
        <5>1. c(next(n)) - 1 = m
          BY <3>1, <2>1
        <5>2. m * p = offset + p
          BY <2>3
        <5> HIDE DEF m, offset
        <5> QED
          BY <5>1, <5>2
      <4> HIDE DEF m, offset
      <4> QED
        BY <4>1
    <3>6. rest(n) = SubSeq(items, offset + 1, Len(items))
      OBVIOUS
    <3> HIDE DEF offset, m, rest
    <3>7. SubSeq(items, offset + 1, offset + p) \o SubSeq(items, (offset + p) + 1, Len(items))
          = SubSeq(items, offset + 1, Len(items))
      <4>1. /\ offset + 1 \in 1 .. Len(items) + 1
            /\ offset + p \in (offset + 1) - 1 .. Len(items)
            /\ Len(items) \in offset + p .. Len(items)
        BY <3>3, <2>1, <1>1
      <4> QED
        BY <4>1, ConcatAdjacentSubSeq
    <3> QED
      BY <3>1, <3>4, <3>5, <3>6, <3>7, <2>2, <2>4 DEF m
  <2>5. CASE ~ (m < pages)
    <3>1. m = pages
      BY <2>1, <2>5, <1>2
    <3>2. Len(items) <= offset + p
      <4> HIDE DEF offset
      <4> QED
        BY <3>1, <2>3, <1>2
    <3>3. Smaller(offset + p, Len(items)) = Len(items)
      <4> HIDE DEF offset
      <4> QED
        BY <3>2, <2>1, <1>1 DEF Smaller
    <3>4. shown(n) = rest(n)
      BY <3>3, <1>3
    <3> QED
      BY <3>4, <2>2, <2>5
  <2> QED
    BY <2>4, <2>5
<1>7. \E f : IsWalk(f)
  <2> DEFINE g == [n \in D |-> rest(n)]
  <2>1. ASSUME NEW n \in D
        PROVE  rest(n) = IF next(n) \in D THEN shown(n) \o g[next(n)] ELSE shown(n)
    <3>1. next(n) \in D => g[next(n)] = rest(next(n))
      OBVIOUS
    <3> HIDE DEF g, rest
    <3> QED
      BY <3>1, <1>6
  <2> HIDE DEF rest
  <2>2. IsWalk(g)
    BY <2>1
  <2> QED
    BY <2>2
<1> DEFINE walk == CHOOSE f : IsWalk(f)
<1>8. IsWalk(walk)
  <2> HIDE DEF IsWalk
  <2> QED
    BY <1>7
<1>9. \A n \in D : walk[n] = IF next(n) \in D THEN shown(n) \o walk[next(n)] ELSE shown(n)
  <2> HIDE DEF walk
  <2> QED
    BY <1>8
<1> HIDE DEF walk, IsWalk, rest
<1> DEFINE S == {k \in Nat : \A n \in D : pages - c(n) = k => walk[n] = rest(n)}
<1>10. 0 \in S
  <2> SUFFICES ASSUME NEW n \in D, pages - c(n) = 0
               PROVE  walk[n] = rest(n)
    OBVIOUS
  <2>1. ~ (c(n) < pages)
    BY <1>2, <1>3
  <2>2. next(n) \notin D
    BY <2>1, <1>6
  <2> QED
    BY <2>2, <1>6, <1>9
<1>11. ASSUME NEW k \in Nat, k \in S
       PROVE  k + 1 \in S
  <2> SUFFICES ASSUME NEW n \in D, pages - c(n) = k + 1
               PROVE  walk[n] = rest(n)
    OBVIOUS
  <2>1. CASE next(n) \in D
    <3>1. c(next(n)) = c(n) + 1 /\ c(n) \in Int
      BY <2>1, <1>3, <1>6
    <3>2. pages - c(next(n)) = k
      BY <3>1, <1>2
    <3>3. walk[next(n)] = rest(next(n))
      BY <3>2, <2>1, <1>11
    <3> QED
      BY <3>3, <2>1, <1>6, <1>9
  <2>2. CASE next(n) \notin D
    BY <2>2, <1>6, <1>9
  <2> QED
    BY <2>1, <2>2
<1>12. Nat \subseteq S
  <2> HIDE DEF S
  <2> QED
    BY <1>10, <1>11, Climb
<1>13. walk[1] = rest(1) /\ c(1) = 1
  <2>1. c(1) = 1 /\ pages - c(1) \in Nat
    BY <1>2, <1>3, <1>5
  <2>2. pages - c(1) \in S
    BY <2>1, <1>12
  <2> QED
    BY <2>1, <2>2, <1>5
<1>14. rest(1) = SubSeq(items, 1, Len(items))
  <2>1. (1 - 1) * p + 1 = 1
    OBVIOUS
  <2> QED
    BY <2>1, <1>13 DEF rest
<1> QED
  BY <1>4, <1>13, <1>14, SubSeqFull DEF walk

(***************************************************************************)
(* For lists of any length and pages of any size: pressing Next from the   *)
(* first page on shows every item of a list once, in order; and a page     *)
(* and its row stay in the range that was counted, whatever number a stale *)
(* button asks for and however the list changes before it is fetched.      *)
(***************************************************************************)
THEOREM PagerShowsAll ==
    ASSUME NEW Items,
           input.kind = "page" =>
               /\ input.counted \in Seq(Items) /\ input.fetched \in Seq(Items)
               /\ input.perPage \in Nat \ {0} /\ input.number \in Int
    PROVE  PagerShowsEverything
<1> SUFFICES ASSUME input.kind = "page"
             PROVE  /\ StaysInRange(input.counted, input.fetched, input.perPage, input.number)
                    /\ input.counted = input.fetched =>
                          Walked(input.counted, input.perPage) = input.counted
  BY DEF PagerShowsEverything
<1>1. /\ input.counted \in Seq(Items) /\ input.fetched \in Seq(Items)
      /\ input.perPage \in Nat \ {0} /\ input.number \in Int
  OBVIOUS
<1>2. StaysInRange(input.counted, input.fetched, input.perPage, input.number)
  BY <1>1, PagesStayInRange
<1>3. Walked(input.counted, input.perPage) = input.counted
  BY <1>1, NextShowsTheRest
<1> QED
  BY <1>2, <1>3

(***************************************************************************)
(* Buttons.                                                                *)
(***************************************************************************)

\* A model has fields of different names, and a payload gives each a value of its type,
\* or None where the field takes it.  A default is any value.
Types == {"str", "int", "member", "int_or_str", "bytes", "opaque"}
ValueSet == {None} \cup [is : Types \ {"int_or_str"}, text : Nat]
FieldSet(NameSet) ==
    [name : NameSet, type : Types, default : ValueSet \cup {Required}, nullable : BOOLEAN]
HasType(type, value) ==
    /\ value.is = type \/ (type = "int_or_str" /\ value.is \in {"int", "str"})
    /\ value.is = "int" => value.text \in Numerals
    /\ value.is = "member" => value.text \in Members
IsModel(NameSet, model) ==
    /\ model.keyed \in BOOLEAN
    /\ model.fields \in Seq(FieldSet(NameSet))
    /\ \A i, j \in 1 .. Len(model.fields) :
          model.fields[i].name = model.fields[j].name => i = j
IsPayload(model, payload) ==
    /\ payload \in [Names(model) -> ValueSet]
    /\ \A f \in ToSet(model.fields) :
          IF payload[f.name] = None THEN f.nullable ELSE HasType(f.type, payload[f.name])

\* A model that another is changed into: what is in both has not changed.
IsVersionOf(new, old) ==
    /\ new.prefix = old.prefix
    /\ \A f \in ToSet(old.fields), g \in ToSet(new.fields) : f.name = g.name => f = g

\* Does a field go on the wire.
Goes(model, payload, f) == ~ (model.keyed /\ payload[f.name] = f.default)

\* The fields of a model are known by their names.
LEMMA FieldsByName ==
    ASSUME NEW NameSet, NEW model, IsModel(NameSet, model)
    PROVE  /\ Len(model.fields) \in Nat
           /\ ToSet(model.fields) = {model.fields[i] : i \in 1 .. Len(model.fields)}
           /\ \A f \in ToSet(model.fields) :
                 /\ f \in FieldSet(NameSet) /\ f.name \in Names(model)
                 /\ f.default \in ValueSet \cup {Required} /\ f.type \in Types
           /\ \A f, g \in ToSet(model.fields) : f.name = g.name => f = g
           /\ \A n \in Names(model) : \E f \in ToSet(model.fields) : f.name = n
<1>1. /\ model.fields \in Seq(FieldSet(NameSet)) /\ Len(model.fields) \in Nat
      /\ DOMAIN model.fields = 1 .. Len(model.fields)
  BY LenProperties DEF IsModel
<1>2. ToSet(model.fields) = {model.fields[i] : i \in 1 .. Len(model.fields)}
  BY <1>1 DEF ToSet
<1>3. \A i \in 1 .. Len(model.fields) : model.fields[i] \in FieldSet(NameSet)
  BY <1>1, ElementOfSeq
<1>4. \A f \in ToSet(model.fields) : f \in FieldSet(NameSet) /\ f.name \in Names(model)
  BY <1>2, <1>3 DEF Names
<1>5. \A f \in ToSet(model.fields) : f.default \in ValueSet \cup {Required} /\ f.type \in Types
  BY <1>4 DEF FieldSet
<1>6. \A f, g \in ToSet(model.fields) : f.name = g.name => f = g
  BY <1>2 DEF IsModel
<1>7. \A n \in Names(model) : \E f \in ToSet(model.fields) : f.name = n
  BY DEF Names
<1> QED
  BY <1>1, <1>2, <1>4, <1>5, <1>6, <1>7

\* What has been sent once a field is gone through.
SentStep(model, payload, s, n) ==
    IF n = 0 THEN <<>>
    ELSE IF model.keyed /\ payload[model.fields[n].name] = model.fields[n].default THEN s[n - 1]
    ELSE Append(s[n - 1], model.fields[n])

\* The fields can be gone through up to any one.
LEMMA SentUpTo ==
    ASSUME NEW model, NEW payload
    PROVE  \A m \in Nat : \E s : s = [n \in 0 .. m |-> SentStep(model, payload, s, n)]
<1> DEFINE Step(s, n) == SentStep(model, payload, s, n)
           Goal(s, m) == s = [n \in 0 .. m |-> Step(s, n)]
           S == {m \in Nat : \E s : Goal(s, m)}
<1>1. 0 \in S
  <2>1. Goal([n \in 0 .. 0 |-> <<>>], 0)
    BY DEF SentStep
  <2> QED
    BY <2>1
<1>2. ASSUME NEW m \in Nat, m \in S
      PROVE  m + 1 \in S
  <2>1. PICK s : Goal(s, m)
    BY <1>2
  <2> DEFINE t == [n \in 0 .. m + 1 |-> IF n <= m THEN s[n] ELSE Step(s, n)]
  <2>2. ASSUME NEW n \in 0 .. m + 1
        PROVE  t[n] = Step(t, n)
    <3>1. t[n] = IF n <= m THEN s[n] ELSE Step(s, n)
      OBVIOUS
    <3>2. n <= m => s[n] = Step(s, n)
      <4> SUFFICES ASSUME n <= m
                   PROVE  s[n] = Step(s, n)
        OBVIOUS
      <4>1. n \in 0 .. m
        OBVIOUS
      <4> HIDE DEF Step, t
      <4> QED
        BY <4>1, <2>1
    <3>3. t[n] = Step(s, n)
      <4> HIDE DEF Step, t
      <4> QED
        BY <3>1, <3>2
    <3>4. n # 0 => t[n - 1] = s[n - 1]
      <4>1. n # 0 => n - 1 \in 0 .. m + 1 /\ n - 1 <= m
        OBVIOUS
      <4> QED
        BY <4>1
    <3>5. Step(s, n) = Step(t, n)
      <4> HIDE DEF t
      <4> QED
        BY <3>4 DEF SentStep
    <3> QED
      BY <3>3, <3>5
  <2>3. t = [n \in 0 .. m + 1 |-> t[n]]
    OBVIOUS
  <2>4. Goal(t, m + 1)
    <3> HIDE DEF t, Step
    <3> QED
      BY <2>2, <2>3
  <2> HIDE DEF t, Goal
  <2> QED
    BY <2>4
<1>3. Nat \subseteq S
  <2> HIDE DEF S
  <2> QED
    BY <1>1, <1>2, Climb
<1> QED
  BY <1>3

\* What is sent is what goes on the wire; a positional model sends every field.
LEMMA SentGoes ==
    ASSUME NEW NameSet, NEW model, IsModel(NameSet, model), NEW payload
    PROVE  LET sent == Sent(model, payload)
           IN /\ sent \in Seq(FieldSet(NameSet))
              /\ ToSet(sent) = {f \in ToSet(model.fields) : Goes(model, payload, f)}
              /\ ~ model.keyed => sent = model.fields
<1> DEFINE fields == model.fields
           Step(s, n) == SentStep(model, payload, s, n)
           IsSent(s) == s = [n \in 0 .. Len(fields) |-> Step(s, n)]
           sent == CHOOSE s : IsSent(s)
<1>1. /\ Len(fields) \in Nat
      /\ ToSet(fields) = {fields[i] : i \in 1 .. Len(fields)}
      /\ \A i \in 1 .. Len(fields) : fields[i] \in FieldSet(NameSet)
  BY FieldsByName, ElementOfSeq DEF IsModel
<1>2. Sent(model, payload) = sent[Len(fields)]
  BY DEF Sent, SentStep
<1>3. \E s : IsSent(s)
  <2>1. \A m \in Nat : \E s : s = [n \in 0 .. m |-> Step(s, n)]
    BY SentUpTo
  <2> HIDE DEF Step
  <2> QED
    BY <2>1, <1>1
<1>4. IsSent(sent)
  <2> HIDE DEF IsSent
  <2> QED
    BY <1>3
<1>5. \A n \in 0 .. Len(fields) : sent[n] = Step(sent, n)
  <2> HIDE DEF sent, Step
  <2> QED
    BY <1>4
<1> HIDE DEF sent, IsSent
<1>6. /\ sent[0] = <<>>
      /\ \A n \in 1 .. Len(fields) :
            sent[n] = IF Goes(model, payload, fields[n])
                      THEN Append(sent[n - 1], fields[n]) ELSE sent[n - 1]
  BY <1>1, <1>5 DEF Goes, SentStep
<1> HIDE DEF Step
<1> DEFINE Right(n) ==
               /\ sent[n] \in Seq(FieldSet(NameSet))
               /\ \A f : (\E i \in 1 .. Len(sent[n]) : sent[n][i] = f) <=>
                         (\E i \in 1 .. n : fields[i] = f /\ Goes(model, payload, f))
               /\ ~ model.keyed => /\ Len(sent[n]) = n
                                   /\ \A i \in 1 .. n : sent[n][i] = fields[i]
           S == {n \in Nat : n <= Len(fields) => Right(n)}
<1>7. 0 \in S
  <2>1. <<>> \in Seq(FieldSet(NameSet)) /\ Len(<<>>) = 0
    BY EmptySeq
  <2>2. Right(0)
    BY <2>1, <1>6
  <2> QED
    BY <2>2
<1>8. ASSUME NEW n \in Nat, n \in S
      PROVE  n + 1 \in S
  <2> SUFFICES ASSUME n + 1 <= Len(fields)
               PROVE  Right(n + 1)
    OBVIOUS
  <2>1. n + 1 \in 1 .. Len(fields) /\ (n + 1) - 1 = n /\ n <= Len(fields)
    BY <1>1
  <2>2. Right(n)
    BY <2>1, <1>8
  <2>3. fields[n + 1] \in FieldSet(NameSet)
    BY <2>1, <1>1
  <2>4. \A i \in 1 .. n + 1 : i \in 1 .. n \/ i = n + 1
    OBVIOUS
  <2>5. \A i \in 1 .. n : i \in 1 .. n + 1
    OBVIOUS
  <2>6. n + 1 \in 1 .. n + 1
    OBVIOUS
  <2> DEFINE was == sent[n]
             f1 == fields[n + 1]
  <2>7. CASE Goes(model, payload, f1)
    <3>1. sent[n + 1] = Append(was, f1)
      BY <2>1, <2>7, <1>6
    <3>2. was \in Seq(FieldSet(NameSet)) /\ Len(was) \in Nat
      BY <2>2, LenProperties
    <3> DEFINE is == sent[n + 1]
    <3>3. /\ is \in Seq(FieldSet(NameSet))
          /\ Len(is) = Len(was) + 1
          /\ \A i \in 1 .. Len(was) : is[i] = was[i]
          /\ is[Len(was) + 1] = f1
      BY <3>1, <3>2, <2>3, AppendProperties
    <3>4. \A i \in 1 .. Len(was) + 1 : i \in 1 .. Len(was) \/ i = Len(was) + 1
      BY <3>2
    <3>5. \A i \in 1 .. Len(was) : i \in 1 .. Len(was) + 1
      BY <3>2
    <3>6. Len(was) + 1 \in 1 .. Len(was) + 1
      BY <3>2
    <3>7. /\ \A f : (\E i \in 1 .. Len(was) : was[i] = f) <=>
                    (\E i \in 1 .. n : fields[i] = f /\ Goes(model, payload, f))
          /\ ~ model.keyed => /\ Len(was) = n
                              /\ \A i \in 1 .. n : was[i] = fields[i]
      BY <2>2
    <3> HIDE DEF is, was, fields
    <3>8. ASSUME NEW f
          PROVE  (\E i \in 1 .. Len(is) : is[i] = f) <=>
                 (\E i \in 1 .. n + 1 : fields[i] = f /\ Goes(model, payload, f))
      <4>1. (\E i \in 1 .. Len(is) : is[i] = f) <=>
            (\E i \in 1 .. Len(was) : was[i] = f) \/ f = f1
        BY <3>3, <3>4, <3>5, <3>6
      <4>2. (\E i \in 1 .. n + 1 : fields[i] = f /\ Goes(model, payload, f)) <=>
            (\E i \in 1 .. n : fields[i] = f /\ Goes(model, payload, f)) \/ f = f1
        BY <2>4, <2>5, <2>6, <2>7
      <4> QED
        BY <4>1, <4>2, <3>7
    <3>9. ~ model.keyed => Len(is) = n + 1 /\ \A i \in 1 .. n + 1 : is[i] = fields[i]
      BY <3>3, <3>7, <2>4
    <3> QED
      BY <3>3, <3>8, <3>9 DEF is, fields
  <2>8. CASE ~ Goes(model, payload, f1)
    <3>1. sent[n + 1] = was
      BY <2>1, <2>8, <1>6
    <3>2. model.keyed
      BY <2>8 DEF Goes
    <3>3. /\ was \in Seq(FieldSet(NameSet))
          /\ \A f : (\E i \in 1 .. Len(was) : was[i] = f) <=>
                    (\E i \in 1 .. n : fields[i] = f /\ Goes(model, payload, f))
      BY <2>2
    <3> HIDE DEF was, fields
    <3>4. ASSUME NEW f
          PROVE  (\E i \in 1 .. n + 1 : fields[i] = f /\ Goes(model, payload, f)) <=>
                 (\E i \in 1 .. n : fields[i] = f /\ Goes(model, payload, f))
      BY <2>4, <2>5, <2>8
    <3> QED
      BY <3>1, <3>2, <3>3, <3>4 DEF fields
  <2> QED
    BY <2>7, <2>8
<1>9. Nat \subseteq S
  <2> HIDE DEF S
  <2> QED
    BY <1>7, <1>8, Climb
<1>10. Right(Len(fields))
  <2> HIDE DEF Right
  <2> QED
    BY <1>1, <1>9
<1> DEFINE end == sent[Len(fields)]
<1>11. end \in Seq(FieldSet(NameSet)) /\ DOMAIN end = 1 .. Len(end)
  BY <1>10, LenProperties
<1>12. ToSet(end) = {f \in ToSet(fields) : Goes(model, payload, f)}
  <2>1. ToSet(end) = {end[i] : i \in 1 .. Len(end)}
    BY <1>11 DEF ToSet
  <2>2. \A f : f \in ToSet(end) <=> f \in ToSet(fields) /\ Goes(model, payload, f)
    BY <2>1, <1>1, <1>10
  <2> QED
    BY <2>2
<1>13. ~ model.keyed => end = fields
  <2>1. ~ model.keyed => Len(end) = Len(fields) /\ \A i \in 1 .. Len(end) : end[i] = fields[i]
    BY <1>10
  <2>2. fields \in Seq(FieldSet(NameSet))
    BY DEF IsModel
  <2> HIDE DEF end, fields
  <2> QED
    BY <2>1, <2>2, <1>11, SeqEqual
<1> QED
  BY <1>2, <1>11, <1>12, <1>13

\* What a button holds for each field that was sent.
LEMMA PackedParts ==
    ASSUME NEW NameSet, NEW model, IsModel(NameSet, model),
           NEW payload, IsPayload(model, payload), Pack(model, payload).ok
    PROVE  LET wire == Pack(model, payload).wire
               sent == Sent(model, payload)
           IN /\ wire.prefix = model.prefix /\ wire.keyed = model.keyed
              /\ DOMAIN wire.parts = 1 .. Len(wire.parts)
              /\ Len(wire.parts) = Len(sent)
              /\ Len(sent) \in Nat
              /\ \A i \in 1 .. Len(sent) :
                    wire.parts[i] = [name |-> sent[i].name,
                                     value |-> Encoded(payload[sent[i].name])]
              /\ \A f \in ToSet(sent) : payload[f.name] # None => Encoded(payload[f.name]) # 0
<1> DEFINE wire == Pack(model, payload).wire
           sent == Sent(model, payload)
           parts == [i \in DOMAIN sent |-> [name |-> sent[i].name,
                                            value |-> Encoded(payload[sent[i].name])]]
<1>1. /\ wire.prefix = model.prefix /\ wire.keyed = model.keyed /\ wire.parts = parts
      /\ Packable({payload[f.name] : f \in ToSet(sent)})
  BY DEF Pack
<1> HIDE DEF wire, sent
<1>2. sent \in Seq(FieldSet(NameSet))
  BY SentGoes DEF sent
<1>3. Len(sent) \in Nat /\ DOMAIN sent = 1 .. Len(sent)
  BY <1>2, LenProperties
<1>4. /\ DOMAIN parts = 1 .. Len(sent)
      /\ \A i \in 1 .. Len(sent) : parts[i] = [name |-> sent[i].name,
                                               value |-> Encoded(payload[sent[i].name])]
  BY <1>3
<1>5. DOMAIN parts = 1 .. Len(parts) /\ Len(parts) = Len(sent)
  <2> DEFINE V == {parts[i] : i \in 1 .. Len(sent)}
  <2>1. parts \in [1 .. Len(sent) -> V]
    BY <1>3
  <2> HIDE DEF parts, V
  <2>2. parts \in Seq(V)
    BY <2>1, <1>3, SeqDef
  <2>3. Len(parts) \in Nat /\ DOMAIN parts = 1 .. Len(parts)
    BY <2>2, LenProperties
  <2>4. 1 .. Len(parts) = 1 .. Len(sent)
    BY <2>3, <1>4
  <2>5. Len(parts) = Len(sent)
    <3> DEFINE a == Len(parts)
               b == Len(sent)
    <3>1. a \in Nat /\ b \in Nat /\ 1 .. a = 1 .. b
      BY <1>3, <2>3, <2>4
    <3> HIDE DEF a, b
    <3>2. a = 0 \/ a \in 1 .. b
      <4>1. a = 0 \/ a \in 1 .. a
        BY <3>1
      <4> QED
        BY <4>1, <3>1
    <3>3. b = 0 \/ b \in 1 .. a
      <4>1. b = 0 \/ b \in 1 .. b
        BY <3>1
      <4> QED
        BY <4>1, <3>1
    <3>4. a = b
      BY <3>1, <3>2, <3>3
    <3> QED
      BY <3>4 DEF a, b
  <2> QED
    BY <2>3, <2>5
<1>6. \A f \in ToSet(sent) : payload[f.name] # None => Encoded(payload[f.name]) # 0
  BY <1>1 DEF Packable
<1> HIDE DEF parts
<1> QED
  BY <1>1, <1>3, <1>4, <1>5, <1>6 DEF wire, sent

\* Only None is written as nothing, in a button that can be packed.
LEMMA EncodedValue ==
    ASSUME NEW v \in ValueSet, v # None => Encoded(v) # 0
    PROVE  Encoded(v) = 0 <=> v = None
BY DEF Encoded, None, Value

\* A text is read as the value that it was written from just when that keeps its type.
LEMMA ReadBack ==
    ASSUME NEW f, f.type \in Types, NEW v \in ValueSet \ {None}, HasType(f.type, v)
    PROVE  Read(f.type, Encoded(v)) = v <=> KeepsItsType(f, v)
<1>1. v \in [is : Types \ {"int_or_str"}, text : Nat] /\ v = Value(v.is, v.text)
  BY DEF ValueSet, Value
<1>2. CASE f.type \in {"str", "int_or_str"}
  <2>0. \A text : /\ Read("str", text) = Value("str", text)
                  /\ Read("int_or_str", text) = Value("str", text)
    BY DEF Read
  <2>1. Read(f.type, Encoded(v)) = Value("str", Encoded(v)) /\ v.is \in {"int", "str"}
    BY <1>1, <1>2, <2>0 DEF HasType
  <2>2. Encoded(v) = v.text
    BY <2>1 DEF Encoded
  <2> QED
    BY <1>1, <1>2, <2>1, <2>2 DEF KeepsItsType, HasType, Value
<1>3. CASE f.type \in {"int", "member"}
  <2>1. v.is = f.type /\ Encoded(v) = v.text
    BY <1>3 DEF HasType, Encoded
  <2>2. Read(f.type, v.text) = Value(f.type, v.text)
    BY <1>3, <2>1 DEF Read, HasType
  <2> QED
    BY <1>1, <1>3, <2>1, <2>2 DEF KeepsItsType
<1>4. CASE f.type = "bytes"
  <2>1. v.is = "bytes" /\ Encoded(v) = v.text + Around /\ Encoded(v) # v.text
    BY <1>1, <1>4 DEF HasType, Encoded, Around
  <2>2. Read(f.type, Encoded(v)).text = Encoded(v)
    BY <1>4 DEF Read, Value
  <2> QED
    BY <1>4, <2>1, <2>2 DEF KeepsItsType
<1>5. CASE f.type = "opaque"
  <2>1. v.is = "opaque" /\ Read(f.type, Encoded(v)) = Value("invalid", 0)
    BY <1>5 DEF HasType, Read, Invalid
  <2> QED
    BY <1>5, <2>1 DEF KeepsItsType, Value
<1> QED
  BY <1>2, <1>3, <1>4, <1>5 DEF Types

\* What is parsed of a field that was sent.
Parsed(value) == IF value = None THEN None ELSE Value("str", Encoded(value))

\* The values that parsing a button yields, whichever way it is written: what was sent,
\* but for a None that is written as nothing.
Reads(old, new, payload, values) ==
    /\ DOMAIN values \subseteq Names(old) \cap Names(new)
    /\ \A n \in DOMAIN values : values[n] = Parsed(payload[n])
    /\ \A f \in ToSet(old.fields) : f.name \in Names(new) =>
          IF f.name \notin DOMAIN values
          THEN IF old.keyed THEN payload[f.name] = f.default ELSE payload[f.name] = None
          ELSE payload[f.name] # IF old.keyed THEN f.default ELSE None

LEMMA KeyedReads ==
    ASSUME NEW NameSet, NEW old, IsModel(NameSet, old), NEW new, IsModel(NameSet, new),
           NEW payload, IsPayload(old, payload), Pack(old, payload).ok, old.keyed
    PROVE  Reads(old, new, payload, ParseKeyed(new, Pack(old, payload).wire.parts).values)
<1> DEFINE parts == Pack(old, payload).wire.parts
           sent == Sent(old, payload)
           values == ParseKeyed(new, parts).values
<1>1. /\ DOMAIN parts = 1 .. Len(parts) /\ Len(parts) = Len(sent)
      /\ \A i \in 1 .. Len(sent) :
            parts[i] = [name |-> sent[i].name, value |-> Encoded(payload[sent[i].name])]
      /\ \A f \in ToSet(sent) : payload[f.name] # None => Encoded(payload[f.name]) # 0
  BY PackedParts
<1>2. /\ sent \in Seq(FieldSet(NameSet))
      /\ ToSet(sent) = {f \in ToSet(old.fields) : Goes(old, payload, f)}
  BY SentGoes
<1> HIDE DEF parts, sent
<1>3. Len(sent) \in Nat /\ ToSet(sent) = {sent[i] : i \in 1 .. Len(sent)}
  BY <1>2, LenProperties DEF ToSet
<1>4. ToSet(parts) = {parts[i] : i \in 1 .. Len(sent)}
  BY <1>1 DEF ToSet
<1>5. \A p \in ToSet(parts) : /\ \E f \in ToSet(sent) : f.name = p.name
                              /\ p.value = Encoded(payload[p.name])
  BY <1>1, <1>3, <1>4
<1>6. \A f \in ToSet(sent) : \E p \in ToSet(parts) : p.name = f.name
  BY <1>1, <1>3, <1>4
<1>7. \A f \in ToSet(old.fields) : f.name \in Names(old)
  BY FieldsByName
<1> DEFINE D == {p.name : p \in ToSet(parts)} \cap Names(new)
<1>8. DOMAIN values = D
  BY DEF ParseKeyed
<1>9. ASSUME NEW n \in D
      PROVE  n \in Names(old) /\ values[n] = Parsed(payload[n])
  <2> DEFINE part == CHOOSE p \in ToSet(parts) : p.name = n
  <2>1. values[n] = IF part.value = 0 THEN None ELSE Value("str", part.value)
    BY DEF ParseKeyed
  <2>2. part \in ToSet(parts) /\ part.name = n
    BY DEF D
  <2> HIDE DEF part
  <2>3. PICK f \in ToSet(sent) : f.name = n
    BY <2>2, <1>5
  <2>4. f \in ToSet(old.fields)
    BY <1>2
  <2>5. n \in Names(old) /\ (payload[n] # None => Encoded(payload[n]) # 0)
    BY <2>3, <2>4, <1>1, <1>7
  <2>6. payload[n] \in ValueSet
    BY <2>5 DEF IsPayload
  <2>7. part.value = Encoded(payload[n])
    BY <2>2, <1>5
  <2> HIDE DEF values
  <2> QED
    BY <2>1, <2>5, <2>6, <2>7, EncodedValue DEF Parsed
<1> HIDE DEF values
<1>10. ASSUME NEW f \in ToSet(old.fields), f.name \in Names(new), f.name \notin D
       PROVE  payload[f.name] = f.default
  <2>1. f \notin ToSet(sent)
    BY <1>10, <1>6
  <2> QED
    BY <2>1, <1>2 DEF Goes
<1>11. ASSUME NEW f \in ToSet(old.fields), f.name \in D
       PROVE  payload[f.name] # f.default
  <2>1. PICK g \in ToSet(sent) : g.name = f.name
    BY <1>5, <1>11
  <2>2. g = f
    BY <2>1, <1>2, FieldsByName
  <2> QED
    BY <2>1, <2>2, <1>2 DEF Goes
<1> QED
  BY <1>8, <1>9, <1>10, <1>11 DEF Reads, values, parts

LEMMA PositionalReads ==
    ASSUME NEW NameSet, NEW old, IsModel(NameSet, old), NEW new, IsModel(NameSet, new),
           NEW payload, IsPayload(old, payload), Pack(old, payload).ok, ~ old.keyed,
           IsPrefix(old.fields, new.fields)
    PROVE  LET parsed == ParsePositional(new, Pack(old, payload).wire.parts)
           IN parsed.ok /\ Reads(old, new, payload, parsed.values)
<1> DEFINE parts == Pack(old, payload).wire.parts
           sent == Sent(old, payload)
           parsed == ParsePositional(new, parts)
           values == parsed.values
<1>1. /\ DOMAIN parts = 1 .. Len(parts) /\ Len(parts) = Len(sent)
      /\ \A i \in 1 .. Len(sent) :
            parts[i] = [name |-> sent[i].name, value |-> Encoded(payload[sent[i].name])]
      /\ \A f \in ToSet(sent) : payload[f.name] # None => Encoded(payload[f.name]) # 0
  BY PackedParts
<1>2. sent = old.fields
  BY SentGoes
<1> HIDE DEF parts, sent
<1>3. /\ Len(old.fields) \in Nat /\ Len(new.fields) \in Nat
      /\ ToSet(old.fields) = {old.fields[i] : i \in 1 .. Len(old.fields)}
      /\ \A f \in ToSet(old.fields) : f.name \in Names(old)
      /\ \A f \in ToSet(new.fields) : f.name \in Names(new)
      /\ ToSet(new.fields) = {new.fields[i] : i \in 1 .. Len(new.fields)}
  BY FieldsByName
<1>4. /\ Len(old.fields) <= Len(new.fields)
      /\ \A i \in 1 .. Len(old.fields) : i \in 1 .. Len(new.fields) /\ old.fields[i] = new.fields[i]
  <2>1. /\ Len(old.fields) <= Len(new.fields)
        /\ SubSeq(old.fields, 1, Len(old.fields)) = SubSeq(new.fields, 1, Len(old.fields))
    BY DEF IsPrefix
  <2> DEFINE N == Len(old.fields)
  <2>2. old.fields \in Seq(FieldSet(NameSet)) /\ new.fields \in Seq(FieldSet(NameSet))
    BY DEF IsModel
  <2>3. \A i \in 1 .. N : i \in 1 .. Len(new.fields)
    BY <2>1, <1>3
  <2>4. /\ \A i \in 1 .. N : old.fields[i] \in FieldSet(NameSet)
        /\ \A i \in 1 .. N : new.fields[i] \in FieldSet(NameSet)
    BY <2>2, <2>3, ElementOfSeq
  <2>5. /\ \A i \in 1 .. N - 1 + 1 : SubSeq(old.fields, 1, N)[i] = old.fields[1 + i - 1]
        /\ \A i \in 1 .. N - 1 + 1 : SubSeq(new.fields, 1, N)[i] = new.fields[1 + i - 1]
    BY <2>4, <1>3, SubSeqProperties
  <2>6. ASSUME NEW i \in 1 .. N
        PROVE  old.fields[i] = new.fields[i]
    <3>1. i \in 1 .. N - 1 + 1 /\ 1 + i - 1 = i
      BY <1>3
    <3> QED
      BY <3>1, <2>1, <2>5
  <2> QED
    BY <2>1, <2>3, <2>6
<1> DEFINE N == Len(old.fields)
           given == {i \in DOMAIN parts : i <= Len(new.fields) /\ parts[i].value # 0}
           place(n) == CHOOSE i \in given : new.fields[i].name = n
           D == {new.fields[i].name : i \in given}
<1>5. /\ parsed.ok = (Len(parts) <= Len(new.fields) \/ (Len(parts) = 1 /\ given = {}))
      /\ values = [n \in D |-> Value("str", parts[place(n)].value)]
  BY DEF ParsePositional
<1>6. parsed.ok
  BY <1>1, <1>2, <1>4, <1>5
<1>7. \A i \in 1 .. N : /\ payload[old.fields[i].name] \in ValueSet
                        /\ \/ payload[old.fields[i].name] = None
                           \/ Encoded(payload[old.fields[i].name]) # 0
                        /\ old.fields[i].name \in Names(old)
                        /\ parts[i].value = Encoded(payload[old.fields[i].name])
  <2> SUFFICES ASSUME NEW i \in 1 .. N
               PROVE  /\ payload[old.fields[i].name] \in ValueSet
                      /\ \/ payload[old.fields[i].name] = None
                         \/ Encoded(payload[old.fields[i].name]) # 0
                      /\ old.fields[i].name \in Names(old)
                      /\ parts[i].value = Encoded(payload[old.fields[i].name])
    OBVIOUS
  <2>1. old.fields[i] \in ToSet(old.fields) /\ old.fields[i].name \in Names(old)
    BY <1>3
  <2>2. payload[old.fields[i].name] \in ValueSet
    BY <2>1 DEF IsPayload
  <2>3. parts[i].value = Encoded(payload[old.fields[i].name])
    <3>1. i \in 1 .. Len(sent) /\ sent[i] = old.fields[i]
      BY <1>2
    <3>2. parts[i] = [name |-> sent[i].name, value |-> Encoded(payload[sent[i].name])]
      BY <3>1, <1>1
    <3> QED
      BY <3>1, <3>2
  <2> QED
    BY <2>1, <2>2, <2>3, <1>1, <1>2
<1>8. given = {i \in 1 .. N : payload[old.fields[i].name] # None}
  <2>1. \A i \in 1 .. N : parts[i].value # 0 <=> payload[old.fields[i].name] # None
    BY <1>7, EncodedValue
  <2>2. DOMAIN parts = 1 .. N /\ \A i \in 1 .. N : i <= Len(new.fields)
    BY <1>1, <1>2, <1>3, <1>4
  <2> QED
    BY <2>1, <2>2
<1> HIDE DEF parsed, given
<1>9. DOMAIN values = D
  BY <1>5
<1>10. ASSUME NEW n \in D
       PROVE  /\ n \in Names(old) \cap Names(new)
              /\ values[n] = Parsed(payload[n]) /\ payload[n] # None
  <2>1. values[n] = Value("str", parts[place(n)].value)
    BY <1>5
  <2>2. place(n) \in given /\ new.fields[place(n)].name = n
    BY DEF D
  <2> DEFINE i == place(n)
  <2> HIDE DEF i
  <2>3. i \in given /\ new.fields[i].name = n /\ values[n] = Value("str", parts[i].value)
    BY <2>1, <2>2 DEF i
  <2>4. i \in 1 .. N /\ payload[old.fields[i].name] # None
    BY <2>3, <1>8
  <2>5. old.fields[i] = new.fields[i] /\ i \in 1 .. Len(new.fields)
    BY <2>4, <1>4
  <2>6. n \in Names(old) /\ n \in Names(new)
    BY <2>3, <2>4, <2>5, <1>3
  <2>7. parts[i].value = Encoded(payload[n])
    BY <2>3, <2>4, <2>5, <1>7
  <2> QED
    BY <2>3, <2>4, <2>5, <2>6, <2>7 DEF Parsed
<1>11. ASSUME NEW f \in ToSet(old.fields), f.name \notin D
       PROVE  payload[f.name] = None
  <2>1. PICK i \in 1 .. N : old.fields[i] = f
    BY <1>3
  <2>2. i \in given => f.name \in D
    BY <2>1, <1>4
  <2> QED
    BY <2>1, <2>2, <1>8, <1>11
<1> HIDE DEF values
<1>12. Reads(old, new, payload, values)
  BY <1>9, <1>10, <1>11 DEF Reads
<1> QED
  BY <1>6, <1>12 DEF parsed, parts, values

\* Unpacking for the old model or a newer one, whichever way the button is written.
LEMMA UnpackedValues ==
    ASSUME NEW NameSet, NEW old, IsModel(NameSet, old), NEW new, IsModel(NameSet, new),
           NEW payload, IsPayload(old, payload), Pack(old, payload).ok,
           new.prefix = old.prefix, old.keyed \/ IsPrefix(old.fields, new.fields)
    PROVE  \E values :
              /\ Reads(old, new, payload, values)
              /\ LET back == Unpack(new, Pack(old, payload).wire)
                     valid == ModelValidate(new, values)
                 IN back.ok = valid.ok /\ back.payload = valid.payload
<1> DEFINE wire == Pack(old, payload).wire
           parts == wire.parts
           parsed == IF wire.keyed /\ parts # <<>> THEN ParseKeyed(new, parts)
                     ELSE ParsePositional(new, parts)
           sent == Sent(old, payload)
           back == Unpack(new, wire)
           valid == ModelValidate(new, parsed.values)
<1>1. /\ wire.prefix = old.prefix /\ wire.keyed = old.keyed
      /\ DOMAIN parts = 1 .. Len(parts) /\ Len(parts) = Len(sent) /\ Len(sent) \in Nat
  BY PackedParts
<1>2. /\ back.ok = (Matches(new, wire) /\ parsed.ok /\ valid.ok)
      /\ back.payload = valid.payload
  BY DEF Unpack
<1>3. Matches(new, wire)
  BY <1>1 DEF Matches
<1>4. parsed.ok /\ Reads(old, new, payload, parsed.values)
  <2>1. CASE old.keyed /\ parts # <<>>
    <3>1. parsed = ParseKeyed(new, parts)
      BY <2>1, <1>1
    <3>2. ParseKeyed(new, parts).ok
      BY DEF ParseKeyed
    <3>3. Reads(old, new, payload, ParseKeyed(new, parts).values)
      BY <2>1, KeyedReads
    <3> QED
      BY <3>1, <3>2, <3>3
  <2>2. CASE old.keyed /\ parts = <<>>
    <3>1. parsed = ParsePositional(new, parts)
      BY <2>2
    <3>2. DOMAIN parts = {} /\ Len(parts) = 0 /\ Len(new.fields) \in Nat
      BY <2>2, EmptySeq, FieldsByName
    <3>3. ParsePositional(new, parts).ok
      <4>1. ParsePositional(new, parts).ok =
            (Len(parts) <= Len(new.fields)
             \/ (Len(parts) = 1 /\ {i \in DOMAIN parts : /\ i <= Len(new.fields)
                                                        /\ parts[i].value # 0} = {}))
        BY DEF ParsePositional
      <4>2. Len(parts) <= Len(new.fields)
        BY <3>2
      <4> HIDE DEF parts
      <4> QED
        BY <4>1, <4>2, Zenon
    <3>4. DOMAIN ParsePositional(new, parts).values = {}
      BY <3>2 DEF ParsePositional
    <3>5. ToSet(sent) = {}
      <4>1. sent \in Seq(FieldSet(NameSet))
        BY SentGoes
      <4>2. DOMAIN sent = {}
        BY <4>1, <3>2, <1>1, LenProperties
      <4> QED
        BY <4>2 DEF ToSet
    <3>6. \A f \in ToSet(old.fields) : payload[f.name] = f.default
      <4>1. {f \in ToSet(old.fields) : Goes(old, payload, f)} = {}
        BY <3>5, SentGoes
      <4> QED
        BY <4>1 DEF Goes
    <3>7. Reads(old, new, payload, ParsePositional(new, parts).values)
      BY <2>2, <3>4, <3>6 DEF Reads
    <3> QED
      BY <3>1, <3>3, <3>7
  <2>3. CASE ~ old.keyed
    <3>1. parsed = ParsePositional(new, parts)
      BY <2>3, <1>1
    <3>2. LET read == ParsePositional(new, parts)
          IN read.ok /\ Reads(old, new, payload, read.values)
      BY <2>3, PositionalReads
    <3> QED
      BY <3>1, <3>2
  <2> QED
    BY <2>1, <2>2, <2>3
<1>5. back.ok = valid.ok /\ back.payload = valid.payload
  <2> HIDE DEF parsed, valid, back
  <2>1. back.ok = (TRUE /\ TRUE /\ valid.ok)
    BY <1>2, <1>3, <1>4, Zenon
  <2>2. valid.ok \in BOOLEAN
    BY DEF valid, ModelValidate
  <2> QED
    BY <1>2, <2>1, <2>2
<1> HIDE DEF parsed, wire
<1>6. Reads(old, new, payload, parsed.values)
  BY <1>4
<1> QED
  BY <1>5, <1>6 DEF wire

\* What becomes of a field when the values are validated.
Result(values, f) ==
    IF f.name \in DOMAIN values THEN Validated(f, values[f.name]) ELSE f.default

\* The payload of the values has what becomes of each field.
LEMMA ValidatedPayload ==
    ASSUME NEW NameSet, NEW new, IsModel(NameSet, new), NEW values
    PROVE  /\ ModelValidate(new, values).payload =
              [n \in Names(new) |-> ModelValidate(new, values).payload[n]]
           /\ \A f \in ToSet(new.fields) :
                 ModelValidate(new, values).payload[f.name] = Result(values, f)
           /\ ModelValidate(new, values).ok <=>
                 \A f \in ToSet(new.fields) : Result(values, f) \notin {Invalid, Required}
<1> DEFINE valid == ModelValidate(new, values)
           p == [n \in Names(new) |->
                    Result(values, CHOOSE f \in ToSet(new.fields) : f.name = n)]
<1>1. valid.payload = p
  BY DEF ModelValidate, Result
<1>2. valid.ok <=> \A f \in ToSet(new.fields) : Result(values, f) \notin {Invalid, Required}
  BY DEF ModelValidate, Result
<1> HIDE DEF valid
<1>3. ASSUME NEW f \in ToSet(new.fields)
      PROVE  p[f.name] = Result(values, f)
  <2>1. f.name \in Names(new)
    BY FieldsByName
  <2>2. (CHOOSE g \in ToSet(new.fields) : g.name = f.name) = f
    <3>1. \A g \in ToSet(new.fields) : g.name = f.name => g = f
      BY FieldsByName
    <3> QED
      BY <3>1
  <2> QED
    BY <2>1, <2>2
<1>4. p = [n \in Names(new) |-> p[n]]
  OBVIOUS
<1> HIDE DEF p
<1> QED
  BY <1>1, <1>2, <1>3, <1>4 DEF valid

\* A field of a button becomes what it was just when it comes back at all.
LEMMA FieldReturns ==
    ASSUME NEW NameSet, NEW old, IsModel(NameSet, old), NEW new,
           NEW payload, IsPayload(old, payload),
           NEW values, Reads(old, new, payload, values),
           NEW f \in ToSet(old.fields), f.name \in Names(new)
    PROVE  /\ Result(values, f) = payload[f.name] <=> Returns(old, f, payload[f.name])
           /\ payload[f.name] \notin {Invalid, Required}
<1> DEFINE v == payload[f.name]
<1>1. /\ f.name \in Names(old) /\ f.type \in Types /\ v \in ValueSet
      /\ IF v = None THEN f.nullable ELSE HasType(f.type, v)
  BY FieldsByName DEF IsPayload
<1>2. v \notin {Invalid, Required}
  BY <1>1 DEF ValueSet, Types, None, Invalid, Required, Value
<1>3. CASE f.name \notin DOMAIN values
  <2>1. Result(values, f) = f.default
    BY <1>3 DEF Result
  <2>2. IF old.keyed THEN v = f.default ELSE v = None
    BY <1>3 DEF Reads
  <2> HIDE DEF v
  <2> QED
    BY <1>2, <2>1, <2>2 DEF v, Returns
<1>4. CASE f.name \in DOMAIN values
  <2>1. Result(values, f) = Validated(f, Parsed(v))
    BY <1>4 DEF Result, Reads
  <2>2. v # IF old.keyed THEN f.default ELSE None
    BY <1>4 DEF Reads
  <2> HIDE DEF v
  <2>3. CASE v = None
    <3>1. Result(values, f) = None
      BY <1>1, <2>1, <2>3 DEF Parsed, Validated
    <3>2. Returns(old, f, v)
      BY <2>2, <2>3 DEF Returns
    <3> QED
      BY <1>2, <2>3, <3>1, <3>2 DEF v
  <2>4. CASE v # None
    <3>1. Result(values, f) = Read(f.type, Encoded(v))
      <4>1. Parsed(v) = Value("str", Encoded(v)) /\ Parsed(v) # None
        BY <2>4 DEF Parsed, Value, None
      <4>2. Parsed(v).text = Encoded(v)
        BY <4>1 DEF Value
      <4> QED
        BY <2>1, <4>1, <4>2 DEF Validated
    <3>2. Read(f.type, Encoded(v)) = v <=> KeepsItsType(f, v)
      BY <1>1, <2>4, ReadBack
    <3>3. Returns(old, f, v) <=> KeepsItsType(f, v)
      BY <2>2, <2>4 DEF Returns
    <3> QED
      BY <1>2, <3>1, <3>2, <3>3 DEF v
  <2> QED
    BY <2>3, <2>4
<1> QED
  BY <1>3, <1>4

\* A button of an old model is taken by a new one.
LEMMA ButtonSurvives ==
    ASSUME NEW NameSet, NEW old, IsModel(NameSet, old), NEW new, IsModel(NameSet, new),
           IsVersionOf(new, old), NEW payload, IsPayload(old, payload)
    PROVE  Survives(old, new, payload)
<1> DEFINE kept == {f \in ToSet(old.fields) : f.name \in Names(new)}
<1> SUFFICES ASSUME Pack(old, payload).ok,
                    \A f \in ToSet(new.fields) : f.name \notin Names(old) => f.default # Required,
                    \A f \in kept : Returns(old, f, payload[f.name]),
                    old.keyed \/ IsPrefix(old.fields, new.fields)
             PROVE  LET back == Unpack(new, Pack(old, payload).wire)
                    IN /\ back.ok
                       /\ \A f \in kept : back.payload[f.name] = payload[f.name]
  BY DEF Survives
<1> DEFINE back == Unpack(new, Pack(old, payload).wire)
<1>1. PICK values : /\ Reads(old, new, payload, values)
                    /\ back.ok = ModelValidate(new, values).ok
                    /\ back.payload = ModelValidate(new, values).payload
  BY UnpackedValues DEF IsVersionOf
<1> HIDE DEF back
<1>2. /\ \A f \in ToSet(new.fields) : back.payload[f.name] = Result(values, f)
      /\ (\A f \in ToSet(new.fields) : Result(values, f) \notin {Invalid, Required}) => back.ok
  <2> DEFINE valid == ModelValidate(new, values)
  <2>1. /\ \A f \in ToSet(new.fields) : valid.payload[f.name] = Result(values, f)
        /\ valid.ok <=> \A f \in ToSet(new.fields) : Result(values, f) \notin {Invalid, Required}
    BY ValidatedPayload, ZenonT(40)
  <2>2. back.ok = valid.ok /\ back.payload = valid.payload
    BY <1>1
  <2> HIDE DEF valid
  <2> QED
    BY <2>1, <2>2
<1>4. ASSUME NEW f \in kept
      PROVE  Result(values, f) = payload[f.name] /\ Result(values, f) \notin {Invalid, Required}
  BY <1>1, FieldReturns
<1>5. ASSUME NEW f \in ToSet(new.fields)
      PROVE  Result(values, f) \notin {Invalid, Required}
  <2>1. f.name \in Names(new) /\ f.default \in ValueSet \cup {Required}
    BY FieldsByName
  <2>2. CASE f.name \in Names(old)
    <3>1. PICK g \in ToSet(old.fields) : g.name = f.name
      BY <2>2, FieldsByName
    <3>2. f \in kept
      BY <2>1, <3>1 DEF IsVersionOf
    <3> QED
      BY <3>2, <1>4
  <2>3. CASE f.name \notin Names(old)
    <3>1. Result(values, f) = f.default /\ f.default # Required
      BY <2>3, <1>1 DEF Result, Reads
    <3>2. Invalid \notin ValueSet
      BY DEF ValueSet, Types, None, Invalid, Value
    <3>3. Invalid # Required
      BY DEF Invalid, Required, Value
    <3> QED
      BY <2>1, <3>1, <3>2, <3>3
  <2> QED
    BY <2>2, <2>3
<1>6. ASSUME NEW f \in kept
      PROVE  back.payload[f.name] = payload[f.name]
  <2>1. PICK g \in ToSet(new.fields) : g.name = f.name
    BY FieldsByName
  <2>2. g = f
    BY <2>1 DEF IsVersionOf
  <2> QED
    BY <2>1, <2>2, <1>2, <1>4
<1> QED
  BY <1>2, <1>5, <1>6 DEF back

\* A button gives back what it was packed from just when each field comes back.
LEMMA ButtonComesBack ==
    ASSUME NEW NameSet, NEW model, IsModel(NameSet, model),
           NEW payload, IsPayload(model, payload)
    PROVE  ComesBack(model, payload)
<1> DEFINE back == Unpack(model, Pack(model, payload).wire)
           all == \A f \in ToSet(model.fields) : Returns(model, f, payload[f.name])
<1> SUFFICES ASSUME Pack(model, payload).ok
             PROVE  (back.ok /\ back.payload = payload) = all
  BY DEF ComesBack
<1>1. IsPrefix(model.fields, model.fields)
  BY FieldsByName DEF IsPrefix
<1>2. PICK values : /\ Reads(model, model, payload, values)
                    /\ back.ok = ModelValidate(model, values).ok
                    /\ back.payload = ModelValidate(model, values).payload
  BY <1>1, UnpackedValues
<1> HIDE DEF back
<1>3. /\ back.payload = [n \in Names(model) |-> back.payload[n]]
      /\ \A f \in ToSet(model.fields) : back.payload[f.name] = Result(values, f)
      /\ (\A f \in ToSet(model.fields) : Result(values, f) \notin {Invalid, Required}) => back.ok
  BY <1>2, ValidatedPayload
<1>4. \A f \in ToSet(model.fields) :
         /\ f.name \in Names(model)
         /\ Result(values, f) = payload[f.name] <=> Returns(model, f, payload[f.name])
         /\ payload[f.name] \notin {Invalid, Required}
  <2> TAKE f \in ToSet(model.fields)
  <2>1. f.name \in Names(model)
    BY FieldsByName
  <2> QED
    BY <2>1, <1>2, FieldReturns
<1>5. back.payload = payload => all
  BY <1>3, <1>4
<1>6. ASSUME all
      PROVE  back.ok /\ back.payload = payload
  <2>1. back.ok
    BY <1>3, <1>4, <1>6
  <2>2. \A n \in Names(model) : back.payload[n] = payload[n]
    <3> TAKE n \in Names(model)
    <3>1. PICK f \in ToSet(model.fields) : f.name = n
      BY FieldsByName
    <3> QED
      BY <3>1, <1>3, <1>4, <1>6
  <2>3. payload = [n \in Names(model) |-> payload[n]]
    BY DEF IsPayload
  <2> QED
    BY <2>1, <2>2, <2>3, <1>3
<1>7. all \in BOOLEAN /\ (back.ok /\ back.payload = payload) \in BOOLEAN
  OBVIOUS
<1> HIDE DEF all
<1> QED
  BY <1>5, <1>6, <1>7

(***************************************************************************)
(* For models with any fields and any payloads of their types: a button    *)
(* gives back the payload it was packed from exactly when no None is       *)
(* written as nothing although its field has another default, and no value *)
(* goes on the wire in a field that cannot tell its type; and a button of  *)
(* an old model is taken by a newer one that changed the way its format    *)
(* allows, with the values of the fields they share.                       *)
(***************************************************************************)
THEOREM ButtonsAlwaysComeBack ==
    ASSUME NEW NameSet,
           input.kind = "button" =>
               IsModel(NameSet, input.model) /\ IsPayload(input.model, input.payload),
           input.kind = "old button" =>
               /\ IsModel(NameSet, input.old) /\ IsModel(NameSet, input.new)
               /\ IsVersionOf(input.new, input.old) /\ IsPayload(input.old, input.payload)
    PROVE  ButtonsComeBack
<1>1. input.kind = "button" => ComesBack(input.model, input.payload)
  BY ButtonComesBack
<1>2. input.kind = "old button" => Survives(input.old, input.new, input.payload)
  BY ButtonSurvives
<1> QED
  BY <1>1, <1>2 DEF ButtonsComeBack
=============================================================================
