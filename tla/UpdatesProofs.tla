----------------------------- MODULE UpdatesProofs -----------------------------
(***************************************************************************)
(* Proofs about Updates, for any providers, handlers and hooks: nobody     *)
(* uses a scope that is closed, what is set up in it is shared, undone and *)
(* cleaned up as DependencyScope promises, guards hold, and users are      *)
(* answered.  None of it depends on a resolution keeping others from       *)
(* running between two awaits.                                             *)
(*                                                                         *)
(* The first part is about the steps of DependencyScope alone: what is     *)
(* resolved, shared, undone and cleaned up, as long as nobody works in a   *)
(* scope that is closed.  The second shows that of Updates, and the rest.  *)
(***************************************************************************)
EXTENDS Updates, SequenceTheorems, TLAPS

Phases == {"open", "plain", "finished", "aborted"}
Instances == [name : Names, by : Users, from : SUBSET Nat, phase : Phases]
FrameSet == [name : Callables, got : Seq(Nat)]

(***************************************************************************)
(* The invariant, part by part.  The parts say what they mean of any       *)
(* value of the variables they are about.                                  *)
(***************************************************************************)

\* Instances are numbered as they are made, and built on older ones.
Numbered(all) ==
    /\ all \in Seq(Instances)
    /\ \A i \in 1 .. Len(all) : all[i].from \subseteq 1 .. i - 1

\* What u may have in its hands.
Holdable(i, u, all) ==
    i = Known \/ (i \in 1 .. Len(all) /\ (all[i].phase = "aborted" => all[i].by # u))

\* A stack is a function or the resolver and, above it, what is being resolved; each
\* frame but the top one waits for a parameter.
Stacked(stack, u, all) ==
    /\ stack \in Seq(FrameSet)
    /\ \A k \in 1 .. Len(stack) :
          /\ Len(stack[k].got) <= Len(Deps[stack[k].name])
          /\ k < Len(stack) => Len(stack[k].got) < Len(Deps[stack[k].name])
          /\ \A i \in 1 .. Len(stack[k].got) : Holdable(stack[k].got[i], u, all)
    /\ stack # <<>> => stack[1].name \in Functions \cup {Principal}

\* A name is cached for an instance of that name; while the scope is open it is one
\* that can be used.
Cached(cached, all, isClosed) ==
    /\ DOMAIN cached \subseteq Names
    /\ \A n \in DOMAIN cached :
          /\ cached[n] \in 1 .. Len(all) /\ all[cached[n]].name = n
          /\ ~isClosed =>
                /\ all[cached[n]].phase \in {"open", "plain"}
                /\ \A i \in all[cached[n]].from :
                      all[i].phase = "aborted" => all[i].by # all[cached[n]].by

\* The cleanups are those of the open instances, in the order they were made.
Owed(owed, all) ==
    /\ owed \in Seq(Nat)
    /\ \A i, j \in 1 .. Len(owed) : i < j => owed[i] < owed[j]
    /\ \A i \in 1 .. Len(owed) : owed[i] \in 1 .. Len(all) /\ all[owed[i]].phase = "open"
    /\ \A c \in 1 .. Len(all) : all[c].phase = "open" =>
                                    \E i \in 1 .. Len(owed) : owed[i] = c

\* Cleanups run only when the scope is closed, dependents first.
Finishing(all, isClosed) ==
    \A i \in 1 .. Len(all) : all[i].phase = "finished" =>
        /\ isClosed
        /\ \A j \in 1 .. Len(all) : i \in all[j].from => all[j].phase # "open"

\* A journal is kept by who resolves the principal.  It has the cleanups of what u
\* made, and the names of all that u built on it.
Journaled(entry, stack, u, all) ==
    /\ entry = NoJournal \/ \E k \in 1 .. Len(stack) : stack[k].name = Principal
    /\ entry.teardowns \in Seq(Nat)
    /\ \A k \in 1 .. Len(entry.teardowns) :
          /\ entry.teardowns[k] \in 1 .. Len(all)
          /\ all[entry.teardowns[k]].by = u
          /\ all[entry.teardowns[k]].name \in entry.names
          /\ \A c \in 1 .. Len(all) :
                (all[c].by = u /\ entry.teardowns[k] \in all[c].from) =>
                    all[c].name \in entry.names

\* What u is about to abort u made, and the cache has neither it nor what u built on it.
Undoing(aborting, u, all, cached) ==
    /\ aborting \in Seq(Nat)
    /\ \A k \in 1 .. Len(aborting) :
          /\ aborting[k] \in 1 .. Len(all)
          /\ all[aborting[k]].by = u
          /\ \A n \in DOMAIN cached :
                /\ cached[n] # aborting[k]
                /\ all[cached[n]].by = u => aborting[k] \notin all[cached[n]].from

Shape ==
    /\ holders \subseteq Users
    /\ closed \in BOOLEAN /\ principal \in BOOLEAN
    /\ frames = [u \in Users |-> frames[u]]
    /\ journal = [u \in Users |-> journal[u]]
    /\ undoing = [u \in Users |-> undoing[u]]

SInv ==
    /\ Shape
    /\ Numbered(made)
    /\ Cached(cache, made, closed)
    /\ Owed(cleanups, made)
    /\ Finishing(made, closed)
    /\ \A u \in Users : /\ Stacked(frames[u], u, made)
                        /\ Journaled(journal[u], frames[u], u, made)
                        /\ Undoing(undoing[u], u, made, cache)
                        /\ frames[u] # <<>> => undoing[u] = <<>>

\* What the steps need from outside: nobody works in a closed scope.
Free == closed => /\ holders = {}
                  /\ \A u \in Users : frames[u] = <<>> /\ undoing[u] = <<>>

LEMMA ShapeSuffices ==
    ASSUME SInv, Free
    PROVE  ScopeTypeOK /\ CleanupsInOrder /\ HandedIsLive
<1>1. ScopeTypeOK
  <2>1. ToSet(cleanups) \subseteq DOMAIN made
    BY DEF SInv, Owed, ToSet, Numbered
  <2>2. \A i \in DOMAIN made : /\ made[i].name \in Names /\ made[i].by \in Users
                               /\ made[i].from \subseteq 1 .. i - 1
                               /\ made[i].phase \in {"open", "plain", "finished", "aborted"}
    <3> TAKE i \in DOMAIN made
    <3>1. i \in 1 .. Len(made) /\ made[i] \in Instances
      BY DEF SInv, Numbered
    <3> QED
      BY <3>1 DEF SInv, Numbered, Instances, Phases
  <2>3. \A u \in Users : Journaling(u) \/ journal[u] = NoJournal
    BY DEF SInv, Journaling, Journaled, Stacked
  <2> QED
    BY <2>1, <2>2, <2>3 DEF SInv, Shape, Cached, ScopeTypeOK, Numbered
<1>2. CleanupsInOrder
  <2>1. OwedOnce
    <3>1. /\ cleanups \in Seq(Nat) /\ DOMAIN cleanups = 1 .. Len(cleanups)
          /\ made \in Seq(Instances) /\ DOMAIN made = 1 .. Len(made)
      BY DEF SInv, Owed, Numbered
    <3>2. ASSUME NEW i \in 1 .. Len(cleanups), NEW j \in 1 .. Len(cleanups),
                 cleanups[i] = cleanups[j]
          PROVE  i = j
      <4>1. ~(i < j) /\ ~(j < i)
        BY <3>1, <3>2 DEF SInv, Owed
      <4> QED
        BY <3>1, <4>1
    <3>3. ToSet(cleanups) = {i \in DOMAIN made : made[i].phase = "open"}
      <4>1. \A i \in DOMAIN cleanups : cleanups[i] \in DOMAIN made /\ made[cleanups[i]].phase = "open"
        BY <3>1 DEF SInv, Owed
      <4>2. \A c \in DOMAIN made : made[c].phase = "open" => \E i \in DOMAIN cleanups : cleanups[i] = c
        BY <3>1 DEF SInv, Owed
      <4> QED
        BY <4>1, <4>2 DEF ToSet
    <3> QED
      BY <3>1, <3>2, <3>3 DEF OwedOnce, IsInjective
  <2>2. DependentsFinishFirst
    BY DEF SInv, Finishing, Numbered, DependentsFinishFirst
  <2> QED
    BY <2>1, <2>2 DEF CleanupsInOrder
<1>3. HandedIsLive
  <2>1. ASSUME NEW u \in Users, NEW i \in InHand(u)
        PROVE  made[i].phase # "finished" /\ (made[i].phase = "aborted" => made[i].by # u)
    <3>1. PICK k \in DOMAIN frames[u] : i \in ToSet(frames[u][k].got) \ {Known}
      BY <2>1 DEF InHand
    <3>2. frames[u] \in Seq(FrameSet) /\ frames[u][k] \in FrameSet
      BY <3>1 DEF SInv, Stacked
    <3>3. PICK j \in 1 .. Len(frames[u][k].got) : i = frames[u][k].got[j]
      BY <3>1, <3>2 DEF ToSet, FrameSet
    <3>4. i \in 1 .. Len(made) /\ (made[i].phase = "aborted" => made[i].by # u)
      <4>1. k \in 1 .. Len(frames[u]) /\ i # Known
        BY <3>1, <3>2
      <4>2. Holdable(i, u, made)
        BY <3>3, <4>1 DEF SInv, Stacked
      <4> QED
        BY <4>1, <4>2 DEF Holdable
    <3>5. ~closed
      BY <3>1, <3>2 DEF Free
    <3> QED
      BY <3>4, <3>5 DEF SInv, Finishing
  <2>2. ~closed => \A n \in DOMAIN cache :
          /\ made[cache[n]].phase \in {"open", "plain"}
          /\ \A i \in made[cache[n]].from :
                made[i].phase = "aborted" => made[i].by # made[cache[n]].by
    BY DEF SInv, Cached
  <2> QED
    BY <2>1, <2>2 DEF HandedIsLive
<1> QED
  BY <1>1, <1>2, <1>3

(***************************************************************************)
(* Stacks.                                                                 *)
(***************************************************************************)

LEMMA FrontFacts ==
    ASSUME NEW S, NEW s \in Seq(S), s # <<>>
    PROVE  /\ Front(s) \in Seq(S) /\ Len(Front(s)) = Len(s) - 1
           /\ \A i \in 1 .. Len(s) - 1 : Front(s)[i] = s[i]
<1>1. Len(s) \in Nat \ {0} /\ \A i \in 1 .. Len(s) - 1 : s[i] \in S
  BY EmptySeq
<1> QED
  <2>1. 1 - 1 + 1 = 1 /\ Len(s) - 1 \in Int /\ (Len(s) - 1) - 1 + 1 = Len(s) - 1
        /\ \A i \in 1 .. Len(s) - 1 : 1 + i - 1 = i
    BY <1>1
  <2>2. /\ SubSeq(s, 1, Len(s) - 1) \in Seq(S)
        /\ Len(SubSeq(s, 1, Len(s) - 1)) = IF 1 <= Len(s) - 1 THEN Len(s) - 1 - 1 + 1 ELSE 0
        /\ \A i \in 1 .. Len(s) - 1 - 1 + 1 : SubSeq(s, 1, Len(s) - 1)[i] = s[1 + i - 1]
    BY <1>1, <2>1, SubSeqProperties
  <2> QED
    BY <1>1, <2>1, <2>2 DEF Front

LEMMA FrameFacts ==
    ASSUME NEW f \in FrameSet
    PROVE  /\ f.name \in Callables /\ f.got \in Seq(Nat)
           /\ Len(f.got) \in Nat /\ Len(Deps[f.name]) \in Nat
BY ScopeAssumption DEF FrameSet

LEMMA StackedAt ==
    ASSUME NEW u, NEW all, NEW stack, Stacked(stack, u, all), NEW k \in 1 .. Len(stack)
    PROVE  /\ stack[k] \in FrameSet
           /\ Len(stack[k].got) <= Len(Deps[stack[k].name])
           /\ k < Len(stack) => Len(stack[k].got) < Len(Deps[stack[k].name])
           /\ \A i \in 1 .. Len(stack[k].got) : Holdable(stack[k].got[i], u, all)
BY DEF Stacked

LEMMA Pushed ==
    ASSUME NEW u, NEW all, NEW stack, Stacked(stack, u, all), stack # <<>>, ~Full(Top(stack)),
           NEW name \in Names \cup {Principal}
    PROVE  /\ Stacked(Append(stack, Frame(name)), u, all)
           /\ Append(stack, Frame(name)) # <<>>
           /\ \A k \in 1 .. Len(stack) : /\ k \in 1 .. Len(Append(stack, Frame(name)))
                                         /\ Append(stack, Frame(name))[k].name = stack[k].name
<1> DEFINE new == Append(stack, Frame(name))
<1>1. Frame(name) \in FrameSet /\ Frame(name).got = <<>> /\ Frame(name).name = name
  BY DEF Frame, FrameSet, Callables
<1>2. /\ stack \in Seq(FrameSet) /\ new \in Seq(FrameSet) /\ Len(new) = Len(stack) + 1
      /\ new[Len(new)] = Frame(name) /\ \A k \in 1 .. Len(stack) : new[k] = stack[k]
  BY <1>1 DEF Stacked
<1>3. Len(Deps[name]) \in Nat
  BY ScopeAssumption DEF Callables
<1>4. \A k \in 1 .. Len(stack) : Len(stack[k].got) < Len(Deps[stack[k].name])
  <2>1. Len(stack[Len(stack)].got) # Len(Deps[stack[Len(stack)].name])
    BY DEF Full, Top, Last
  <2>2. stack[Len(stack)] \in FrameSet /\ Len(stack) \in 1 .. Len(stack)
    BY <1>2
  <2>3. Len(stack[Len(stack)].got) \in Nat /\ Len(Deps[stack[Len(stack)].name]) \in Nat
    BY <2>2, ScopeAssumption DEF FrameSet
  <2> QED
    BY <1>2, <2>1, <2>2, <2>3 DEF Stacked
<1>5. \A k \in 1 .. Len(new) :
         /\ Len(new[k].got) <= Len(Deps[new[k].name])
         /\ k < Len(new) => Len(new[k].got) < Len(Deps[new[k].name])
         /\ \A i \in 1 .. Len(new[k].got) : Holdable(new[k].got[i], u, all)
  <2> TAKE k \in 1 .. Len(new)
  <2>1. CASE k \in 1 .. Len(stack)
    BY <1>2, <1>4, <2>1 DEF Stacked
  <2>2. CASE k = Len(new)
    BY <1>1, <1>2, <1>3, <2>2
  <2> QED
    BY <1>2, <2>1, <2>2
<1>6. new # <<>> /\ new[1].name \in Functions \cup {Principal}
  BY <1>2 DEF Stacked
<1> QED
  BY <1>2, <1>5, <1>6 DEF Stacked

LEMMA Handed ==
    ASSUME NEW u, NEW all, NEW stack, Stacked(stack, u, all), stack # <<>>, ~Full(Top(stack)),
           NEW id \in Nat, Holdable(id, u, all)
    PROVE  /\ Stacked(Hand(stack, id), u, all)
           /\ Hand(stack, id) # <<>> /\ Len(Hand(stack, id)) = Len(stack)
           /\ \A k \in 1 .. Len(stack) : Hand(stack, id)[k].name = stack[k].name
<1> DEFINE n == Len(stack)
           top == [stack[n] EXCEPT !.got = Append(@, id)]
           new == Hand(stack, id)
<1>1. stack \in Seq(FrameSet) /\ n \in Nat \ {0} /\ stack[n] \in FrameSet
  BY DEF Stacked
<1>2. /\ top \in FrameSet /\ top.name = stack[n].name /\ Len(top.got) = Len(stack[n].got) + 1
      /\ \A i \in 1 .. Len(stack[n].got) : top.got[i] = stack[n].got[i]
      /\ top.got[Len(top.got)] = id
  <2>1. stack[n].got \in Seq(Nat) /\ top = [name |-> stack[n].name, got |-> Append(stack[n].got, id)]
    <3>1. ASSUME NEW f \in FrameSet, NEW g
          PROVE  [f EXCEPT !.got = g] = [name |-> f.name, got |-> g]
      BY DEF FrameSet
    <3> QED
      BY <1>1, <3>1 DEF FrameSet
  <2>2. /\ Append(stack[n].got, id) \in Seq(Nat)
        /\ Len(Append(stack[n].got, id)) = Len(stack[n].got) + 1
        /\ \A i \in 1 .. Len(stack[n].got) : Append(stack[n].got, id)[i] = stack[n].got[i]
        /\ Append(stack[n].got, id)[Len(stack[n].got) + 1] = id
    BY <2>1
  <2> QED
    BY <1>1, <2>1, <2>2 DEF FrameSet
<1>3. new = Append(Front(stack), top)
  BY DEF Hand, Top, Last
<1>4. /\ Front(stack) \in Seq(FrameSet) /\ Len(Front(stack)) = n - 1
      /\ \A k \in 1 .. n - 1 : Front(stack)[k] = stack[k]
  BY <1>1, FrontFacts
<1>5. /\ new \in Seq(FrameSet) /\ Len(new) = n /\ new[n] = top
      /\ \A k \in 1 .. n - 1 : new[k] = stack[k]
  BY <1>1, <1>2, <1>3, <1>4
<1>6. Len(stack[n].got) < Len(Deps[stack[n].name])
  <2>1. Len(stack[n].got) # Len(Deps[stack[n].name])
    BY DEF Full, Top, Last
  <2>2. Len(stack[n].got) \in Nat /\ Len(Deps[stack[n].name]) \in Nat
    BY <1>1, ScopeAssumption DEF FrameSet
  <2> QED
    BY <1>1, <2>1, <2>2 DEF Stacked
<1>7. Len(stack[n].got) \in Nat /\ Len(Deps[stack[n].name]) \in Nat
  BY <1>1, ScopeAssumption DEF FrameSet
<1>8. \A k \in 1 .. Len(new) :
         /\ Len(new[k].got) <= Len(Deps[new[k].name])
         /\ k < Len(new) => Len(new[k].got) < Len(Deps[new[k].name])
         /\ \A i \in 1 .. Len(new[k].got) : Holdable(new[k].got[i], u, all)
  <2> TAKE k \in 1 .. Len(new)
  <2>1. CASE k \in 1 .. n - 1
    BY <1>1, <1>5, <2>1 DEF Stacked
  <2>2. CASE k = n
    <3>1. Len(new[k].got) <= Len(Deps[new[k].name])
      <4>1. Len(new[k].got) = Len(stack[n].got) + 1 /\ new[k].name = stack[n].name
        BY <1>2, <1>5, <2>2
      <4> QED
        BY <1>6, <1>7, <4>1
    <3>2. ASSUME NEW i \in 1 .. Len(new[k].got)
          PROVE  Holdable(new[k].got[i], u, all)
      <4>1. CASE i \in 1 .. Len(stack[n].got)
        BY <1>1, <1>2, <1>5, <2>2, <4>1 DEF Stacked
      <4>2. CASE i = Len(top.got)
        BY <1>2, <1>5, <2>2, <4>2
      <4> QED
        <5>1. i \in 1 .. Len(stack[n].got) + 1 /\ Len(top.got) = Len(stack[n].got) + 1
          BY <1>2, <1>5, <2>2
        <5>2. i \in 1 .. Len(stack[n].got) \/ i = Len(top.got)
          BY <1>7, <5>1
        <5> QED
          BY <4>1, <4>2, <5>2
    <3> QED
      BY <1>5, <2>2, <3>1, <3>2
  <2> QED
    BY <1>1, <1>5, <2>1, <2>2
<1>9. new # <<>> /\ new[1].name = stack[1].name
  <2>1. CASE n = 1
    BY <1>1, <1>2, <1>5, <2>1
  <2>2. CASE n > 1
    <3>1. 1 \in 1 .. n - 1
      BY <1>1, <2>2
    <3> QED
      BY <1>1, <1>5, <2>2, <3>1
  <2>3. n = 1 \/ n > 1
    <3>1. n \in Nat \ {0}
      BY <1>1
    <3> HIDE DEF n
    <3> QED
      BY <3>1
  <2> QED
    BY <2>1, <2>2, <2>3
<1>10. Stacked(new, u, all)
  BY <1>1, <1>5, <1>8, <1>9 DEF Stacked
<1>11. \A k \in 1 .. n : new[k].name = stack[k].name
  <2> TAKE k \in 1 .. n
  <2>1. k \in 1 .. n - 1 \/ k = n
    BY <1>1
  <2> QED
    BY <1>2, <1>5, <2>1
<1> QED
  BY <1>5, <1>9, <1>10, <1>11

\* A provider that is being resolved has something below it that waits for it.
LEMMA Popped ==
    ASSUME NEW u, NEW all, NEW stack, Stacked(stack, u, all), stack # <<>>
    PROVE  /\ Stacked(Front(stack), u, all)
           /\ Len(Front(stack)) = Len(stack) - 1
           /\ \A k \in 1 .. Len(stack) - 1 : Front(stack)[k] = stack[k]
           /\ Front(stack) # <<>> => ~Full(Top(Front(stack)))
           /\ Top(stack).name \in Names => Front(stack) # <<>>
<1> DEFINE n == Len(stack)
           new == Front(stack)
<1>1. stack \in Seq(FrameSet) /\ n \in Nat \ {0} /\ stack[n] \in FrameSet
  BY DEF Stacked
<1>2. /\ new \in Seq(FrameSet) /\ Len(new) = n - 1
      /\ \A k \in 1 .. n - 1 : new[k] = stack[k]
  BY <1>1, FrontFacts
<1>3. \A k \in 1 .. n - 1 :
         /\ Len(new[k].got) < Len(Deps[new[k].name])
         /\ Len(new[k].got) \in Nat /\ Len(Deps[new[k].name]) \in Nat
         /\ \A i \in 1 .. Len(new[k].got) : Holdable(new[k].got[i], u, all)
  <2> TAKE k \in 1 .. n - 1
  <2>1. k \in 1 .. Len(stack) /\ k < Len(stack) /\ new[k] = stack[k]
    BY <1>1, <1>2
  <2>2. stack[k] \in FrameSet
    BY <1>1, <2>1
  <2> QED
    BY <2>1, <2>2, StackedAt, FrameFacts
<1>4. Stacked(new, u, all)
  <2>1. ASSUME NEW k \in 1 .. Len(new)
        PROVE  Len(new[k].got) <= Len(Deps[new[k].name])
    <3>1. k \in 1 .. n - 1
      BY <1>2
    <3>2. /\ Len(new[k].got) < Len(Deps[new[k].name])
          /\ Len(new[k].got) \in Nat /\ Len(Deps[new[k].name]) \in Nat
      BY <1>3, <3>1
    <3> QED
      BY <3>2
  <2>2. new # <<>> => new[1].name \in Functions \cup {Principal}
    BY <1>1, <1>2 DEF Stacked
  <2> QED
    BY <1>1, <1>2, <1>3, <2>1, <2>2 DEF Stacked
<1>5. new # <<>> => ~Full(Top(new))
  BY <1>2, <1>3 DEF Full, Top, Last
<1>6. Top(stack).name \in Names => new # <<>>
  BY <1>1, <1>2, ScopeAssumption DEF Stacked, Top, Last
<1> QED
  BY <1>2, <1>4, <1>5, <1>6

LEMMA Started ==
    ASSUME NEW u, NEW all, NEW fn \in Functions \cup {Principal}
    PROVE  /\ Stacked(<<Frame(fn)>>, u, all) /\ Stacked(<<>>, u, all)
           /\ <<Frame(fn)>> # <<>>
<1>1. Frame(fn) \in FrameSet /\ Frame(fn).got = <<>> /\ Frame(fn).name = fn
  BY DEF Frame, FrameSet, Callables
<1>2. Len(Deps[fn]) \in Nat
  BY ScopeAssumption DEF Callables
<1> QED
  BY <1>1, <1>2 DEF Stacked

LEMMA Nothing ==
    ASSUME NEW u, NEW all, NEW cached
    PROVE  Stacked(<<>>, u, all) /\ Undoing(<<>>, u, all, cached)
<1>1. Stacked(<<>>, u, all)
  BY DEF Stacked
<1>2. Undoing(<<>>, u, all, cached)
  BY DEF Undoing
<1> QED
  BY <1>1, <1>2

LEMMA StaysStacked ==
    ASSUME NEW u, NEW all, NEW all2, NEW stack, Stacked(stack, u, all),
           \A i \in Nat : Holdable(i, u, all) => Holdable(i, u, all2)
    PROVE  Stacked(stack, u, all2)
<1>1. stack \in Seq(FrameSet)
  BY DEF Stacked
<1>2. ASSUME NEW k \in 1 .. Len(stack), NEW i \in 1 .. Len(stack[k].got)
      PROVE  Holdable(stack[k].got[i], u, all2)
  <2>1. stack[k] \in FrameSet
    BY <1>1
  <2>2. stack[k].got[i] \in Nat
    BY <2>1 DEF FrameSet
  <2> QED
    BY <1>1, <1>2, <2>2 DEF Stacked
<1> QED
  BY <1>1, <1>2 DEF Stacked

(***************************************************************************)
(* Instances: a new one, and one that is finished or aborted.              *)
(***************************************************************************)

LEMMA Appended ==
    ASSUME NEW all, Numbered(all), NEW x \in Instances, x.from \subseteq 1 .. Len(all)
    PROVE  /\ Numbered(Append(all, x))
           /\ Len(Append(all, x)) = Len(all) + 1 /\ Len(all) \in Nat
           /\ \A i \in 1 .. Len(all) : /\ Append(all, x)[i] = all[i]
                                       /\ i # Len(all) + 1
                                       /\ i \in 1 .. Len(Append(all, x))
           /\ Len(all) + 1 \in 1 .. Len(Append(all, x))
           /\ Append(all, x)[Len(all) + 1] = x
           /\ \A i \in 1 .. Len(Append(all, x)) : i \in 1 .. Len(all) \/ i = Len(all) + 1
<1>1. /\ all \in Seq(Instances) /\ Append(all, x) \in Seq(Instances)
      /\ Len(Append(all, x)) = Len(all) + 1 /\ Len(all) \in Nat
      /\ \A i \in 1 .. Len(all) : Append(all, x)[i] = all[i]
      /\ Append(all, x)[Len(all) + 1] = x
  BY DEF Numbered
<1>2. \A i \in 1 .. Len(all) + 1 : i \in 1 .. Len(all) \/ i = Len(all) + 1
  BY <1>1
<1>3. \A i \in 1 .. Len(all) + 1 : Append(all, x)[i].from \subseteq 1 .. i - 1
  BY <1>1, <1>2 DEF Numbered
<1>4. \A i \in 1 .. Len(all) : i # Len(all) + 1 /\ i \in 1 .. Len(all) + 1
  BY <1>1
<1>5. Len(all) + 1 \in 1 .. Len(all) + 1
  BY <1>1
<1> QED
  BY <1>1, <1>2, <1>3, <1>4, <1>5 DEF Numbered

\* The instances, with i in another phase.
Rephased(all, i, p) == [all EXCEPT ![i].phase = p]

\* Nothing else has changed.
PhaseOnly(all, new, i, p) ==
    /\ Numbered(new) /\ Len(new) = Len(all)
    /\ \A j \in 1 .. Len(all) :
          /\ new[j].name = all[j].name /\ new[j].by = all[j].by
          /\ new[j].from = all[j].from
          /\ new[j].phase = IF j = i THEN p ELSE all[j].phase

LEMMA Phased ==
    ASSUME NEW all, Numbered(all), NEW i \in 1 .. Len(all), NEW p \in Phases
    PROVE  PhaseOnly(all, Rephased(all, i, p), i, p)
<1> DEFINE new == Rephased(all, i, p)
<1>1. all \in Seq(Instances) /\ Len(all) \in Nat /\ all[i] \in Instances
  BY DEF Numbered
<1>2. ASSUME NEW x \in Instances
      PROVE  /\ [x EXCEPT !.phase = p] \in Instances
             /\ [x EXCEPT !.phase = p].name = x.name /\ [x EXCEPT !.phase = p].by = x.by
             /\ [x EXCEPT !.phase = p].from = x.from /\ [x EXCEPT !.phase = p].phase = p
  BY DEF Instances
<1>3. new = [all EXCEPT ![i] = [all[i] EXCEPT !.phase = p]]
  BY DEF Rephased
<1>4. /\ new \in Seq(Instances) /\ Len(new) = Len(all)
      /\ \A j \in 1 .. Len(all) : new[j] = IF j = i THEN [all[i] EXCEPT !.phase = p] ELSE all[j]
  BY <1>1, <1>2, <1>3, ExceptSeq
<1>5. \A j \in 1 .. Len(all) :
          /\ new[j].name = all[j].name /\ new[j].by = all[j].by
          /\ new[j].from = all[j].from
          /\ new[j].phase = IF j = i THEN p ELSE all[j].phase
  BY <1>1, <1>2, <1>4, ZenonT(60)
<1>6. Numbered(new)
  BY <1>4, <1>5 DEF Numbered
<1> HIDE DEF new
<1>7. PhaseOnly(all, new, i, p)
  BY <1>4, <1>5, <1>6 DEF PhaseOnly
<1> QED
  BY <1>7 DEF new

\* Journals and what is being undone do not depend on phases.
LEMMA SameInstances ==
    ASSUME NEW all, NEW new, Len(new) = Len(all), NEW u,
           \A j \in 1 .. Len(all) : /\ new[j].name = all[j].name /\ new[j].by = all[j].by
                                    /\ new[j].from = all[j].from
    PROVE  /\ \A entry, stack : Journaled(entry, stack, u, all) => Journaled(entry, stack, u, new)
           /\ \A ids, cached : (/\ \A n \in DOMAIN cached : cached[n] \in 1 .. Len(all)
                                /\ Undoing(ids, u, all, cached)) => Undoing(ids, u, new, cached)
<1>1. ASSUME NEW entry, NEW stack, Journaled(entry, stack, u, all)
      PROVE  Journaled(entry, stack, u, new)
  BY <1>1 DEF Journaled
<1>2. ASSUME NEW ids, NEW cached, \A n \in DOMAIN cached : cached[n] \in 1 .. Len(all),
             Undoing(ids, u, all, cached)
      PROVE  Undoing(ids, u, new, cached)
  BY <1>2 DEF Undoing
<1> QED
  BY <1>1, <1>2

(***************************************************************************)
(* The cleanups owed.                                                      *)
(***************************************************************************)

LEMMA OwesOneMore ==
    ASSUME NEW all, Numbered(all), NEW owed, Owed(owed, all), NEW x \in Instances,
           x.from \subseteq 1 .. Len(all)
    PROVE  /\ x.phase = "open" => Owed(owed \o <<Len(all) + 1>>, Append(all, x))
           /\ x.phase # "open" => Owed(owed \o <<>>, Append(all, x))
<1> DEFINE id == Len(all) + 1
           new == Append(all, x)
<1>1. /\ Len(new) = id /\ id \in Nat /\ new[id] = x
      /\ \A i \in 1 .. Len(all) : new[i] = all[i] /\ i \in 1 .. Len(new) /\ i < id
      /\ \A i \in 1 .. Len(new) : i \in 1 .. Len(all) \/ i = id
  BY Appended
<1>2. owed \in Seq(Nat) /\ Len(owed) \in Nat /\ owed \o <<>> = owed
  BY DEF Owed
<1> HIDE DEF id, new
<1>3. ASSUME x.phase # "open"
      PROVE  Owed(owed, new)
  BY <1>1, <1>3 DEF Owed
<1>4. ASSUME x.phase = "open"
      PROVE  Owed(owed \o <<id>>, new)
  <2> DEFINE more == owed \o <<id>>
  <2>1. /\ more \in Seq(Nat) /\ Len(more) = Len(owed) + 1
        /\ more[Len(owed) + 1] = id
        /\ \A i \in 1 .. Len(owed) : more[i] = owed[i]
    BY <1>1, <1>2
  <2>2. \A i \in 1 .. Len(more) : i \in 1 .. Len(owed) \/ i = Len(owed) + 1
    BY <1>2, <2>1
  <2>3. \A i \in 1 .. Len(owed) : i \in 1 .. Len(more) /\ owed[i] \in 1 .. Len(all) /\ owed[i] < id
    BY <1>1, <1>2, <2>1 DEF Owed
  <2>4. Len(owed) + 1 \in 1 .. Len(more)
    BY <1>2, <2>1
  <2> HIDE DEF more
  <2>5. \A i, j \in 1 .. Len(more) : i < j => more[i] < more[j]
    <3> TAKE i, j \in 1 .. Len(more)
    <3> HAVE i < j
    <3>1. i \in 1 .. Len(owed)
      BY <1>2, <2>1
    <3> QED
      BY <2>1, <2>2, <2>3, <3>1 DEF Owed
  <2>6. \A i \in 1 .. Len(more) : more[i] \in 1 .. Len(new) /\ new[more[i]].phase = "open"
    <3> TAKE i \in 1 .. Len(more)
    <3>1. CASE i \in 1 .. Len(owed)
      <4>1. more[i] = owed[i] /\ owed[i] \in 1 .. Len(all) /\ all[owed[i]].phase = "open"
        BY <2>1, <3>1 DEF Owed
      <4> QED
        BY <1>1, <4>1
    <3>2. CASE i = Len(owed) + 1
      <4>1. id \in 1 .. Len(new)
        BY Appended DEF id, new
      <4> QED
        BY <1>1, <1>4, <2>1, <3>2, <4>1
    <3> QED
      BY <2>2, <3>1, <3>2
  <2>7. \A c \in 1 .. Len(new) : new[c].phase = "open" => \E i \in 1 .. Len(more) : more[i] = c
    BY <1>1, <2>1, <2>3, <2>4 DEF Owed
  <2> QED
    BY <2>1, <2>5, <2>6, <2>7 DEF Owed, more
<1> QED
  BY <1>2, <1>3, <1>4 DEF id, new

\* The last of the cleanups is that of the youngest instance.
LEMMA OwesOneLess ==
    ASSUME NEW all, Numbered(all), NEW owed, Owed(owed, all),
           NEW i \in 1 .. Len(owed), NEW p \in Phases \ {"open"}
    PROVE  Owed(RemoveAt(owed, i), Rephased(all, owed[i], p))
<1> DEFINE n == Len(owed)
           less == RemoveAt(owed, i)
           new == Rephased(all, owed[i], p)
<1>1. owed \in Seq(Nat) /\ n \in Nat /\ owed[i] \in 1 .. Len(all)
  BY DEF Owed
<1>2. /\ Len(new) = Len(all)
      /\ \A j \in 1 .. Len(all) : new[j].phase = IF j = owed[i] THEN p ELSE all[j].phase
  <2>1. p \in Phases
    OBVIOUS
  <2>2. PhaseOnly(all, new, owed[i], p)
    BY <1>1, <2>1, Phased
  <2> QED
    BY <2>2 DEF PhaseOnly
<1>3. /\ SubSeq(owed, 1, i - 1) \in Seq(Nat) /\ Len(SubSeq(owed, 1, i - 1)) = i - 1
      /\ \A j \in 1 .. i - 1 : SubSeq(owed, 1, i - 1)[j] = owed[j]
  <2>1. i - 1 \in Int /\ (\A j \in 1 .. i - 1 : owed[j] \in Nat)
    BY <1>1
  <2>2. /\ SubSeq(owed, 1, i - 1) \in Seq(Nat)
        /\ Len(SubSeq(owed, 1, i - 1)) = IF 1 <= i - 1 THEN i - 1 - 1 + 1 ELSE 0
        /\ \A j \in 1 .. i - 1 - 1 + 1 : SubSeq(owed, 1, i - 1)[j] = owed[1 + j - 1]
    BY <2>1, SubSeqProperties
  <2>3. i - 1 \in Nat /\ (i - 1 - 1 + 1 = i - 1) /\ \A j \in 1 .. i - 1 : 1 + j - 1 = j
    BY <1>1
  <2> QED
    BY <2>2, <2>3
<1>4. /\ SubSeq(owed, i + 1, n) \in Seq(Nat) /\ Len(SubSeq(owed, i + 1, n)) = n - i
      /\ \A j \in 1 .. n - i : SubSeq(owed, i + 1, n)[j] = owed[i + j]
  <2>1. i + 1 \in Int /\ n \in Int /\ (\A j \in i + 1 .. n : owed[j] \in Nat)
    BY <1>1
  <2>2. /\ SubSeq(owed, i + 1, n) \in Seq(Nat)
        /\ Len(SubSeq(owed, i + 1, n)) = IF i + 1 <= n THEN n - (i + 1) + 1 ELSE 0
        /\ \A j \in 1 .. n - (i + 1) + 1 : SubSeq(owed, i + 1, n)[j] = owed[i + 1 + j - 1]
    BY <2>1, SubSeqProperties
  <2>3. n - i \in Nat /\ (n - (i + 1) + 1 = n - i) /\ \A j \in 1 .. n - i : i + 1 + j - 1 = i + j
    BY <1>1
  <2>4. (IF i + 1 <= n THEN n - i ELSE 0) = n - i
    BY <1>1
  <2> QED
    BY <2>2, <2>3, <2>4
<1>5. /\ less \in Seq(Nat) /\ Len(less) = n - 1
      /\ \A j \in 1 .. n - 1 : less[j] = IF j < i THEN owed[j] ELSE owed[j + 1]
  <2>1. less = SubSeq(owed, 1, i - 1) \o SubSeq(owed, i + 1, n)
    BY DEF RemoveAt
  <2>2. /\ less \in Seq(Nat) /\ Len(less) = (i - 1) + (n - i)
        /\ \A j \in 1 .. (i - 1) + (n - i) :
              less[j] = IF j <= i - 1 THEN SubSeq(owed, 1, i - 1)[j]
                                      ELSE SubSeq(owed, i + 1, n)[j - (i - 1)]
    <3> DEFINE a == SubSeq(owed, 1, i - 1)
               b == SubSeq(owed, i + 1, n)
    <3>1. a \in Seq(Nat) /\ b \in Seq(Nat) /\ Len(a) = i - 1 /\ Len(b) = n - i
      BY <1>3, <1>4
    <3>2. /\ a \o b \in Seq(Nat) /\ Len(a \o b) = Len(a) + Len(b)
          /\ \A j \in 1 .. Len(a) + Len(b) :
                (a \o b)[j] = IF j <= Len(a) THEN a[j] ELSE b[j - Len(a)]
      BY <3>1, ConcatProperties
    <3> HIDE DEF a, b
    <3> QED
      BY <2>1, <3>1, <3>2 DEF a, b
  <2> HIDE DEF less
  <2>3. ASSUME NEW j \in 1 .. n - 1
        PROVE  less[j] = IF j < i THEN owed[j] ELSE owed[j + 1]
    <3>1. CASE j < i
      <4>1. j \in 1 .. i - 1 /\ j <= i - 1 /\ j \in 1 .. (i - 1) + (n - i)
        BY <1>1, <3>1
      <4> QED
        BY <1>3, <2>2, <3>1, <4>1
    <3>2. CASE ~(j < i)
      <4>1. /\ j - (i - 1) \in 1 .. n - i /\ i + (j - (i - 1)) = j + 1 /\ ~(j <= i - 1)
            /\ j \in 1 .. (i - 1) + (n - i)
        BY <1>1, <3>2
      <4> QED
        BY <1>4, <2>2, <3>2, <4>1
    <3> QED
      BY <3>1, <3>2
  <2> QED
    BY <1>1, <2>2, <2>3
<1> HIDE DEF less, new, n
<1>6. /\ \A j, k \in 1 .. n : j < k => owed[j] < owed[k]
      /\ \A j \in 1 .. n : owed[j] \in 1 .. Len(all) /\ all[owed[j]].phase = "open"
  BY DEF Owed, n
<1>7. \A j \in 1 .. n - 1 : j \in 1 .. n /\ j + 1 \in 1 .. n /\ owed[j] \in Nat /\ owed[j + 1] \in Nat
  BY <1>1 DEF n
<1>8. \A j, k \in 1 .. n - 1 : j < k => less[j] < less[k]
  <2> TAKE j, k \in 1 .. n - 1
  <2> HAVE j < k
  <2>1. i \in Nat /\ j \in Nat /\ k \in Nat
    BY <1>1 DEF n
  <2>2. CASE k < i
    <3>1. j < i
      BY <2>1, <2>2
    <3> QED
      BY <1>5, <1>6, <1>7, <2>2, <3>1
  <2>3. CASE ~(k < i) /\ j < i
    <3>1. j < k + 1
      BY <2>1
    <3> QED
      BY <1>5, <1>6, <1>7, <2>3, <3>1
  <2>4. CASE ~(k < i) /\ ~(j < i)
    <3>1. j + 1 < k + 1
      BY <2>1
    <3> QED
      BY <1>5, <1>6, <1>7, <2>4, <3>1
  <2> QED
    BY <2>2, <2>3, <2>4, <2>1
<1>9. \A j \in 1 .. n : j # i => owed[j] # owed[i]
  <2> TAKE j \in 1 .. n
  <2>1. i \in 1 .. n /\ owed[i] \in Nat /\ owed[j] \in Nat
    BY <1>1 DEF n
  <2>2. j # i => j < i \/ i < j
    BY <1>1, <2>1
  <2> QED
    BY <1>6, <2>1, <2>2
<1>10. \A j \in 1 .. n - 1 : less[j] \in 1 .. Len(new) /\ new[less[j]].phase = "open"
  <2> TAKE j \in 1 .. n - 1
  <2>1. PICK k \in 1 .. n : k # i /\ less[j] = owed[k]
    <3>1. CASE j < i
      BY <1>5, <1>7, <3>1
    <3>2. CASE ~(j < i)
      <4>1. j + 1 # i
        BY <1>1, <3>2 DEF n
      <4> QED
        BY <1>5, <1>7, <3>2, <4>1
    <3> QED
      BY <3>1, <3>2
  <2> QED
    BY <1>2, <1>6, <1>9, <2>1
<1>11. \A c \in 1 .. Len(new) : new[c].phase = "open" => \E j \in 1 .. n - 1 : less[j] = c
  <2> TAKE c \in 1 .. Len(new)
  <2> HAVE new[c].phase = "open"
  <2>1. c # owed[i] /\ all[c].phase = "open" /\ c \in 1 .. Len(all)
    BY <1>2
  <2>2. PICK k \in 1 .. n : owed[k] = c
    BY <2>1 DEF Owed, n
  <2>3. CASE k < i
    <3>1. k \in 1 .. n - 1
      BY <1>1, <2>3 DEF n
    <3> QED
      BY <1>5, <2>2, <2>3, <3>1
  <2>4. CASE i < k
    <3>1. k - 1 \in 1 .. n - 1 /\ ~(k - 1 < i) /\ k - 1 + 1 = k
      BY <1>1, <2>4 DEF n
    <3> QED
      BY <1>5, <2>2, <3>1
  <2> QED
    BY <1>1, <2>1, <2>2, <2>3, <2>4 DEF n
<1> QED
  BY <1>5, <1>8, <1>10, <1>11 DEF Owed, n, new, less

(***************************************************************************)
(* The steps: resolving, calling and returning.                            *)
(***************************************************************************)

\* What concerns u alone: its stack, and its journal.
LEMMA StackStep ==
    ASSUME SInv, NEW u \in Users,
           frames' = [frames EXCEPT ![u] = frames'[u]],
           journal' = [journal EXCEPT ![u] = journal'[u]],
           principal' \in BOOLEAN,
           UNCHANGED <<holders, closed, cache, cleanups, made, undoing>>,
           Stacked(frames'[u], u, made),
           Journaled(journal'[u], frames'[u], u, made),
           frames'[u] # <<>> => undoing[u] = <<>>
    PROVE  SInv'
<1>1. Shape'
  BY DEF SInv, Shape
<1>2. \A v \in Users : v # u => frames'[v] = frames[v] /\ journal'[v] = journal[v]
  BY DEF SInv, Shape
<1>3. \A v \in Users : /\ Stacked(frames'[v], v, made)
                       /\ Journaled(journal'[v], frames'[v], v, made)
                       /\ Undoing(undoing[v], v, made, cache)
                       /\ frames'[v] # <<>> => undoing[v] = <<>>
  BY <1>2 DEF SInv
<1> QED
  BY <1>1, <1>3 DEF SInv

LEMMA JoinKeeps ==
    ASSUME SInv, NEW u \in Users, Join(u)
    PROVE  SInv'
BY DEF Join, SInv, Shape

\* Journals and stacks: no resolver, no journal; and a stack that grows keeps its.
LEMMA JournalGoesOn ==
    ASSUME NEW entry, NEW u, NEW all, NEW stack, NEW more,
           Journaled(entry, stack, u, all), Len(stack) \in Nat, Len(more) \in Nat,
           \A k \in 1 .. Len(stack) : stack[k].name = Principal =>
                \E j \in 1 .. Len(more) : more[j].name = Principal
    PROVE  Journaled(entry, more, u, all)
BY DEF Journaled

LEMMA NothingJournaled ==
    ASSUME NEW u, NEW all, NEW stack
    PROVE  Journaled(NoJournal, stack, u, all)
BY DEF Journaled, NoJournal

LEMMA CallKeeps ==
    ASSUME SInv, NEW u \in Users, NEW fn \in Functions \cup {Principal}, Call(u, fn)
    PROVE  SInv'
<1>1. /\ frames[u] = <<>> /\ undoing[u] = <<>> /\ frames'[u] = <<Frame(fn)>>
      /\ frames' = [frames EXCEPT ![u] = frames'[u]]
      /\ journal' = [journal EXCEPT ![u] = journal'[u]] /\ journal'[u] = journal[u]
      /\ UNCHANGED <<holders, closed, cache, principal, cleanups, made, undoing>>
  BY DEF Call, SInv, Shape
<1>2. Stacked(frames'[u], u, made)
  BY <1>1, Started
<1>3. Journaled(journal'[u], frames'[u], u, made)
  <2>1. Journaled(journal[u], <<>>, u, made)
    BY <1>1 DEF SInv
  <2>2. journal[u] = NoJournal
    BY <2>1 DEF Journaled
  <2> QED
    BY <1>1, <2>2, NothingJournaled
<1>4. principal' \in BOOLEAN
  BY <1>1 DEF SInv, Shape
<1> QED
  BY <1>1, <1>2, <1>3, <1>4, StackStep

LEMMA StackFacts ==
    ASSUME SInv, NEW u \in Users
    PROVE  /\ frames[u] \in Seq(FrameSet) /\ Len(frames[u]) \in Nat
           /\ Stacked(frames[u], u, made)
           /\ Journaled(journal[u], frames[u], u, made)
           /\ frames[u] # <<>> => undoing[u] = <<>>
           /\ frames[u] # <<>> => /\ Top(frames[u]) \in FrameSet
                                  /\ Len(frames[u]) \in 1 .. Len(frames[u])
                                  /\ Top(frames[u]) = frames[u][Len(frames[u])]
<1>1. /\ Stacked(frames[u], u, made) /\ Journaled(journal[u], frames[u], u, made)
      /\ frames[u] # <<>> => undoing[u] = <<>>
  BY DEF SInv
<1>2. frames[u] \in Seq(FrameSet) /\ Len(frames[u]) \in Nat
  BY <1>1 DEF Stacked
<1>3. frames[u] # <<>> => Len(frames[u]) \in 1 .. Len(frames[u])
  BY <1>2
<1> QED
  BY <1>1, <1>2, <1>3, StackedAt DEF Top, Last

\* What a frame still needs is a provider, or the principal.
LEMMA WantedFacts ==
    ASSUME SInv, NEW u \in Users, ~Awaits(u)
    PROVE  /\ frames[u] # <<>> /\ ~Full(Top(frames[u]))
           /\ Wanted(frames[u]) \in Names \cup {Principal}
<1>1. frames[u] # <<>> /\ ~Full(Top(frames[u]))
  BY DEF Awaits
<1> DEFINE top == Top(frames[u])
<1>2. top \in FrameSet /\ Len(top.got) <= Len(Deps[top.name])
  BY <1>1, StackFacts, StackedAt
<1>3. Len(top.got) \in Nat /\ Len(Deps[top.name]) \in Nat /\ top.name \in Callables
  BY <1>2, FrameFacts
<1>4. Len(top.got) + 1 \in 1 .. Len(Deps[top.name])
  BY <1>1, <1>2, <1>3 DEF Full
<1>5. Deps[top.name] \in Seq(Names \cup {Principal})
  BY <1>3, ScopeAssumption
<1> QED
  BY <1>1, <1>4, <1>5, ElementOfSeq DEF Wanted

LEMMA TakesKeeps ==
    ASSUME SInv, Free, NEW u \in Users, Takes(u)
    PROVE  SInv'
<1>1. /\ frames[u] # <<>> /\ ~Full(Top(frames[u])) /\ Stacked(frames[u], u, made)
      /\ frames[u] # <<>> => undoing[u] = <<>>
  BY WantedFacts, StackFacts DEF Takes
<1>2. PICK id \in Nat : /\ Holdable(id, u, made)
                        /\ frames' = [frames EXCEPT ![u] = Hand(frames[u], id)]
  <2>1. CASE frames' = [frames EXCEPT ![u] = Hand(@, Known)]
    BY <2>1 DEF Holdable, Known
  <2>2. ASSUME NEW name \in DOMAIN cache, frames' = [frames EXCEPT ![u] = Hand(@, cache[name])]
        PROVE  \E id \in Nat : /\ Holdable(id, u, made)
                               /\ frames' = [frames EXCEPT ![u] = Hand(frames[u], id)]
    <3>1. ~closed
      BY <1>1 DEF Free
    <3>2. cache[name] \in 1 .. Len(made) /\ made[cache[name]].phase \in {"open", "plain"}
      BY <3>1 DEF SInv, Cached
    <3> QED
      <4>1. cache[name] \in Nat /\ Holdable(cache[name], u, made)
        BY <3>2 DEF Holdable
      <4> QED
        BY <2>2, <4>1
  <2> QED
    BY <2>1, <2>2 DEF Takes
<1>3. /\ frames'[u] = Hand(frames[u], id) /\ frames' = [frames EXCEPT ![u] = frames'[u]]
      /\ journal' = [journal EXCEPT ![u] = journal'[u]] /\ journal'[u] = journal[u]
      /\ UNCHANGED <<holders, closed, cache, principal, cleanups, made, undoing>>
      /\ principal' \in BOOLEAN
  BY <1>2 DEF Takes, SInv, Shape
<1>4. /\ Stacked(frames'[u], u, made) /\ Len(frames'[u]) = Len(frames[u])
      /\ \A k \in 1 .. Len(frames[u]) : frames'[u][k].name = frames[u][k].name
  BY <1>1, <1>2, <1>3, Handed
<1>5. Journaled(journal'[u], frames'[u], u, made)
  BY <1>3, <1>4, StackFacts, JournalGoesOn
<1> QED
  BY <1>1, <1>3, <1>4, <1>5, StackStep

LEMMA AsksKeeps ==
    ASSUME SInv, NEW u \in Users, Asks(u)
    PROVE  SInv'
<1> DEFINE name == Wanted(frames[u])
<1>1. /\ frames[u] # <<>> /\ ~Full(Top(frames[u])) /\ Stacked(frames[u], u, made)
      /\ frames[u] # <<>> => undoing[u] = <<>>
      /\ name \in Names \cup {Principal}
  BY WantedFacts, StackFacts DEF Asks
<1>2. /\ frames'[u] = Append(frames[u], Frame(name))
      /\ frames' = [frames EXCEPT ![u] = frames'[u]]
      /\ journal' = [journal EXCEPT ![u] = journal'[u]] /\ journal'[u] = journal[u]
      /\ UNCHANGED <<holders, closed, cache, principal, cleanups, made, undoing>>
      /\ principal' \in BOOLEAN
  BY DEF Asks, SInv, Shape
<1> HIDE DEF name
<1>3. /\ Stacked(frames'[u], u, made)
      /\ \A k \in 1 .. Len(frames[u]) : /\ k \in 1 .. Len(frames'[u])
                                        /\ frames'[u][k].name = frames[u][k].name
  BY <1>1, <1>2, Pushed
<1>4. Len(frames'[u]) \in Nat
  BY <1>3 DEF Stacked
<1>5. Journaled(journal'[u], frames'[u], u, made)
  <2>1. /\ Journaled(journal[u], frames[u], u, made) /\ Len(frames[u]) \in Nat
        /\ \A k \in 1 .. Len(frames[u]) : frames[u][k].name = Principal =>
              \E j \in 1 .. Len(frames'[u]) : frames'[u][j].name = Principal
    BY <1>3, StackFacts
  <2> QED
    BY <1>2, <1>4, <2>1, JournalGoesOn
<1> QED
  BY <1>1, <1>2, <1>3, <1>5, StackStep

LEMMA FunctionReturnsKeeps ==
    ASSUME SInv, NEW u \in Users, NEW fn, FunctionReturns(u, fn)
    PROVE  SInv'
<1>1. /\ frames'[u] = <<>> /\ frames' = [frames EXCEPT ![u] = frames'[u]]
      /\ journal' = [journal EXCEPT ![u] = journal'[u]] /\ journal'[u] = journal[u]
      /\ UNCHANGED <<holders, closed, cache, principal, cleanups, made, undoing>>
      /\ principal' \in BOOLEAN
  BY DEF FunctionReturns, SInv, Shape
<1>2. Stacked(frames'[u], u, made)
  BY <1>1, Nothing
<1>3. journal[u] = NoJournal
  <2>1. Len(frames[u]) = 1 /\ frames[u][1].name # Principal
    BY ScopeAssumption DEF FunctionReturns, Runs, Top, Last
  <2> QED
    BY <2>1, StackFacts DEF Journaled
<1> QED
  BY <1>1, <1>2, <1>3, NothingJournaled, StackStep

LEMMA ResolverReturnsKeeps ==
    ASSUME SInv, NEW u \in Users, ResolverReturns(u)
    PROVE  SInv'
<1> DEFINE below == Front(frames[u])
<1>1. /\ frames[u] # <<>> /\ Stacked(frames[u], u, made) /\ undoing[u] = <<>>
  BY StackFacts DEF ResolverReturns
<1>2. /\ frames'[u] = IF below = <<>> THEN <<>> ELSE Hand(below, Known)
      /\ frames' = [frames EXCEPT ![u] = frames'[u]]
      /\ journal' = [journal EXCEPT ![u] = journal'[u]] /\ journal'[u] = NoJournal
      /\ UNCHANGED <<holders, closed, cache, cleanups, made, undoing>>
      /\ principal' \in BOOLEAN
  BY DEF ResolverReturns, SInv, Shape
<1>3. Stacked(below, u, made) /\ (below # <<>> => ~Full(Top(below)))
  BY <1>1, Popped
<1> HIDE DEF below
<1>4. Known \in Nat /\ Holdable(Known, u, made)
  BY DEF Known, Holdable
<1>5. Stacked(frames'[u], u, made)
  BY <1>2, <1>3, <1>4, Handed
<1> QED
  BY <1>1, <1>2, <1>5, NothingJournaled, StackStep

(***************************************************************************)
(* The steps: a provider comes up.                                         *)
(***************************************************************************)

\* An instance that somebody else makes is nothing to a journal.
LEMMA OthersJournal ==
    ASSUME NEW all, Numbered(all), NEW x \in Instances, x.from \subseteq 1 .. Len(all),
           NEW v, x.by # v, NEW entry, NEW stack, Journaled(entry, stack, v, all)
    PROVE  Journaled(entry, stack, v, Append(all, x))
<1> DEFINE new == Append(all, x)
<1>1. /\ \A i \in 1 .. Len(all) : new[i] = all[i] /\ i \in 1 .. Len(new)
      /\ \A i \in 1 .. Len(new) : i \in 1 .. Len(all) \/ new[i] = x
  BY Appended
<1> HIDE DEF new
<1> QED
  BY <1>1 DEF Journaled, new

\* The journal of who makes it gets its name, and its cleanup if it has one.
LEMMA OwnJournal ==
    ASSUME NEW all, Numbered(all), NEW x \in Instances, x.from \subseteq 1 .. Len(all),
           NEW entry, NEW stack, Journaled(entry, stack, x.by, all),
           NEW more, \E k \in 1 .. Len(more) : more[k].name = Principal,
           NEW added \in {<<>>, <<Len(all) + 1>>}
    PROVE  Journaled([names |-> entry.names \cup {x.name}, teardowns |-> entry.teardowns \o added],
                     more, x.by, Append(all, x))
<1> DEFINE id == Len(all) + 1
           new == Append(all, x)
           names == entry.names \cup {x.name}
           teardowns == entry.teardowns \o added
<1>1. /\ \A i \in 1 .. Len(all) : new[i] = all[i] /\ i \in 1 .. Len(new) /\ i < id
      /\ \A i \in 1 .. Len(new) : i \in 1 .. Len(all) \/ i = id
      /\ new[id] = x /\ id \in 1 .. Len(new) /\ id \in Nat /\ Len(all) \in Nat /\ Len(new) = id
      /\ Numbered(new)
  BY Appended
<1>2. /\ entry.teardowns \in Seq(Nat) /\ Len(entry.teardowns) \in Nat
      /\ \A k \in 1 .. Len(entry.teardowns) :
            /\ entry.teardowns[k] \in 1 .. Len(all)
            /\ all[entry.teardowns[k]].by = x.by
            /\ all[entry.teardowns[k]].name \in entry.names
            /\ \A c \in 1 .. Len(all) :
                  (all[c].by = x.by /\ entry.teardowns[k] \in all[c].from) =>
                      all[c].name \in entry.names
  BY DEF Journaled
<1>3. /\ teardowns \in Seq(Nat)
      /\ \A k \in 1 .. Len(teardowns) : \/ teardowns[k] = id
                                        \/ \E j \in 1 .. Len(entry.teardowns) :
                                              teardowns[k] = entry.teardowns[j]
  <2>1. CASE added = <<>>
    <3>1. teardowns = entry.teardowns
      BY <1>2, <2>1
    <3> HIDE DEF teardowns, id
    <3>2. \A k \in 1 .. Len(teardowns) :
             \E j \in 1 .. Len(entry.teardowns) : teardowns[k] = entry.teardowns[j]
      BY <3>1, Zenon
    <3> QED
      BY <1>2, <3>1, <3>2
  <2>2. CASE added = <<id>>
    <3>1. added \in Seq(Nat) /\ Len(added) = 1 /\ added[1] = id
      BY <1>1, <2>2
    <3>2. /\ teardowns \in Seq(Nat) /\ Len(teardowns) = Len(entry.teardowns) + 1
          /\ \A k \in 1 .. Len(entry.teardowns) : teardowns[k] = entry.teardowns[k]
          /\ teardowns[Len(entry.teardowns) + 1] = id
      <4> DEFINE old == entry.teardowns
      <4>1. old \in Seq(Nat) /\ Len(old) \in Nat /\ teardowns = old \o added
        BY <1>2
      <4> HIDE DEF old, teardowns, id
      <4>2. /\ old \o added \in Seq(Nat) /\ Len(old \o added) = Len(old) + Len(added)
            /\ \A i \in 1 .. Len(old) + Len(added) :
                  (old \o added)[i] = IF i <= Len(old) THEN old[i] ELSE added[i - Len(old)]
        BY <3>1, <4>1, ConcatProperties
      <4>3. /\ \A k \in 1 .. Len(old) : k \in 1 .. Len(old) + 1 /\ k <= Len(old)
            /\ Len(old) + 1 \in 1 .. Len(old) + 1 /\ ~(Len(old) + 1 <= Len(old))
            /\ Len(old) + 1 - Len(old) = 1
        BY <4>1
      <4> QED
        BY <3>1, <4>1, <4>2, <4>3 DEF old
    <3>3. \A k \in 1 .. Len(entry.teardowns) + 1 :
             k \in 1 .. Len(entry.teardowns) \/ k = Len(entry.teardowns) + 1
      BY <1>2
    <3> HIDE DEF teardowns
    <3> QED
      BY <3>2, <3>3
  <2> QED
    BY <2>1, <2>2
<1> HIDE DEF new, id, teardowns
\* Nothing is built on the new one yet.
<1>4. \A c \in 1 .. Len(new) : id \notin new[c].from
  <2> TAKE c \in 1 .. Len(new)
  <2>1. new[c].from \subseteq 1 .. c - 1
    BY <1>1 DEF Numbered
  <2> QED
    BY <1>1, <2>1
<1>5. ASSUME NEW k \in 1 .. Len(teardowns)
      PROVE  /\ teardowns[k] \in 1 .. Len(new)
             /\ new[teardowns[k]].by = x.by
             /\ new[teardowns[k]].name \in names
             /\ \A c \in 1 .. Len(new) :
                   (new[c].by = x.by /\ teardowns[k] \in new[c].from) => new[c].name \in names
  <2>1. CASE teardowns[k] = id
    BY <1>1, <1>4, <2>1
  <2>2. ASSUME NEW j \in 1 .. Len(entry.teardowns), teardowns[k] = entry.teardowns[j]
        PROVE  /\ teardowns[k] \in 1 .. Len(new)
               /\ new[teardowns[k]].by = x.by
               /\ new[teardowns[k]].name \in names
               /\ \A c \in 1 .. Len(new) :
                     (new[c].by = x.by /\ teardowns[k] \in new[c].from) => new[c].name \in names
    <3>1. /\ teardowns[k] \in 1 .. Len(all)
          /\ all[teardowns[k]].by = x.by
          /\ all[teardowns[k]].name \in entry.names
          /\ \A c \in 1 .. Len(all) :
                (all[c].by = x.by /\ teardowns[k] \in all[c].from) => all[c].name \in entry.names
      BY <1>2, <2>2
    <3> QED
      BY <1>1, <3>1
  <2> QED
    BY <1>3, <2>1, <2>2
<1> QED
  BY <1>3, <1>5 DEF Journaled, new, id, teardowns

LEMMA ProviderReturnsKeeps ==
    ASSUME SInv, Free, NEW u \in Users, ProviderReturns(u)
    PROVE  SInv'
<1> DEFINE stack == frames[u]
           n == Len(stack)
           top == Top(stack)
           id == Len(made) + 1
           owed == IF top.name \in Generators THEN <<id>> ELSE <<>>
           x == [name |-> top.name, by |-> u, from |-> ToSet(top.got) \ {Known},
                 phase |-> IF owed # <<>> THEN "open" ELSE "plain"]
           entry == [names |-> journal[u].names \cup {top.name},
                     teardowns |-> journal[u].teardowns \o owed]
<1>1. /\ stack # <<>> /\ Full(top) /\ top.name \in Names
      /\ made' = Append(made, x)
      /\ cleanups' = cleanups \o owed
      /\ cache' = [m \in DOMAIN cache \cup {top.name} |-> IF m = top.name THEN id ELSE cache[m]]
      /\ journal' = IF Journaling(u) THEN [journal EXCEPT ![u] = entry] ELSE journal
      /\ frames' = [frames EXCEPT ![u] = Hand(Front(stack), id)]
      /\ UNCHANGED <<holders, closed, principal, undoing>>
  BY DEF ProviderReturns
<1>2. /\ stack \in Seq(FrameSet) /\ n \in Nat \ {0} /\ top \in FrameSet /\ top = stack[n]
      /\ n \in 1 .. n
      /\ Stacked(stack, u, made) /\ Journaled(journal[u], stack, u, made)
      /\ undoing[u] = <<>> /\ ~closed
  <2>1. stack # <<>>
    BY <1>1
  <2> QED
    BY <2>1, StackFacts DEF Free
<1>3. /\ x \in Instances /\ x.from \subseteq 1 .. Len(made)
      /\ \A i \in x.from : made[i].phase = "aborted" => made[i].by # u
      /\ x.by = u /\ x.name = top.name /\ x.phase \in {"open", "plain"}
      /\ x.phase = "open" => owed = <<id>>
      /\ x.phase # "open" => owed = <<>>
  <2>1. ASSUME NEW i \in x.from
        PROVE  i \in 1 .. Len(made) /\ (made[i].phase = "aborted" => made[i].by # u)
    <3>1. PICK j \in 1 .. Len(top.got) : i = top.got[j] /\ i # Known
      BY <1>2 DEF ToSet, FrameSet
    <3>2. Holdable(top.got[j], u, made)
      BY <1>2, StackedAt
    <3> QED
      BY <3>1, <3>2 DEF Holdable
  <2>2. <<id>> # <<>>
    OBVIOUS
  <2>3. x.from \subseteq 1 .. Len(made) /\ 1 .. Len(made) \subseteq Nat
    BY <2>1
  <2> QED
    BY <1>1, <2>1, <2>2, <2>3 DEF Instances, Phases
<1> HIDE DEF x, owed
<1>4. /\ Numbered(made) /\ Owed(cleanups, made) /\ Cached(cache, made, closed)
      /\ Finishing(made, closed)
  BY DEF SInv
<1>5. /\ Numbered(made') /\ Len(made') = id /\ Len(made) \in Nat /\ id \in Nat
      /\ \A i \in 1 .. Len(made) : made'[i] = made[i] /\ i # id /\ i \in 1 .. Len(made')
      /\ id \in 1 .. Len(made') /\ made'[id] = x
      /\ \A i \in 1 .. Len(made') : i \in 1 .. Len(made) \/ i = id
  BY <1>1, <1>3, <1>4, Appended
<1>6. Owed(cleanups', made')
  <2>1. CASE x.phase = "open"
    BY <1>1, <1>3, <1>4, <2>1, OwesOneMore
  <2>2. CASE x.phase # "open"
    BY <1>1, <1>3, <1>4, <2>2, OwesOneMore
  <2> QED
    BY <2>1, <2>2
<1>7. /\ DOMAIN cache' = DOMAIN cache \cup {top.name} /\ cache'[top.name] = id
      /\ \A m \in DOMAIN cache : m # top.name => cache'[m] = cache[m]
  BY <1>1
<1>8. frames'[u] = Hand(Front(stack), id) /\ \A v \in Users : v # u => frames'[v] = frames[v]
  BY <1>1 DEF SInv, Shape
<1>9. Shape'
  BY <1>1 DEF SInv, Shape
<1> HIDE DEF id, entry
<1>10. Cached(cache', made', closed')
  <2>0. DOMAIN cache' \subseteq Names
    BY <1>1, <1>4, <1>7 DEF Cached
  <2> SUFFICES ASSUME NEW m \in DOMAIN cache'
               PROVE  /\ cache'[m] \in 1 .. Len(made') /\ made'[cache'[m]].name = m
                      /\ made'[cache'[m]].phase \in {"open", "plain"}
                      /\ \A i \in made'[cache'[m]].from :
                            made'[i].phase = "aborted" => made'[i].by # made'[cache'[m]].by
    BY <2>0 DEF Cached
  <2>1. CASE m = top.name
    BY <1>3, <1>5, <1>7, <2>1
  <2>2. CASE m # top.name
    <3>1. /\ m \in DOMAIN cache /\ cache'[m] = cache[m]
          /\ cache[m] \in 1 .. Len(made) /\ made[cache[m]].name = m
          /\ made[cache[m]].phase \in {"open", "plain"}
          /\ \A i \in made[cache[m]].from :
                made[i].phase = "aborted" => made[i].by # made[cache[m]].by
      BY <1>2, <1>4, <1>7, <2>2 DEF Cached
    <3>2. \A i \in made[cache[m]].from : i \in 1 .. Len(made)
      BY <1>4, <1>5, <3>1 DEF Numbered
    <3> QED
      BY <1>5, <3>1, <3>2
  <2> QED
    BY <2>1, <2>2
<1>11. Finishing(made', closed')
  BY <1>2, <1>3, <1>4, <1>5 DEF Finishing
<1>12. ASSUME NEW v \in Users, NEW i \in Nat, Holdable(i, v, made)
       PROVE  Holdable(i, v, made')
  BY <1>5, <1>12 DEF Holdable
<1>13. /\ Stacked(frames'[u], u, made') /\ Len(frames'[u]) = n - 1
       /\ \A k \in 1 .. n - 1 : frames'[u][k].name = stack[k].name
  <2> DEFINE below == Front(stack)
  <2>1. /\ Stacked(below, u, made) /\ below # <<>> /\ ~Full(Top(below))
        /\ Len(below) = n - 1 /\ \A k \in 1 .. n - 1 : below[k] = stack[k]
    <3>1. stack # <<>> /\ Top(stack).name \in Names /\ Stacked(stack, u, made)
      BY <1>1, <1>2
    <3> HIDE DEF stack, top
    <3> QED
      BY <3>1, Popped, ZenonT(60)
  <2>2. Stacked(below, u, made')
    BY <1>12, <2>1, StaysStacked
  <2>3. id \in Nat /\ Holdable(id, u, made')
    BY <1>3, <1>5 DEF Holdable
  <2> HIDE DEF below
  <2>4. /\ Stacked(Hand(below, id), u, made') /\ Len(Hand(below, id)) = Len(below)
        /\ \A k \in 1 .. Len(below) : Hand(below, id)[k].name = below[k].name
    BY <2>1, <2>2, <2>3, Handed
  <2> QED
    BY <1>8, <2>1, <2>4 DEF below
<1>14. Journaled(journal'[u], frames'[u], u, made')
  <2>1. CASE Journaling(u)
    <3>1. journal'[u] = entry
      BY <1>1, <2>1 DEF SInv, Shape
    <3>2. PICK k \in 1 .. n : stack[k].name = Principal
      BY <1>2, <2>1 DEF Journaling
    <3>3. k # n
      BY <1>1, <1>2, <3>2, ScopeAssumption
    <3>4. k \in 1 .. n - 1 /\ k \in 1 .. Len(frames'[u])
      BY <1>2, <1>13, <3>2, <3>3
    <3>5. \E j \in 1 .. Len(frames'[u]) : frames'[u][j].name = Principal
      BY <1>13, <3>2, <3>4
    <3>6. owed \in {<<>>, <<Len(made) + 1>>}
      BY DEF owed, id
    <3>7. Journaled(journal[u], stack, x.by, made)
      BY <1>2, <1>3
    <3>8. Journaled([names |-> journal[u].names \cup {x.name},
                     teardowns |-> journal[u].teardowns \o owed],
                    frames'[u], x.by, Append(made, x))
      BY <1>3, <1>4, <3>5, <3>6, <3>7, OwnJournal
    <3> QED
      BY <1>1, <1>3, <3>1, <3>8 DEF entry
  <2>2. CASE ~Journaling(u)
    <3>1. journal'[u] = NoJournal
      BY <1>1, <1>2, <2>2 DEF Journaled, Journaling
    <3> QED
      BY <3>1, NothingJournaled
  <2> QED
    BY <2>1, <2>2
<1>15. ASSUME NEW v \in Users, v # u
       PROVE  /\ Stacked(frames'[v], v, made')
              /\ Journaled(journal'[v], frames'[v], v, made')
              /\ Undoing(undoing'[v], v, made', cache')
              /\ frames'[v] # <<>> => undoing'[v] = <<>>
  <2>1. /\ frames'[v] = frames[v] /\ journal'[v] = journal[v] /\ undoing'[v] = undoing[v]
        /\ Stacked(frames[v], v, made) /\ Journaled(journal[v], frames[v], v, made)
        /\ Undoing(undoing[v], v, made, cache)
        /\ frames[v] # <<>> => undoing[v] = <<>>
    BY <1>1, <1>8, <1>15 DEF SInv, Shape
  <2>2. Stacked(frames[v], v, made')
    BY <1>12, <2>1, StaysStacked
  <2>3. Journaled(journal[v], frames[v], v, made')
    BY <1>1, <1>3, <1>4, <1>15, <2>1, OthersJournal
  <2>4. Undoing(undoing[v], v, made', cache')
    <3> SUFFICES ASSUME NEW k \in 1 .. Len(undoing[v])
                 PROVE  /\ undoing[v][k] \in 1 .. Len(made')
                        /\ made'[undoing[v][k]].by = v
                        /\ \A m \in DOMAIN cache' :
                              /\ cache'[m] # undoing[v][k]
                              /\ made'[cache'[m]].by = v => undoing[v][k] \notin made'[cache'[m]].from
      BY <2>1 DEF Undoing
    <3>1. /\ undoing[v][k] \in 1 .. Len(made)
          /\ made[undoing[v][k]].by = v
          /\ \A m \in DOMAIN cache :
                /\ cache[m] # undoing[v][k]
                /\ made[cache[m]].by = v => undoing[v][k] \notin made[cache[m]].from
      BY <2>1 DEF Undoing
    <3>2. \A m \in DOMAIN cache : cache[m] \in 1 .. Len(made)
      BY <1>4 DEF Cached
    <3> QED
      BY <1>3, <1>5, <1>7, <1>15, <3>1, <3>2
  <2> QED
    BY <2>1, <2>2, <2>3, <2>4
<1>16. Undoing(undoing'[u], u, made', cache') /\ (frames'[u] # <<>> => undoing'[u] = <<>>)
  BY <1>1, <1>2, Nothing
<1> QED
  BY <1>5, <1>6, <1>9, <1>10, <1>11, <1>13, <1>14, <1>15, <1>16 DEF SInv

(***************************************************************************)
(* The steps: failing and undoing.                                         *)
(***************************************************************************)

LEMMA RaisesKeeps ==
    ASSUME SInv, NEW u \in Users, Raises(u)
    PROVE  SInv'
<1> DEFINE entry == journal[u]
           kept == DOMAIN cache \ entry.names
<1>1. /\ cache' = [n \in kept |-> cache[n]]
      /\ undoing' = [undoing EXCEPT ![u] = Reverse(entry.teardowns)]
      /\ journal' = [journal EXCEPT ![u] = NoJournal]
      /\ frames' = [frames EXCEPT ![u] = <<>>]
      /\ UNCHANGED <<holders, closed, principal, cleanups, made>>
  BY DEF Raises
<1>2. Shape'
  BY <1>1 DEF SInv, Shape
<1>3. /\ frames'[u] = <<>> /\ journal'[u] = NoJournal /\ undoing'[u] = Reverse(entry.teardowns)
      /\ \A v \in Users : v # u => /\ frames'[v] = frames[v] /\ journal'[v] = journal[v]
                                  /\ undoing'[v] = undoing[v]
  BY <1>1 DEF SInv, Shape
<1>4. /\ Journaled(entry, frames[u], u, made) /\ entry.teardowns \in Seq(Nat)
      /\ Cached(cache, made, closed)
  BY DEF SInv, Journaled
<1>5. DOMAIN cache' = kept /\ \A n \in kept : n \in DOMAIN cache /\ cache'[n] = cache[n] /\ n \notin entry.names
  BY <1>1
<1>6. Cached(cache', made, closed)
  BY <1>4, <1>5 DEF Cached
<1>7. Undoing(undoing'[u], u, made, cache')
  <2> DEFINE back == Reverse(entry.teardowns)
             n == Len(entry.teardowns)
  <2>1. /\ back \in Seq(Nat) /\ Len(back) = n /\ n \in Nat
        /\ \A k \in 1 .. n : n - k + 1 \in 1 .. n /\ back[k] = entry.teardowns[n - k + 1]
    <3>1. n \in Nat /\ \A k \in 1 .. n : n - k + 1 \in 1 .. n
      BY <1>4
    <3>2. back = [k \in 1 .. n |-> entry.teardowns[n - k + 1]]
      BY DEF Reverse
    <3>3. back \in [1 .. n -> Nat]
      BY <1>4, <3>1, <3>2
    <3>4. back \in Seq(Nat) /\ DOMAIN back = 1 .. n
      BY <3>1, <3>3
    <3>5. Len(back) = n
      BY <3>1, <3>4
    <3>6. \A k \in 1 .. n : back[k] = entry.teardowns[n - k + 1]
      BY <3>2
    <3> QED
      BY <3>1, <3>4, <3>5, <3>6
  <2>2. ASSUME NEW j \in 1 .. n
        PROVE  /\ entry.teardowns[j] \in 1 .. Len(made)
               /\ made[entry.teardowns[j]].by = u
               /\ \A m \in DOMAIN cache' :
                     /\ cache'[m] # entry.teardowns[j]
                     /\ made[cache'[m]].by = u => entry.teardowns[j] \notin made[cache'[m]].from
    <3>1. /\ entry.teardowns[j] \in 1 .. Len(made)
          /\ made[entry.teardowns[j]].by = u
          /\ made[entry.teardowns[j]].name \in entry.names
          /\ \A c \in 1 .. Len(made) :
                (made[c].by = u /\ entry.teardowns[j] \in made[c].from) => made[c].name \in entry.names
      BY <1>4 DEF Journaled
    <3>2. \A m \in kept : /\ cache'[m] \in 1 .. Len(made) /\ made[cache'[m]].name = m
                          /\ m \notin entry.names
      BY <1>4, <1>5 DEF Cached
    <3> QED
      BY <1>5, <3>1, <3>2
  <2> HIDE DEF back, n
  <2>3. \A k \in 1 .. Len(back) :
          /\ back[k] \in 1 .. Len(made)
          /\ made[back[k]].by = u
          /\ \A m \in DOMAIN cache' :
                /\ cache'[m] # back[k]
                /\ made[cache'[m]].by = u => back[k] \notin made[cache'[m]].from
    BY <2>1, <2>2, SMTT(60)
  <2>4. Undoing(back, u, made, cache')
    BY <2>1, <2>3, ZenonT(60) DEF Undoing
  <2>5. undoing'[u] = back
    BY <1>3 DEF back
  <2> QED
    BY <2>4, <2>5, ZenonT(60)
<1>8. \A v \in Users : Undoing(undoing'[v], v, made, cache')
  <2> TAKE v \in Users
  <2>1. CASE v # u
    BY <1>3, <1>5, <2>1 DEF SInv, Undoing
  <2> QED
    BY <1>7, <2>1
<1>9. \A v \in Users : /\ Stacked(frames'[v], v, made)
                       /\ Journaled(journal'[v], frames'[v], v, made)
                       /\ frames'[v] # <<>> => undoing'[v] = <<>>
  <2> TAKE v \in Users
  <2>1. CASE v # u
    BY <1>3, <2>1 DEF SInv
  <2>2. CASE v = u
    BY <1>3, <2>2, Nothing, NothingJournaled
  <2> QED
    BY <2>1, <2>2
<1> QED
  BY <1>1, <1>2, <1>6, <1>8, <1>9 DEF SInv

\* What is still to undo when the next of it was aborted: a part of what there was.
PartOf(rest, list) ==
    rest \in Seq(Nat) /\ \A k \in 1 .. Len(rest) : \E j \in 1 .. Len(list) : rest[k] = list[j]

LEMMA AbortsNextKeeps ==
    ASSUME SInv, Free, NEW u \in Users, undoing[u] # <<>>, AbortsNext(u),
           NEW rest, PartOf(rest, undoing[u]), undoing' = [undoing EXCEPT ![u] = rest]
    PROVE  SInv'
<1> DEFINE id == Head(undoing[u])
<1>1. /\ undoing[u] # <<>> /\ undoing' = [undoing EXCEPT ![u] = rest]
      /\ UNCHANGED <<holders, closed, cache, principal, frames, journal>>
      /\ frames[u] = <<>> /\ ~closed
  BY StackFacts DEF AbortsNext, Free
<1>2. Shape'
  BY <1>1 DEF SInv, Shape
<1>3. /\ undoing[u] \in Seq(Nat) /\ Len(undoing[u]) \in Nat \ {0} /\ id = undoing[u][1]
      /\ \A k \in 1 .. Len(undoing[u]) :
            /\ undoing[u][k] \in 1 .. Len(made)
            /\ made[undoing[u][k]].by = u
            /\ \A n \in DOMAIN cache :
                  /\ cache[n] # undoing[u][k]
                  /\ made[cache[n]].by = u => undoing[u][k] \notin made[cache[n]].from
  BY <1>1 DEF SInv, Undoing
<1>4. /\ id \in 1 .. Len(made) /\ made[id].by = u
      /\ \A n \in DOMAIN cache : /\ cache[n] # id
                                 /\ made[cache[n]].by = u => id \notin made[cache[n]].from
  BY <1>3
<1>5. /\ undoing'[u] = rest /\ PartOf(undoing'[u], undoing[u])
      /\ \A v \in Users : v # u => undoing'[v] = undoing[v]
  BY <1>1 DEF SInv, Shape
<1>6. \A v \in Users : Undoing(undoing'[v], v, made, cache)
  <2> TAKE v \in Users
  <2>1. CASE v = u
    <3> SUFFICES ASSUME NEW k \in 1 .. Len(undoing'[u])
                 PROVE  /\ undoing'[u][k] \in 1 .. Len(made)
                        /\ made[undoing'[u][k]].by = u
                        /\ \A n \in DOMAIN cache :
                              /\ cache[n] # undoing'[u][k]
                              /\ made[cache[n]].by = u => undoing'[u][k] \notin made[cache[n]].from
      BY <1>5, <2>1 DEF Undoing, PartOf
    <3>1. PICK j \in 1 .. Len(undoing[u]) : undoing'[u][k] = undoing[u][j]
      BY <1>5 DEF PartOf
    <3> QED
      BY <1>3, <3>1
  <2>2. CASE v # u
    BY <1>5, <2>2 DEF SInv
  <2> QED
    BY <2>1, <2>2
<1> HIDE DEF id
<1>7. CASE UNCHANGED <<cleanups, made>>
  <2>1. \A v \in Users : frames'[v] # <<>> => undoing'[v] = <<>>
    BY <1>1, <1>5 DEF SInv
  <2> QED
    BY <1>1, <1>2, <1>6, <1>7, <2>1 DEF SInv
<1>8. ASSUME NEW i \in DOMAIN cleanups, cleanups[i] = id, cleanups' = RemoveAt(cleanups, i),
             made' = Rephased(made, id, "aborted")
      PROVE  SInv'
  <2>1. /\ Numbered(made') /\ Len(made') = Len(made)
        /\ \A j \in 1 .. Len(made) :
              /\ made'[j].name = made[j].name /\ made'[j].by = made[j].by
              /\ made'[j].from = made[j].from
              /\ made'[j].phase = IF j = id THEN "aborted" ELSE made[j].phase
    <3>1. Numbered(made) /\ "aborted" \in Phases
      BY DEF SInv, Phases
    <3>2. PhaseOnly(made, made', id, "aborted")
      BY <1>4, <1>8, <3>1, Phased
    <3> QED
      BY <3>2 DEF PhaseOnly
  <2>2. Owed(cleanups', made')
    <3>1. i \in 1 .. Len(cleanups)
      BY DEF SInv, Owed
    <3>2. "aborted" \in Phases \ {"open"}
      BY DEF Phases
    <3> QED
      BY <1>8, <3>1, <3>2, OwesOneLess DEF SInv
  <2>3. Finishing(made', closed')
    BY <1>1, <2>1 DEF SInv, Finishing
  <2>4. Cached(cache', made', closed')
    <3> SUFFICES ASSUME NEW n \in DOMAIN cache
                 PROVE  /\ cache[n] \in 1 .. Len(made') /\ made'[cache[n]].name = n
                        /\ made'[cache[n]].phase \in {"open", "plain"}
                        /\ \A k \in made'[cache[n]].from :
                              made'[k].phase = "aborted" => made'[k].by # made'[cache[n]].by
      BY <1>1 DEF SInv, Cached
    <3>1. /\ cache[n] \in 1 .. Len(made) /\ made[cache[n]].name = n
          /\ made[cache[n]].phase \in {"open", "plain"}
          /\ \A k \in made[cache[n]].from :
                made[k].phase = "aborted" => made[k].by # made[cache[n]].by
      BY <1>1 DEF SInv, Cached
    <3>2. made[cache[n]].from \subseteq 1 .. Len(made)
      BY <3>1 DEF SInv, Numbered
    <3> QED
      BY <1>4, <2>1, <3>1, <3>2
  <2>5. \A v \in Users : Stacked(frames'[v], v, made') /\ (frames'[v] # <<>> => undoing'[v] = <<>>)
    <3> TAKE v \in Users
    <3>1. CASE v = u
      BY <1>1, <3>1, Nothing
    <3>2. CASE v # u
      <4>1. \A k \in Nat : Holdable(k, v, made) => Holdable(k, v, made')
        BY <1>4, <2>1, <3>2 DEF Holdable
      <4> QED
        BY <1>1, <1>5, <3>2, <4>1, StaysStacked DEF SInv
    <3> QED
      BY <3>1, <3>2
  <2>6. \A v \in Users : Journaled(journal'[v], frames'[v], v, made')
    <3> TAKE v \in Users
    <3>1. Journaled(journal[v], frames[v], v, made)
      BY DEF SInv
    <3>2. Journaled(journal[v], frames[v], v, made')
      BY <2>1, <3>1, SameInstances
    <3> QED
      BY <1>1, <3>2
  <2>7. \A v \in Users : Undoing(undoing'[v], v, made', cache')
    <3>1. \A n \in DOMAIN cache : cache[n] \in 1 .. Len(made)
      BY DEF SInv, Cached
    <3> QED
      BY <1>1, <1>6, <2>1, <3>1, SameInstances
  <2> QED
    BY <1>2, <2>1, <2>2, <2>3, <2>4, <2>5, <2>6, <2>7 DEF SInv
<1> QED
  BY <1>7, <1>8 DEF AbortsNext, Rephased, id

LEMMA AbortsKeeps ==
    ASSUME SInv, Free, NEW u \in Users, Aborts(u) \/ AbortCancelled(u)
    PROVE  SInv'
<1>1. undoing[u] # <<>> /\ AbortsNext(u) /\ undoing[u] \in Seq(Nat)
  BY DEF Aborts, AbortCancelled, SInv, Undoing
<1>2. CASE Aborts(u)
  <2>1. /\ Tail(undoing[u]) \in Seq(Nat) /\ Len(Tail(undoing[u])) = Len(undoing[u]) - 1
        /\ \A k \in 1 .. Len(Tail(undoing[u])) : Tail(undoing[u])[k] = undoing[u][k + 1]
    BY <1>1, HeadTailProperties
  <2>2. PartOf(Tail(undoing[u]), undoing[u])
    <3>1. \A k \in 1 .. Len(undoing[u]) - 1 : k + 1 \in 1 .. Len(undoing[u])
      BY <1>1
    <3> QED
      BY <2>1, <3>1 DEF PartOf
  <2> QED
    BY <1>1, <1>2, <2>2, AbortsNextKeeps DEF Aborts
<1>3. CASE AbortCancelled(u)
  <2>1. PartOf(<<>>, undoing[u])
    BY DEF PartOf
  <2> QED
    BY <1>1, <1>3, <2>1, AbortsNextKeeps DEF AbortCancelled
<1> QED
  BY <1>2, <1>3

(***************************************************************************)
(* The steps: the end of the scope.                                        *)
(***************************************************************************)

LEMMA ReleaseKeeps ==
    ASSUME SInv, Free, NEW u \in Users, Release(u)
    PROVE  SInv'
<1>1. /\ ~closed /\ closed' \in BOOLEAN /\ holders' \subseteq Users
      /\ UNCHANGED <<cleanups, made, frames, journal, undoing>>
      /\ cache' = cache \/ cache' = <<>>
      /\ principal' \in BOOLEAN
  BY DEF Release, Free, SInv, Shape
<1>2. Shape'
  BY <1>1 DEF SInv, Shape
<1>3. /\ DOMAIN cache' \subseteq DOMAIN cache
      /\ \A n \in DOMAIN cache' : cache'[n] = cache[n]
  BY <1>1
<1>4. Cached(cache', made, closed')
  BY <1>1, <1>3 DEF SInv, Cached
<1>5. Finishing(made, closed')
  BY <1>1 DEF SInv, Finishing
<1>6. \A v \in Users : Undoing(undoing[v], v, made, cache')
  BY <1>3 DEF SInv, Undoing
<1> QED
  BY <1>1, <1>2, <1>4, <1>5, <1>6 DEF SInv

LEMMA FinishesKeeps ==
    ASSUME SInv, Free, Finishes
    PROVE  SInv'
<1> DEFINE n == Len(cleanups)
           id == cleanups[n]
<1>1. /\ closed /\ cleanups # <<>>
      /\ made' = Rephased(made, id, "finished")
      /\ cleanups' = Front(cleanups)
      /\ UNCHANGED <<holders, closed, frames, journal, undoing>>
      /\ cache' = cache \/ cache' = <<>>
      /\ principal' \in BOOLEAN
      /\ \A v \in Users : frames[v] = <<>> /\ undoing[v] = <<>>
  BY DEF Finishes, Free, SInv, Shape, Last, Rephased
<1>2. Shape'
  BY <1>1 DEF SInv, Shape
<1>3. cleanups \in Seq(Nat) /\ n \in Nat \ {0} /\ n \in 1 .. n /\ id \in 1 .. Len(made)
  <2>1. cleanups \in Seq(Nat) /\ n \in Nat \ {0}
    BY <1>1 DEF SInv, Owed
  <2> QED
    BY <2>1 DEF SInv, Owed
<1>4. Owed(cleanups', made')
  <2>1. RemoveAt(cleanups, n) = Front(cleanups)
    <3>1. SubSeq(cleanups, n + 1, n) = <<>>
      BY <1>3, SubSeqEmpty
    <3>2. Front(cleanups) \in Seq(Nat)
      BY <1>1, <1>3, FrontFacts
    <3> QED
      BY <3>1, <3>2, ConcatEmptySeq DEF RemoveAt, Front
  <2>2. "finished" \in Phases \ {"open"}
    BY DEF Phases
  <2>3. Numbered(made) /\ Owed(cleanups, made) /\ n \in 1 .. Len(cleanups)
    BY <1>3 DEF SInv
  <2>4. Owed(RemoveAt(cleanups, n), Rephased(made, cleanups[n], "finished"))
    BY <2>2, <2>3, OwesOneLess
  <2> QED
    BY <1>1, <2>1, <2>4
<1>5. /\ Numbered(made') /\ Len(made') = Len(made) /\ Len(made) \in Nat
      /\ \A j \in 1 .. Len(made) :
            /\ made'[j].name = made[j].name /\ made'[j].by = made[j].by
            /\ made'[j].from = made[j].from
            /\ made'[j].phase = IF j = id THEN "finished" ELSE made[j].phase
  <2>1. Numbered(made) /\ "finished" \in Phases /\ Len(made) \in Nat
    BY DEF SInv, Phases, Numbered
  <2>2. PhaseOnly(made, made', id, "finished")
    BY <1>1, <1>3, <2>1, Phased
  <2> QED
    BY <2>2 DEF PhaseOnly
<1>6. /\ \A i, j \in 1 .. n : i < j => cleanups[i] < cleanups[j]
      /\ \A c \in 1 .. Len(made) : made[c].phase = "open" => \E i \in 1 .. n : cleanups[i] = c
      /\ \A i \in 1 .. n : cleanups[i] \in 1 .. Len(made)
  BY DEF SInv, Owed
<1> HIDE DEF id, n
\* The youngest open instance: none that was built on it is still open.
<1>7. \A c \in 1 .. Len(made) : made[c].phase = "open" => c <= id
  <2> TAKE c \in 1 .. Len(made)
  <2> HAVE made[c].phase = "open"
  <2>1. PICK i \in 1 .. n : cleanups[i] = c
    BY <1>6
  <2>2. CASE i < n
    BY <1>3, <1>6, <2>1, <2>2 DEF id
  <2>3. CASE i = n
    BY <1>3, <2>1, <2>3 DEF id
  <2> QED
    BY <1>3, <2>2, <2>3
<1>8. Finishing(made', closed')
  <2> SUFFICES ASSUME NEW i \in 1 .. Len(made), made'[i].phase = "finished",
                      NEW j \in 1 .. Len(made), i \in made'[j].from
               PROVE  made'[j].phase # "open"
    BY <1>1, <1>5 DEF Finishing
  <2>1. i \in made[j].from /\ i \in 1 .. j - 1
    BY <1>5 DEF SInv, Numbered
  <2>2. CASE i = id
    BY <1>5, <1>7, <2>1, <2>2
  <2>3. CASE i # id
    BY <1>5, <2>1, <2>3 DEF SInv, Finishing
  <2> QED
    BY <2>2, <2>3
<1>9. /\ DOMAIN cache' \subseteq DOMAIN cache
      /\ \A m \in DOMAIN cache' : cache'[m] = cache[m]
  BY <1>1
<1>10. Cached(cache', made', closed')
  BY <1>1, <1>5, <1>9 DEF SInv, Cached
<1>11. \A v \in Users : /\ Stacked(frames'[v], v, made')
                        /\ Undoing(undoing'[v], v, made', cache')
                        /\ frames'[v] # <<>> => undoing'[v] = <<>>
  BY <1>1, Nothing
<1>12. \A v \in Users : Journaled(journal'[v], frames'[v], v, made')
  <2> TAKE v \in Users
  <2>1. Journaled(journal[v], frames[v], v, made)
    BY DEF SInv
  <2>2. Journaled(journal[v], frames[v], v, made')
    BY <1>5, <2>1, SameInstances
  <2> QED
    BY <1>1, <2>2
<1> QED
  BY <1>2, <1>4, <1>5, <1>8, <1>10, <1>11, <1>12 DEF SInv

Places == {"idle", "entered", "middleware", "guard", "handler", "result", "after", "error",
           "on_error", "finally", "closing", "cut", "late", "done"}

\* Where an invocation is between its join and its release.
Joined == {"entered", "middleware", "guard", "handler", "result", "after", "error",
           "on_error", "finally"}

(***************************************************************************)
(* The scope is held while it is used.                                     *)
(***************************************************************************)

Typed ==
    /\ DOMAIN frames = Users /\ DOMAIN undoing = Users
    /\ frames = [u \in Users |-> frames[u]] /\ undoing = [u \in Users |-> undoing[u]]
    /\ pc \in [Invocations -> Places]

Holding ==
    /\ closed => holders = {}
    /\ \A u \in Invocations : pc[u] \in Joined => u \in holders
    /\ \A u \in Users : frames[u] # <<>> \/ undoing[u] # <<>> =>
                            u \in Invocations /\ pc[u] \in Joined

HInv == Typed /\ Holding

LEMMA HoldsWhatItUses == HInv => HeldWhileUsed
BY DEF HInv, Typed, Holding, HeldWhileUsed

\* How the steps of a scope look to those who hold it.
LEMMA ScopeSteps ==
    ASSUME Typed, NEW u \in Users
    PROVE  /\ (\E fn : Call(u, fn)) \/ Takes(u) \/ Asks(u) \/ ProviderReturns(u)
                 \/ ResolverReturns(u) \/ (\E fn : FunctionReturns(u, fn)) =>
                 /\ frames' = [frames EXCEPT ![u] = frames'[u]]
                 /\ UNCHANGED <<holders, closed, undoing>>
           /\ Raises(u) => /\ frames' = [frames EXCEPT ![u] = <<>>]
                           /\ undoing' = [undoing EXCEPT ![u] = undoing'[u]]
                           /\ UNCHANGED <<holders, closed>>
           /\ Aborts(u) \/ AbortCancelled(u) =>
                 /\ undoing' = [undoing EXCEPT ![u] = undoing'[u]]
                 /\ undoing[u] # <<>>
                 /\ UNCHANGED <<holders, closed, frames>>
           /\ Release(u) => /\ frames[u] = <<>> /\ undoing[u] = <<>>
                            /\ holders' = holders \ {u} /\ closed' = (holders' = {})
                            /\ UNCHANGED <<frames, undoing>>
           /\ Join(u) => /\ ~closed /\ holders' = holders \cup {u}
                         /\ UNCHANGED <<closed, frames, undoing>>
<1> USE DEF Typed
<1>1. ASSUME NEW fn, Call(u, fn)
      PROVE  frames' = [frames EXCEPT ![u] = frames'[u]] /\ UNCHANGED <<holders, closed, undoing>>
  BY <1>1 DEF Call
<1>2. ProviderReturns(u) =>
         frames' = [frames EXCEPT ![u] = frames'[u]] /\ UNCHANGED <<holders, closed, undoing>>
  BY DEF ProviderReturns
<1>3. ResolverReturns(u) =>
         frames' = [frames EXCEPT ![u] = frames'[u]] /\ UNCHANGED <<holders, closed, undoing>>
  BY DEF ResolverReturns
<1>4. ASSUME NEW fn, FunctionReturns(u, fn)
      PROVE  frames' = [frames EXCEPT ![u] = frames'[u]] /\ UNCHANGED <<holders, closed, undoing>>
  BY <1>4 DEF FunctionReturns
<1>5. Raises(u) => /\ frames' = [frames EXCEPT ![u] = <<>>]
                   /\ undoing' = [undoing EXCEPT ![u] = undoing'[u]]
                   /\ UNCHANGED <<holders, closed>>
  BY DEF Raises
<1>6. Aborts(u) \/ AbortCancelled(u) =>
         /\ undoing' = [undoing EXCEPT ![u] = undoing'[u]]
         /\ undoing[u] # <<>>
         /\ UNCHANGED <<holders, closed, frames>>
  BY DEF Aborts, AbortCancelled, AbortsNext
<1>7. Release(u) => /\ frames[u] = <<>> /\ undoing[u] = <<>>
                    /\ holders' = holders \ {u} /\ closed' = (holders' = {})
                    /\ UNCHANGED <<frames, undoing>>
  BY DEF Release
<1>8. Join(u) => /\ ~closed /\ holders' = holders \cup {u}
                 /\ UNCHANGED <<closed, frames, undoing>>
  BY DEF Join
<1>9. Takes(u) \/ Asks(u) =>
         frames' = [frames EXCEPT ![u] = frames'[u]] /\ UNCHANGED <<holders, closed, undoing>>
  BY DEF Takes, Asks
<1> QED
  BY <1>1, <1>2, <1>3, <1>4, <1>5, <1>6, <1>7, <1>8, <1>9

\* An invocation that has joined works in the scope.
LEMMA StaysIn ==
    ASSUME HInv, NEW u \in Invocations, pc[u] \in Joined,
           NEW place \in Joined, pc' = [pc EXCEPT ![u] = place],
           UNCHANGED <<holders, closed>>,
           frames' = [frames EXCEPT ![u] = frames'[u]],
           undoing' = [undoing EXCEPT ![u] = undoing'[u]]
    PROVE  HInv'
<1>1. Typed'
  BY DEF HInv, Typed, Joined, Places, Invocations
<1>2. Holding'
  BY DEF HInv, Typed, Holding, Invocations
<1> QED
  BY <1>1, <1>2 DEF HInv

LEMMA UnchangedAt ==
    ASSUME Typed, NEW u \in Users
    PROVE  /\ UNCHANGED frames => frames' = [frames EXCEPT ![u] = frames'[u]]
           /\ UNCHANGED undoing => undoing' = [undoing EXCEPT ![u] = undoing'[u]]
BY DEF Typed

LEMMA ComesIn ==
    ASSUME HInv, NEW u \in Invocations, NEW place \in Joined, pc' = [pc EXCEPT ![u] = place],
           Join(u)
    PROVE  HInv'
<1>1. ~closed /\ holders' = holders \cup {u} /\ UNCHANGED <<closed, frames, undoing>>
  BY ScopeSteps DEF HInv, Invocations
<1>2. Typed'
  BY <1>1 DEF HInv, Typed, Joined, Places, Invocations
<1>3. Holding'
  BY <1>1 DEF HInv, Typed, Holding, Invocations
<1> QED
  BY <1>2, <1>3 DEF HInv

LEMMA GoesOut ==
    ASSUME HInv, NEW u \in Invocations, NEW place \in {"closing", "done"},
           pc' = [pc EXCEPT ![u] = place], Release(u)
    PROVE  HInv'
<1>1. /\ frames[u] = <<>> /\ undoing[u] = <<>>
      /\ holders' = holders \ {u} /\ closed' = (holders' = {})
      /\ UNCHANGED <<frames, undoing>>
  BY ScopeSteps DEF HInv, Invocations
<1>2. Typed'
  BY <1>1 DEF HInv, Typed, Places, Invocations
<1>3. Holding'
  BY <1>1 DEF HInv, Typed, Holding, Invocations, Joined
<1> QED
  BY <1>2, <1>3 DEF HInv

LEMMA InvocationKeepsHolding ==
    ASSUME HInv, NEW u \in Invocations, Invocation(u)
    PROVE  HInv'
<1> USE DEF GoesTo
<1>0. /\ u \in Users /\ Typed /\ pc \in [Invocations -> Places]
      /\ frames[u] # <<>> \/ undoing[u] # <<>> => pc[u] \in Joined
  BY DEF HInv, Typed, Holding, Invocations
<1>1. CASE Enters(u)
  BY <1>1, ComesIn DEF Enters, Joined
<1>13. CASE TooLate(u)
  BY <1>13 DEF TooLate, HInv, Typed, Holding, Joined, Places, scopeVars
<1>2. CASE Finally(u)
  BY <1>2, GoesOut DEF Finally
<1>3. CASE UNCHANGED scopeVars /\ pc[u] \in Joined /\ \E place \in Joined : pc' = [pc EXCEPT ![u] = place]
  BY <1>0, <1>3, StaysIn, UnchangedAt DEF scopeVars
<1>4. CASE Expires(u) \/ MiddlewareStops(u) \/ MiddlewareRaises(u) \/ Refused(u) \/ Dropped(u)
              \/ ResultTaken(u) \/ ResultRaises(u) \/ MiddlewaresReturn(u)
  BY <1>3, <1>4 DEF Expires, MiddlewareStops, MiddlewareRaises, Refused, Dropped, AtCore,
                    ResultTaken, ResultRaises, MiddlewaresReturn, Joined
\* What resolves, calls, or returns.
<1>5. ASSUME frames' = [frames EXCEPT ![u] = frames'[u]], UNCHANGED <<holders, closed, undoing>>,
             pc[u] \in Joined, NEW place \in Joined, pc' = [pc EXCEPT ![u] = place]
      PROVE  HInv'
  BY <1>0, <1>5, StaysIn, UnchangedAt
<1>6. CASE Identifies(u) \/ Admitted(u) \/ Reports(u)
  <2>1. PICK fn : Call(u, fn)
    BY <1>6 DEF Identifies, Admitted, Reports
  <2>2. pc[u] \in Joined /\ \E place \in Joined : pc' = [pc EXCEPT ![u] = place]
    BY <1>6 DEF Identifies, Admitted, Reports, AtCore, Joined
  <2> QED
    BY <1>0, <1>5, <2>1, <2>2, ScopeSteps
<1>7. CASE HandlerReturns(u) \/ ErrorHandled(u) \/ ErrorScreenRaises(u)
  <2>1. PICK fn : FunctionReturns(u, fn)
    BY <1>7 DEF HandlerReturns, ErrorHandled, ErrorScreenRaises
  <2>2. pc[u] \in Joined /\ \E place \in Joined : pc' = [pc EXCEPT ![u] = place]
    BY <1>7 DEF HandlerReturns, ErrorHandled, ErrorScreenRaises, Joined
  <2> QED
    BY <1>0, <1>5, <2>1, <2>2, ScopeSteps
<1>8. CASE Resolves(u)
  <2>1. frames[u] # <<>>
    BY <1>8 DEF Resolves, ProviderReturns, ResolverReturns, Takes, Asks, Awaits
  <2>2. pc' = [pc EXCEPT ![u] = pc[u]]
    BY <1>0, <1>8 DEF Resolves
  <2> QED
    BY <1>0, <1>5, <1>8, <2>1, <2>2, ScopeSteps DEF Resolves
<1>9. CASE Undoes(u)
  <2>1. pc' = [pc EXCEPT ![u] = pc[u]]
    BY <1>0, <1>9 DEF Undoes
  <2> QED
    BY <1>0, <1>9, <2>1, ScopeSteps, StaysIn, UnchangedAt DEF Undoes
\* What an exception leaves.
<1>10. ASSUME Raises(u), NEW place \in Joined, pc' = [pc EXCEPT ![u] = place]
       PROVE  HInv'
  <2>1. frames[u] # <<>>
    BY <1>10 DEF Raises
  <2>2. frames' = [frames EXCEPT ![u] = frames'[u]]
    BY <1>0, <1>10, ScopeSteps DEF Typed
  <2> QED
    BY <1>0, <1>10, <2>1, <2>2, ScopeSteps, StaysIn
<1>11. CASE Fails(u) \/ ErrorHandlerFails(u)
  BY <1>10, <1>11 DEF Fails, ErrorHandlerFails, Joined
<1>12. CASE Cancelled(u)
  <2>1. CASE Raises(u) /\ pc' = [pc EXCEPT ![u] = "finally"]
    BY <1>10, <2>1 DEF Joined
  <2>2. CASE /\ pc[u] \in {"middleware", "result", "after"}
             /\ pc' = [pc EXCEPT ![u] = "finally"] /\ UNCHANGED scopeVars
    BY <1>3, <2>2 DEF Joined
  <2>3. CASE pc[u] = "closing" /\ pc' = [pc EXCEPT ![u] = "cut"] /\ UNCHANGED scopeVars
    BY <2>3 DEF HInv, Typed, Holding, Joined, Places, scopeVars
  <2>4. CASE AbortCancelled(u) /\ pc' = [pc EXCEPT ![u] = "finally"]
    BY <1>0, <2>4, ScopeSteps, StaysIn, UnchangedAt DEF Joined
  <2> QED
    BY <1>12, <2>1, <2>2, <2>3, <2>4 DEF Cancelled
<1> QED
  BY <1>1, <1>2, <1>4, <1>6, <1>7, <1>8, <1>9, <1>11, <1>12, <1>13 DEF Invocation

LEMMA HInvStep ==
    ASSUME HInv, [Next]_vars
    PROVE  HInv'
<1> USE DEF GoesTo
<1>0. /\ Typed /\ Gate \in Invocations /\ Errors \subseteq Invocations
      /\ Update \in Users \ Invocations
      /\ Gate \in Users
  BY UpdatesAssumption, ScopeAssumption DEF HInv, Invocations
<1>1. CASE GateJoins
  BY <1>0, <1>1, ComesIn DEF GateJoins, Joined
<1>2. CASE GateResolves
  <2>1. pc[Gate] \in Joined /\ pc' = [pc EXCEPT ![Gate] = "guard"] /\ Call(Gate, Principal)
    BY <1>2 DEF GateResolves, Joined
  <2> QED
    BY <1>0, <2>1, ScopeSteps, StaysIn, UnchangedAt DEF Joined
<1>3. CASE GateDecides \/ GateGivesUp
  BY <1>0, <1>3, GoesOut DEF GateDecides, GateGivesUp
<1>4. CASE \E u \in Invocations : Invocation(u)
  BY <1>4, InvocationKeepsHolding
<1>5. CASE \E h \in Handlers : PtbErrorEnters(h)
  BY <1>0, <1>5, ComesIn DEF PtbErrorEnters, Joined, Errors
<1>6. CASE ProcessingEnds
  <2>1. /\ holders' = holders \ {Update} /\ closed' = (holders' = {})
        /\ UNCHANGED <<frames, undoing, pc>>
    BY <1>0, <1>6, ScopeSteps DEF ProcessingEnds
  <2> QED
    BY <1>0, <2>1 DEF HInv, Typed, Holding
<1>7. CASE CleansUp
  <2>1. UNCHANGED <<holders, closed, frames, undoing>>
    BY <1>7 DEF CleansUp, Finishes
  <2>2. /\ pc' \in [Invocations -> Places]
        /\ \A u \in Invocations : pc'[u] = pc[u] \/ (pc[u] = "closing" /\ pc'[u] = "done")
    BY <1>7 DEF CleansUp, HInv, Typed, Places
  <2> QED
    BY <2>1, <2>2 DEF HInv, Typed, Holding, Joined
<1>8. CASE UNCHANGED vars
  BY <1>8 DEF vars, scopeVars, HInv, Typed, Holding
<1> QED
  BY <1>1, <1>2, <1>3, <1>4, <1>5, <1>6, <1>7, <1>8 DEF Next

LEMMA HoldingInvariant == Spec => []HInv
<1>1. Init => HInv
  BY UpdatesAssumption DEF Init, ScopeInit, HInv, Typed, Holding, Joined, Places, Invocations
<1> QED
  BY <1>1, HInvStep, PTL DEF Spec

\* join_update_scope, release: however invocations overlap, fail and are cancelled, a
\* function or a provider runs, and a failed resolution is undone, only while its
\* invocation holds the scope and no cleanup has begun.
THEOREM ScopeHeldWhileUsed == Spec => []HeldWhileUsed
BY HoldingInvariant, HoldsWhatItUses, PTL

(***************************************************************************)
(* What the scope promises.                                                *)
(***************************************************************************)

LEMMA HoldingFrees == HInv => Free
BY DEF HInv, Typed, Holding, Free

LEMMA Callers ==
    /\ {Handler, ErrorHandler} \subseteq Functions /\ Invocations \subseteq Users
    /\ {Gate, Update} \subseteq Users /\ \A h \in Handlers : OnError[h] \in Users
BY UpdatesAssumption DEF Invocations, Errors

LEMMA ScopeStays ==
    ASSUME SInv, UNCHANGED scopeVars
    PROVE  SInv'
BY DEF SInv, Shape, scopeVars

LEMMA InvocationKeepsScope ==
    ASSUME SInv, Free, NEW u \in Invocations, Invocation(u)
    PROVE  SInv'
<1>0. u \in Users
  BY Callers
<1>1. CASE UNCHANGED scopeVars
  BY <1>1, ScopeStays
<1>2. CASE Enters(u)
  BY <1>0, <1>2, JoinKeeps DEF Enters
<1>3. CASE \/ Expires(u) \/ MiddlewareStops(u) \/ MiddlewareRaises(u) \/ Refused(u) \/ Dropped(u)
           \/ ResultTaken(u) \/ ResultRaises(u) \/ MiddlewaresReturn(u) \/ TooLate(u)
  BY <1>1, <1>3 DEF TooLate, Expires, MiddlewareStops, MiddlewareRaises, Refused, Dropped,
                    ResultTaken, ResultRaises, MiddlewaresReturn
<1>4. CASE Identifies(u) \/ Admitted(u) \/ Reports(u)
  <2>1. PICK fn \in Functions \cup {Principal} : Call(u, fn)
    BY <1>4, Callers DEF Identifies, Admitted, Reports
  <2> QED
    BY <1>0, <2>1, CallKeeps
<1>5. CASE Resolves(u)
  BY <1>0, <1>5, TakesKeeps, AsksKeeps, ProviderReturnsKeeps, ResolverReturnsKeeps DEF Resolves
<1>6. CASE Fails(u) \/ ErrorHandlerFails(u)
  BY <1>0, <1>6, RaisesKeeps DEF Fails, ErrorHandlerFails
<1>7. CASE Undoes(u)
  BY <1>0, <1>7, AbortsKeeps DEF Undoes
<1>8. CASE HandlerReturns(u) \/ ErrorHandled(u) \/ ErrorScreenRaises(u)
  <2>1. PICK fn : FunctionReturns(u, fn)
    BY <1>8 DEF HandlerReturns, ErrorHandled, ErrorScreenRaises
  <2> QED
    BY <1>0, <2>1, FunctionReturnsKeeps
<1>9. CASE Finally(u)
  BY <1>0, <1>9, ReleaseKeeps DEF Finally
<1>10. CASE Cancelled(u)
  BY <1>0, <1>1, <1>10, RaisesKeeps, AbortsKeeps DEF Cancelled
<1> QED
  BY <1>2, <1>3, <1>4, <1>5, <1>6, <1>7, <1>8, <1>9, <1>10 DEF Invocation

LEMMA ScopeStep ==
    ASSUME SInv, HInv, [Next]_vars
    PROVE  SInv'
<1>0. Free
  BY HoldingFrees
<1>1. CASE \E u \in Invocations : Invocation(u)
  BY <1>0, <1>1, InvocationKeepsScope
<1>2. CASE GateJoins \/ \E h \in Handlers : PtbErrorEnters(h)
  BY <1>2, Callers, JoinKeeps DEF GateJoins, PtbErrorEnters
<1>3. CASE GateResolves
  BY <1>3, Callers, CallKeeps DEF GateResolves
<1>4. CASE GateDecides \/ GateGivesUp \/ ProcessingEnds
  BY <1>0, <1>4, Callers, ReleaseKeeps DEF GateDecides, GateGivesUp, ProcessingEnds
<1>5. CASE CleansUp
  BY <1>0, <1>5, FinishesKeeps DEF CleansUp
<1>6. CASE UNCHANGED vars
  BY <1>6, ScopeStays DEF vars
<1> QED
  BY <1>1, <1>2, <1>3, <1>4, <1>5, <1>6 DEF Next

LEMMA ScopeInvariant == Spec => [](SInv /\ HInv)
<1>1. Init => SInv
  <2> SUFFICES ASSUME Init
               PROVE  SInv
    OBVIOUS
  <2>1. ScopeInit
    BY DEF Init
  <2>2. Shape
    BY <2>1, ScopeAssumption DEF ScopeInit, Shape
  <2>3. Numbered(made) /\ Cached(cache, made, closed) /\ Owed(cleanups, made) /\ Finishing(made, closed)
    BY <2>1 DEF ScopeInit, Numbered, Cached, Owed, Finishing
  <2>4. ASSUME NEW u \in Users
        PROVE  /\ Stacked(frames[u], u, made)
               /\ Journaled(journal[u], frames[u], u, made)
               /\ Undoing(undoing[u], u, made, cache)
               /\ frames[u] # <<>> => undoing[u] = <<>>
    <3>1. frames[u] = <<>> /\ journal[u] = NoJournal /\ undoing[u] = <<>>
      BY <2>1 DEF ScopeInit
    <3> QED
      BY <3>1, Nothing, NothingJournaled
  <2> QED
    BY <2>2, <2>3, <2>4 DEF SInv
<1> QED
  BY <1>1, ScopeStep, HoldingInvariant, PTL DEF Spec

\* _release, aclose, all_or_nothing, abort: for any providers and any number of
\* invocations, however they overlap, fail, are cancelled and are undone, every generator
\* provider that is up is owed its cleanup once, and a cleanup runs only when nothing
\* that was built on the provider is still up.
THEOREM CleanupsKeepTheirOrder == Spec => []CleanupsInOrder
<1>1. SInv /\ HInv => CleanupsInOrder
  BY HoldingFrees, ShapeSuffices
<1> QED
  BY <1>1, ScopeInvariant, PTL

\* resolve_name, all_or_nothing: nobody works with an instance that was finished, or that
\* its own failed resolution aborted, and the cache offers none, nor one built on such.
THEOREM NothingDeadIsHanded == Spec => []HandedIsLive
<1>1. SInv /\ HInv => HandedIsLive
  BY HoldingFrees, ShapeSuffices
<1> QED
  BY <1>1, ScopeInvariant, PTL

\* What else the state is made of.
Flags ==
    /\ step \in {"gate", "handlers", "closing", "done"}
    /\ {answered, gateOpen, armed} \subseteq BOOLEAN
    /\ UNION {failed, told, escaped} \subseteq Invocations

LEMMA FlagsStep ==
    ASSUME Flags, [Next]_vars
    PROVE  Flags'
<1>0. /\ Press \in BOOLEAN /\ Hooks \subseteq Users
      /\ step \in {"gate", "handlers", "closing", "done"}
      /\ answered \in BOOLEAN /\ gateOpen \in BOOLEAN /\ armed \in BOOLEAN
      /\ failed \subseteq Invocations /\ told \subseteq Invocations /\ escaped \subseteq Invocations
  BY UpdatesAssumption DEF Flags
<1>1. ASSUME NEW u \in Invocations, Invocation(u)
      PROVE  /\ step' = step /\ answered' \in BOOLEAN /\ gateOpen' \in BOOLEAN /\ armed' \in BOOLEAN
             /\ failed' \subseteq Invocations /\ told' \subseteq Invocations
             /\ escaped' \subseteq Invocations
  <2>1. CASE UNCHANGED step /\ UNCHANGED outcome
    BY <1>0, <2>1 DEF outcome
  <2>2. CASE \/ Enters(u) \/ TooLate(u) \/ MiddlewareStops(u) \/ MiddlewareRaises(u) \/ Identifies(u)
             \/ Refused(u) \/ Dropped(u) \/ Admitted(u) \/ Resolves(u) \/ Fails(u) \/ Undoes(u)
             \/ HandlerReturns(u) \/ ResultRaises(u) \/ MiddlewaresReturn(u) \/ Cancelled(u)
    BY <2>1, <2>2 DEF Enters, TooLate, MiddlewareStops, MiddlewareRaises, Identifies, Refused, Dropped,
        Admitted, Resolves, Fails, Undoes, HandlerReturns, ResultRaises, MiddlewaresReturn,
        Cancelled
  <2>3. CASE Expires(u) \/ ResultTaken(u) \/ Finally(u)
    BY <1>0, <2>3 DEF Expires, ResultTaken, Finally
  <2>4. CASE Reports(u) \/ ErrorHandled(u) \/ ErrorHandlerFails(u) \/ ErrorScreenRaises(u)
    BY <1>0, <2>4 DEF Reports, ErrorHandled, ErrorHandlerFails, ErrorScreenRaises
  <2> QED
    BY <1>1, <2>2, <2>3, <2>4 DEF Invocation
<1>2. CASE \E u \in Invocations : Invocation(u)
  BY <1>0, <1>1, <1>2 DEF Flags
<1>3. CASE GateJoins \/ GateResolves \/ \E h \in Handlers : PtbErrorEnters(h)
  BY <1>3 DEF GateJoins, GateResolves, PtbErrorEnters, outcome, Flags
<1>4. CASE GateDecides \/ GateGivesUp
  BY <1>0, <1>4 DEF GateDecides, GateGivesUp, Flags
<1>5. CASE ProcessingEnds \/ CleansUp
  BY <1>0, <1>5 DEF ProcessingEnds, CleansUp, outcome, Flags
<1>6. CASE UNCHANGED vars
  BY <1>6 DEF vars, outcome, Flags
<1> QED
  BY <1>2, <1>3, <1>4, <1>5, <1>6 DEF Next

\* Type correctness of an update and its scope: what is cached and owed was made, out of
\* what was made before it, and no journal outlives the resolution it is kept for.
THEOREM TypeCorrect == Spec => []TypeOK
<1>1. Init => Flags
  BY DEF Init, Flags
<1>2. SInv /\ HInv /\ Flags => TypeOK
  BY HoldingFrees, ShapeSuffices DEF TypeOK, Flags, HInv, Typed, Places
<1> QED
  BY <1>1, <1>2, FlagsStep, ScopeInvariant, PTL DEF Spec

(***************************************************************************)
(* Guards.                                                                 *)
(***************************************************************************)

\* A handler is at work only on what its guards allow, and once the gate is passed.
Guarded ==
    /\ \A h \in Handlers : pc[h] = "handler" => MayPass(h)
    /\ \A h \in Handlers : pc[h] # "idle" => (caller = "banned" => gateOpen)
    /\ step = "handlers" => (caller = "banned" => gateOpen)

\* Where a step takes an invocation, as far as guards go.
LEMMA GuardedMoves ==
    ASSUME Typed, NEW u \in Invocations, Invocation(u)
    PROVE  /\ UNCHANGED <<step, given, gateOpen>>
           /\ pc' = [pc EXCEPT ![u] = pc'[u]]
           /\ pc'[u] = "handler" => pc[u] = "handler" \/ MayPass(u)
           /\ pc[u] = "idle" => pc'[u] = "idle" \/ u \in Hooks \/ step = "handlers"
<1> USE DEF GoesTo
<1>0. pc \in [Invocations -> Places] /\ pc = [pc EXCEPT ![u] = pc[u]]
  BY DEF Typed
<1>1. CASE Enters(u) \/ TooLate(u)
  BY <1>0, <1>1 DEF Enters, TooLate, MyTurn, outcome
<1>2. CASE Admitted(u)
  BY <1>0, <1>2 DEF Admitted, AtCore, outcome
<1>3. CASE Resolves(u) \/ Undoes(u)
  BY <1>0, <1>3 DEF Resolves, Undoes, outcome
<1>4. CASE Expires(u) \/ MiddlewareStops(u) \/ MiddlewareRaises(u) \/ Identifies(u)
  BY <1>0, <1>4 DEF Expires, MiddlewareStops, MiddlewareRaises, Identifies, outcome
<1>5. CASE Refused(u) \/ Dropped(u)
  BY <1>0, <1>5 DEF Refused, Dropped, AtCore, outcome
<1>6. CASE Fails(u) \/ HandlerReturns(u) \/ ResultTaken(u) \/ ResultRaises(u) \/ MiddlewaresReturn(u)
  BY <1>0, <1>6 DEF Fails, HandlerReturns, ResultTaken, ResultRaises, MiddlewaresReturn, outcome
<1>7. CASE Reports(u) \/ ErrorHandled(u) \/ ErrorHandlerFails(u) \/ ErrorScreenRaises(u)
  BY <1>0, <1>7 DEF Reports, ErrorHandled, ErrorHandlerFails, ErrorScreenRaises
<1>8. CASE Finally(u)
  BY <1>0, <1>8 DEF Finally
<1>9. CASE Cancelled(u)
  BY <1>0, <1>9 DEF Cancelled, outcome
<1> QED
  BY <1>1, <1>2, <1>3, <1>4, <1>5, <1>6, <1>7, <1>8, <1>9 DEF Invocation

LEMMA HandlersApart ==
    /\ Handlers \subseteq Invocations /\ Hooks \subseteq Invocations
    /\ Handlers \cap Hooks = {} /\ Gate \notin Handlers \cup Hooks
    /\ Errors \cap (Handlers \cup Hooks) = {}
    /\ {Gate} \cup Errors \subseteq Invocations /\ Gate \notin Errors
    /\ Invocations = Handlers \cup Hooks \cup {Gate} \cup Errors
    /\ \A h \in Handlers : OnError[h] \in Errors
BY UpdatesAssumption DEF Invocations, Errors

LEMMA GuardedStep ==
    ASSUME Typed, Guarded, [Next]_vars
    PROVE  Guarded'
<1> USE DEF GoesTo
<1>0. pc \in [Invocations -> Places]
  BY DEF Typed
<1>1. ASSUME NEW u \in Invocations, Invocation(u)
      PROVE  Guarded'
  <2>1. /\ UNCHANGED <<step, caller, guarded, gateOpen>>
        /\ \A v \in Invocations \ {u} : pc'[v] = pc[v]
        /\ pc'[u] = "handler" => pc[u] = "handler" \/ MayPass(u)
        /\ pc[u] = "idle" => pc'[u] = "idle" \/ u \in Hooks \/ step = "handlers"
    BY <1>0, <1>1, GuardedMoves DEF given
  <2> QED
    BY <2>1, HandlersApart DEF Guarded, MayPass
<1>2. CASE GateJoins \/ GateResolves
  BY <1>0, <1>2, HandlersApart DEF GateJoins, GateResolves, given, outcome, Guarded, MayPass
<1>3. CASE GateDecides
  BY <1>0, <1>3, HandlersApart DEF GateDecides, given, Guarded, MayPass
<1>4. CASE GateGivesUp
  BY <1>0, <1>4, HandlersApart DEF GateGivesUp, given, Guarded, MayPass
<1>5. CASE \E h \in Handlers : PtbErrorEnters(h)
  BY <1>0, <1>5, HandlersApart DEF PtbErrorEnters, given, outcome, Guarded, MayPass
<1>6. CASE ProcessingEnds
  BY <1>6 DEF ProcessingEnds, given, outcome, Guarded, MayPass
<1>7. CASE CleansUp
  <2>1. /\ UNCHANGED <<caller, guarded, gateOpen>> /\ (step' = "handlers" => step = "handlers")
        /\ \A u \in Invocations : pc'[u] = pc[u] \/ (pc[u] = "closing" /\ pc'[u] = "done")
    BY <1>7 DEF CleansUp, given, outcome
  <2> QED
    BY <2>1, HandlersApart DEF Guarded, MayPass
<1>8. CASE UNCHANGED vars
  BY <1>8 DEF vars, given, outcome, Guarded, MayPass
<1> QED
  BY <1>1, <1>2, <1>3, <1>4, <1>5, <1>6, <1>7, <1>8 DEF Next

\* _ban_gate and Dispatch.run: on no path, through a gate that failed, a principal that
\* another invocation resolved, or a middleware, does a guarded handler work for anyone
\* but a known user; and a banned one is let in only by a gate that failed.
THEOREM GuardsAlwaysHold == Spec => []GuardsHold
<1>1. Init => Guarded
  BY HandlersApart DEF Init, Guarded
<1>2. HInv => Typed
  BY DEF HInv
<1>3. Guarded => GuardsHold
  BY DEF Guarded, GuardsHold, MayPass
<1> QED
  BY <1>1, <1>2, <1>3, GuardedStep, HoldingInvariant, PTL DEF Spec

(***************************************************************************)
(* Answers.                                                                *)
(***************************************************************************)

Ended == {"finally", "closing", "cut", "done"}
AtWork == {"middleware", "guard", "handler", "result", "after"}

\* Until the gate is through, nothing else is.
GateFirst ==
    /\ pc[Gate] \in {"idle", "entered", "guard", "error", "done"}
    /\ pc[Gate] \notin {"idle", "done"} => step = "gate"
    /\ step = "gate" => /\ \A h \in Handlers \cup Errors : pc[h] = "idle"
                        /\ failed = {} /\ escaped = {}

\* A failure is told of, or has escaped, before its handler ends; what PTB's error
\* handler is called for is a failure too.
FailuresTold ==
    /\ escaped \subseteq failed /\ failed \subseteq Handlers \cup Errors
    /\ \A h \in failed : /\ pc[h] \in {"on_error"} \cup Ended
                         /\ pc[h] \in Ended => h \in told \cup escaped
    /\ \A h \in Handlers : pc[h] = "on_error" => h \in failed
    /\ \A e \in Errors : /\ pc[e] \in {"idle", "error", "on_error"} \cup Ended
                         /\ pc[e] \in {"on_error"} \cup Ended => e \in failed

\* The answer to a press is the last thing a handler does.
AnsweredLast ==
    Press => \A h \in Handlers : pc[h] \in {"closing", "cut", "done"} => answered

\* When PTB is through with an update, either all handlers have had their turn, and each
\* failure that escaped one was dealt with, or the gate has turned the user away.
AllRan == \A h \in Handlers : Through(h)
TurnedAway ==
    /\ \A h \in Handlers \cup Errors : pc[h] = "idle"
    /\ failed = {} /\ escaped = {} /\ (Press => answered)
HowItEnds == step \in {"closing", "done"} => AllRan \/ TurnedAway

AInv == GateFirst /\ FailuresTold /\ AnsweredLast /\ HowItEnds

\* What an invocation does to its place and to the record of failures, one case for
\* each stage of Dispatch.run.
LEMMA Stages ==
    ASSUME Typed, NEW u \in Invocations, Invocation(u)
    PROVE  /\ UNCHANGED step /\ (answered => answered') /\ pc' = [pc EXCEPT ![u] = pc'[u]]
           /\ \/ UNCHANGED <<pc, failed, told, escaped>>
              \/ u \in Hooks /\ UNCHANGED <<failed, told, escaped>>
              \/ /\ u \in Handlers /\ pc[u] = "idle" /\ pc'[u] \in {"middleware", "late"}
                 /\ step = "handlers" /\ UNCHANGED <<failed, told, escaped>>
              \/ /\ pc[u] \in AtWork /\ pc'[u] \in AtWork \cup {"error", "finally"}
                 /\ u = Gate /\ pc[u] = "guard" => pc'[u] = "error"
                 /\ UNCHANGED <<failed, told, escaped>>
              \/ /\ u \notin Hooks /\ pc[u] = "error" /\ pc'[u] = "on_error" /\ u # Gate
                 /\ failed' = failed \cup {u} /\ UNCHANGED <<told, escaped>>
              \/ /\ u \notin Hooks /\ pc[u] = "on_error" /\ pc'[u] = "finally" /\ UNCHANGED failed
                 /\ \/ told' = told \cup {u} /\ UNCHANGED escaped
                    \/ escaped' = escaped \cup {u} /\ UNCHANGED told
              \/ /\ pc[u] = "finally" /\ pc'[u] \in {"closing", "done"}
                 /\ UNCHANGED <<failed, told, escaped>>
                 /\ Press /\ u \in Handlers => answered'
<1> USE DEF GoesTo
<1>0. pc \in [Invocations -> Places] /\ pc = [pc EXCEPT ![u] = pc[u]]
  BY DEF Typed
<1>1. CASE Enters(u)
  <2>1. u \in Hooks \/ (u \in Handlers /\ step = "handlers")
    BY <1>1 DEF Enters, MyTurn, Handlers, ToSet
  <2> QED
    BY <1>0, <1>1, <2>1 DEF Enters, outcome
<1>10. CASE TooLate(u)
  BY <1>0, <1>10, UpdatesAssumption DEF TooLate, MyTurn, outcome
<1>2. CASE Admitted(u) \/ Refused(u) \/ Dropped(u)
  BY <1>0, <1>2 DEF Admitted, Refused, Dropped, AtCore, outcome, AtWork
<1>3. CASE Resolves(u) \/ Undoes(u)
  BY <1>0, <1>3 DEF Resolves, Undoes, outcome
<1>4. CASE Expires(u) \/ MiddlewareStops(u) \/ MiddlewareRaises(u) \/ Identifies(u)
  BY <1>0, <1>4 DEF Expires, MiddlewareStops, MiddlewareRaises, Identifies, outcome, AtWork
<1>5. CASE Fails(u) \/ HandlerReturns(u) \/ ResultTaken(u) \/ ResultRaises(u) \/ MiddlewaresReturn(u)
  BY <1>0, <1>5 DEF Fails, HandlerReturns, ResultTaken, ResultRaises, MiddlewaresReturn, outcome,
                    AtWork
<1>6. CASE Reports(u)
  BY <1>0, <1>6 DEF Reports
<1>7. CASE ErrorHandled(u) \/ ErrorHandlerFails(u) \/ ErrorScreenRaises(u)
  BY <1>0, <1>7 DEF ErrorHandled, ErrorHandlerFails, ErrorScreenRaises
<1>8. CASE Finally(u)
  BY <1>0, <1>8 DEF Finally
<1>9. CASE Cancelled(u)
  BY <1>0, <1>9 DEF Cancelled, outcome
<1> QED
  BY <1>1, <1>2, <1>3, <1>4, <1>5, <1>6, <1>7, <1>8, <1>9, <1>10 DEF Invocation

LEMMA InvocationKeepsAnswers ==
    ASSUME Typed, AInv, NEW u \in Invocations, Invocation(u)
    PROVE  AInv'
<1>0. /\ pc \in [Invocations -> Places] /\ UNCHANGED step /\ (answered => answered')
      /\ \A v \in Invocations \ {u} : pc'[v] = pc[v]
  BY Stages DEF Typed
<1> USE DEF AInv, GateFirst, FailuresTold, AnsweredLast, HowItEnds, AllRan, TurnedAway,
            Ended, AtWork, Through
<1>1. CASE UNCHANGED <<pc, failed, told, escaped>>
  BY <1>0, <1>1
<1>2. CASE u \in Hooks /\ UNCHANGED <<failed, told, escaped>>
  BY <1>0, <1>2, HandlersApart
<1>3. CASE /\ u \in Handlers /\ pc[u] = "idle" /\ pc'[u] \in {"middleware", "late"}
           /\ step = "handlers" /\ UNCHANGED <<failed, told, escaped>>
  BY <1>0, <1>3, HandlersApart
<1>4. CASE /\ pc[u] \in AtWork /\ pc'[u] \in AtWork \cup {"error", "finally"}
           /\ u = Gate /\ pc[u] = "guard" => pc'[u] = "error"
           /\ UNCHANGED <<failed, told, escaped>>
  BY <1>0, <1>4, HandlersApart
<1>5. CASE /\ u \notin Hooks /\ pc[u] = "error" /\ pc'[u] = "on_error" /\ u # Gate
           /\ failed' = failed \cup {u} /\ UNCHANGED <<told, escaped>>
  BY <1>0, <1>5, HandlersApart
<1>6. CASE /\ u \notin Hooks /\ pc[u] = "on_error" /\ pc'[u] = "finally" /\ UNCHANGED failed
           /\ \/ told' = told \cup {u} /\ UNCHANGED escaped
              \/ escaped' = escaped \cup {u} /\ UNCHANGED told
  <2>1. u \in Handlers \cup Errors /\ ~TurnedAway /\ step # "gate"
    BY <1>6, HandlersApart
  <2>7. GateFirst' /\ AnsweredLast'
    BY <1>0, <1>6, <2>1, HandlersApart
  <2>8. AllRan => AllRan'
    BY <1>0, <1>6, <2>1, HandlersApart
  <2>2. GateFirst' /\ AnsweredLast' /\ HowItEnds'
    BY <1>0, <2>1, <2>7, <2>8
  <2>3. u \in failed
    BY <1>0, <1>6, <2>1, HandlersApart
  <2>4. failed' = failed /\ escaped' \subseteq failed /\ u \in told' \cup escaped'
    BY <1>6, <2>3
  <2>5. \A h \in failed : h # u => (h \in told \cup escaped => h \in told' \cup escaped')
    BY <1>6
  <2>6. FailuresTold'
    BY <1>0, <1>6, <2>1, <2>4, <2>5, HandlersApart
  <2> QED
    BY <2>2, <2>6
<1>7. CASE /\ pc[u] = "finally" /\ pc'[u] \in {"closing", "done"}
           /\ UNCHANGED <<failed, told, escaped>>
           /\ Press /\ u \in Handlers => answered'
  BY <1>0, <1>7, HandlersApart
<1> QED
  BY Stages, <1>1, <1>2, <1>3, <1>4, <1>5, <1>6, <1>7

LEMMA AnswersStep ==
    ASSUME Typed, AInv, [Next]_vars
    PROVE  AInv'
<1> USE DEF GoesTo
<1>0. pc \in [Invocations -> Places]
  BY DEF Typed
<1>1. CASE \E u \in Invocations : Invocation(u)
  BY <1>1, InvocationKeepsAnswers
<1> USE DEF AInv, GateFirst, FailuresTold, AnsweredLast, HowItEnds, AllRan, TurnedAway, Ended,
            Through
<1>2. CASE GateJoins \/ GateResolves
  BY <1>0, <1>2, HandlersApart DEF GateJoins, GateResolves, outcome
<1>3. CASE GateDecides
  BY <1>0, <1>3, HandlersApart DEF GateDecides
<1>4. CASE GateGivesUp
  BY <1>0, <1>4, HandlersApart DEF GateGivesUp
<1>5. ASSUME NEW h \in Handlers, PtbErrorEnters(h)
      PROVE  AInv'
  <2>1. step # "gate" /\ ~AllRan /\ ~TurnedAway
    BY <1>5 DEF PtbErrorEnters
  <2> QED
    BY <1>0, <1>5, <2>1, HandlersApart DEF PtbErrorEnters, outcome
<1>6. CASE ProcessingEnds
  BY <1>0, <1>6, HandlersApart DEF ProcessingEnds, outcome
<1>7. CASE CleansUp
  <2>1. /\ UNCHANGED <<answered, failed, told, escaped>>
        /\ step' = step \/ (step = "closing" /\ step' = "done")
        /\ \A u \in Invocations : pc'[u] = pc[u] \/ (pc[u] = "closing" /\ pc'[u] = "done")
    BY <1>7 DEF CleansUp, outcome
  <2> QED
    BY <2>1, HandlersApart
<1>8. CASE UNCHANGED vars
  BY <1>8 DEF vars, outcome
<1> QED
  BY <1>1, <1>2, <1>3, <1>4, <1>5, <1>6, <1>7, <1>8 DEF Next

LEMMA AnswersSuffice == AInv => UserIsAnswered
<1> SUFFICES ASSUME AInv, step = "done"
             PROVE  /\ Press => answered \/ \A h \in Handlers : pc[h] = "late"
                    /\ \A h \in failed \cap Handlers :
                          h \in told \/ OnError[h] \in told \cup escaped
  BY DEF UserIsAnswered
<1>1. CASE TurnedAway
  BY <1>1 DEF TurnedAway
<1>2. CASE AllRan
  <2>1. Press => answered \/ \A h \in Handlers : pc[h] = "late"
    BY <1>2 DEF AInv, AnsweredLast, AllRan, Through
  <2>2. ASSUME NEW h \in failed \cap Handlers
        PROVE  h \in told \/ OnError[h] \in told \cup escaped
    <3>1. pc[h] = "done" /\ h \in told \cup escaped
      BY <1>2, <2>2 DEF AInv, FailuresTold, AllRan, Through, Ended
    <3>2. h \in escaped => pc[OnError[h]] = "done" /\ OnError[h] \in Errors
      BY <1>2, <2>2, <3>1, HandlersApart DEF AllRan, Through
    <3> QED
      BY <3>1, <3>2 DEF AInv, FailuresTold, Ended
  <2> QED
    BY <2>1, <2>2
<1> QED
  BY <1>1, <1>2 DEF AInv, HowItEnds

\* Dispatch.run, ErrorRegistry.dispatch, _on_ptb_error, ConversationDispatcher._step: for
\* any number of handlers, the press of a button is answered unless all that took it were
\* steps that came too late; and no failure of any handler is kept from the user, unless
\* telling fails in its pipeline and again in the call PTB makes for it.
THEOREM NobodyIsLeftWaiting == Spec => []UserIsAnswered
<1>1. Init => AInv
  BY HandlersApart DEF Init, AInv, GateFirst, FailuresTold, AnsweredLast, HowItEnds, Ended
<1>2. HInv => Typed
  BY DEF HInv
<1> QED
  BY <1>1, <1>2, AnswersStep, AnswersSuffice, HoldingInvariant, PTL DEF Spec
===============================================================================
