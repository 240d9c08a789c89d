---------------------------- MODULE DeliveryProofs ----------------------------
(***************************************************************************)
(* Proofs about Delivery, for any screens and any number of deliveries.    *)
(***************************************************************************)
EXTENDS Delivery, TLAPS

USE DEF Messages

Calls == {"edit_text", "edit_media", "edit_again", "send", "send_again"}

LEMMA IdTypes ==
    /\ NoId \notin FileIds
    /\ \A s \in Screens : IsMedia(s) => \A b \in BOOLEAN : [kind |-> s.kind, good |-> b] \in FileIds
    /\ \A i \in FileIds : [i EXCEPT !.good = FALSE] \in FileIds
<1>1. \A s \in Screens : s.kind # "none"
  BY DeliveryAssumption DEF Kinds, Editable
<1>2. \A i \in FileIds : [i EXCEPT !.good = FALSE] \in FileIds
  BY DEF FileIds
<1> QED
  BY <1>1, <1>2 DEF FileIds, NoId, IsMedia

LEMMA InputTypes ==
    ASSUME NEW s \in Screens, cached \in FileIds \cup {NoId}
    PROVE  MediaInput(s) \in FileIds \cup {NoId}
BY IdTypes DEF MediaInput

LEMMA RouteTypes ==
    ASSUME NEW s \in Screens, NEW k
    PROVE  Route(k, s) \in {"edit_text", "edit_media", "send"}
BY DeliveryAssumption DEF Route

LEMMA PrepareTypes ==
    ASSUME TypeOK, NEW t \in Tasks, NEW call \in Calls, NEW s \in Screens,
           NEW id \in FileIds \cup {NoId}, Prepares(t, call, s, id)
    PROVE  /\ pc' \in [Tasks -> Calls \cup {"idle", "delete", "done"}]
           /\ input' \in [Tasks -> FileIds \cup {NoId}]
           /\ uploads' \in [Tasks -> Nat]
<1>1. pc' \in [Tasks -> Calls \cup {"idle", "delete", "done"}]
  BY DEF TypeOK, Prepares, GoesTo, Calls
<1>2. input' \in [Tasks -> FileIds \cup {NoId}]
  BY DEF TypeOK, Prepares
<1>3. uploads' \in [Tasks -> Nat]
  <2>1. uploads \in [Tasks -> Nat]
    BY DEF TypeOK
  <2>2. uploads' \in {uploads, [uploads EXCEPT ![t] = @ + 1]}
    BY DEF Prepares
  <2> QED
    BY <2>1, <2>2
<1> QED
  BY <1>1, <1>2, <1>3

LEMMA EndTypes ==
    ASSUME TypeOK, NEW t \in Tasks, NEW how \in {"ok", "network", "refused", "stale"},
           NEW m \in Messages \cup {NoMessage}, Ends(t, how, m)
    PROVE  /\ pc' \in [Tasks -> Calls \cup {"idle", "delete", "done"}]
           /\ fate' \in [Tasks -> {"none", "ok", "network", "refused", "stale"}]
           /\ result' \in [Tasks -> Messages \cup {NoMessage}]
BY DEF TypeOK, Ends, GoesTo, Calls

LEMMA CacheTypes ==
    ASSUME TypeOK, NEW t \in Tasks
    PROVE  /\ Remembers(t) => cached' \in FileIds \cup {NoId}
           /\ Discards(t) => cached' \in FileIds \cup {NoId}
BY IdTypes DEF TypeOK, Remembers, Discards, Keyed

LEMMA TypeStep ==
    ASSUME TypeOK, [Next]_vars
    PROVE  TypeOK'
<1> USE DEF Calls
<1>a. /\ DOMAIN shown \subseteq Messages /\ \A m \in DOMAIN shown : shown[m] \in Screens
      /\ cached \in FileIds \cup {NoId}
  BY DEF TypeOK
<1>b. ASSUME NEW m \in Messages, NEW s \in Screens
      PROVE  /\ shown' = Show(m, s) => /\ DOMAIN shown' \subseteq Messages
                                       /\ \A n \in DOMAIN shown' : shown'[n] \in Screens
             /\ shown' = Hide(m) => /\ DOMAIN shown' \subseteq Messages
                                    /\ \A n \in DOMAIN shown' : shown'[n] \in Screens
  BY <1>a DEF Show, Hide
<1>1. ASSUME NEW t \in Tasks, NEW s \in Screens, Sends(t, s)
      PROVE  TypeOK'
  BY <1>1, <1>a, InputTypes, PrepareTypes DEF Sends, TypeOK, chat
<1>2. ASSUME NEW t \in Tasks, NEW m \in Messages, NEW s \in Screens, Edits(t, m, s)
      PROVE  TypeOK'
  <2>1. Route(shown[m].kind, s) \in Calls /\ MediaInput(s) \in FileIds \cup {NoId}
    BY <1>a, InputTypes, RouteTypes
  <2>2. Prepares(t, Route(shown[m].kind, s), s, MediaInput(s))
    BY <1>2 DEF Edits
  <2>3. /\ pc' \in [Tasks -> Calls \cup {"idle", "delete", "done"}]
        /\ input' \in [Tasks -> FileIds \cup {NoId}]
        /\ uploads' \in [Tasks -> Nat]
    BY <2>1, <2>2, PrepareTypes
  <2> QED
    BY <1>2, <2>3 DEF Edits, TypeOK, chat
<1>c. ASSUME NEW t \in Tasks, Replaces(t)
      PROVE  /\ pc' \in [Tasks -> Calls \cup {"idle", "delete", "done"}]
             /\ input' \in [Tasks -> FileIds \cup {NoId}]
             /\ uploads' \in [Tasks -> Nat]
  BY <1>c, <1>a, InputTypes, PrepareTypes DEF Replaces, TypeOK
<1>3. ASSUME NEW t \in Tasks, EditDone(t)
      PROVE  TypeOK'
  <2>1. target[t] \in Messages /\ screen[t] \in Screens
    BY <1>3, <1>a DEF EditDone, Accepts, TypeOK
  <2> QED
    BY <1>3, <1>b, <2>1, EndTypes, CacheTypes DEF EditDone, TypeOK
<1>4. ASSUME NEW t \in Tasks, NotModified(t)
      PROVE  TypeOK'
  BY <1>4, EndTypes DEF NotModified, TypeOK, chat
<1>5. ASSUME NEW t \in Tasks, EditRefused(t)
      PROVE  TypeOK'
  BY <1>5, <1>c DEF EditRefused, TypeOK, chat
<1>6. ASSUME NEW t \in Tasks, EditRejected(t)
      PROVE  TypeOK'
  <2>1. screen[t] \in Screens
    BY DEF TypeOK
  <2>2. CASE screen[t].source
    BY <1>6, <2>1, <2>2, PrepareTypes, CacheTypes DEF EditRejected, TypeOK, chat
  <2>3. CASE ~screen[t].source
    BY <1>6, <2>3, <1>c, CacheTypes DEF EditRejected, TypeOK, chat
  <2> QED
    BY <2>2, <2>3
<1>7. ASSUME NEW t \in Tasks, Sent(t)
      PROVE  TypeOK'
  <2>1. screen[t] \in Screens
    BY DEF TypeOK
  <2>2. /\ DOMAIN shown' \subseteq Messages
        /\ \A n \in DOMAIN shown' : shown'[n] \in Screens
        /\ cached' \in FileIds \cup {NoId}
    BY <1>7, <1>b, <2>1, CacheTypes DEF Sent
  <2>3. CASE Replacing(t)
    BY <1>7, <2>2, <2>3 DEF Sent, GoesTo, TypeOK
  <2>4. CASE ~Replacing(t)
    BY <1>7, <2>2, <2>4, EndTypes DEF Sent, TypeOK
  <2> QED
    BY <2>3, <2>4
<1>8. ASSUME NEW t \in Tasks, SendRejected(t)
      PROVE  TypeOK'
  <2>1. screen[t] \in Screens
    BY DEF TypeOK
  <2>2. CASE screen[t].source
    BY <1>8, <2>1, <2>2, PrepareTypes, CacheTypes DEF SendRejected, TypeOK, chat
  <2>3. CASE ~screen[t].source
    BY <1>8, <2>3, EndTypes DEF SendRejected, TypeOK, chat
  <2> QED
    BY <2>2, <2>3
<1>9. ASSUME NEW t \in Tasks, SendRefused(t)
      PROVE  TypeOK'
  BY <1>9, EndTypes DEF SendRefused, TypeOK, chat
<1>10. ASSUME NEW t \in Tasks, CallLost(t)
       PROVE  TypeOK'
  <2>1. screen[t] \in Screens
    BY DEF TypeOK
  <2>2. /\ DOMAIN shown' \subseteq Messages
        /\ \A n \in DOMAIN shown' : shown'[n] \in Screens
    <3>1. CASE shown' = shown
      BY <3>1, <1>a
    <3>2. CASE /\ Accepts(t)
               /\ shown' = Show(IF Editing(t) THEN target[t] ELSE t, screen[t])
      BY <3>2, <1>b, <1>a, <2>1 DEF Accepts
    <3> QED
      BY <1>10, <3>1, <3>2 DEF CallLost
  <2> QED
    BY <1>10, <2>2, EndTypes DEF CallLost, TypeOK
<1>11. ASSUME NEW t \in Tasks, Deletes(t)
       PROVE  TypeOK'
  <2>1. /\ DOMAIN shown' \subseteq Messages
        /\ \A n \in DOMAIN shown' : shown'[n] \in Screens
    BY <1>11, <1>a DEF Deletes, Hide
  <2> QED
    BY <1>11, <2>1, EndTypes DEF Deletes, TypeOK
<1>12. ASSUME NEW m \in Messages, UserDeletes(m)
       PROVE  TypeOK'
  <2>1. /\ DOMAIN shown' \subseteq Messages
        /\ \A n \in DOMAIN shown' : shown'[n] \in Screens
    BY <1>12, <1>a DEF UserDeletes, Hide
  <2> QED
    BY <1>12, <2>1 DEF UserDeletes, TypeOK
<1>13. ASSUME FileIdsExpire
       PROVE  TypeOK'
  <2>1. cached # NoId
    BY <1>13 DEF FileIdsExpire, NoId
  <2>2. cached' \in FileIds \cup {NoId}
    BY <1>13, <1>a, <2>1, IdTypes DEF FileIdsExpire
  <2>3. input' \in [Tasks -> FileIds \cup {NoId}]
    BY <1>13, IdTypes DEF FileIdsExpire, TypeOK
  <2> QED
    BY <1>13, <2>2, <2>3 DEF FileIdsExpire, TypeOK, chat
<1>14. CASE UNCHANGED vars
  BY <1>14 DEF vars, chat, TypeOK
<1> QED
  BY <1>1, <1>2, <1>3, <1>4, <1>5, <1>6, <1>7, <1>8, <1>9, <1>10, <1>11, <1>12, <1>13,
     <1>14 DEF Next, TaskStep

\* Every variable of a delivery keeps its type.
THEOREM TypeCorrect == Spec => []TypeOK
<1>1. Init => TypeOK
  BY DEF Init, TypeOK
<1> QED
  BY <1>1, TypeStep, PTL DEF Spec

(***************************************************************************)
(* The inductive invariant.                                                *)
(***************************************************************************)

\* A task's message is in the chat, or the target of another, only once it was sent.
MessagesAreNew ==
    \A t \in Tasks : (t \in DOMAIN shown \/ \E u \in Tasks : target[u] = t)
                         => pc[t] \in {"delete", "done"}

TasksInOrder ==
    \A t \in Tasks : /\ target[t] # t
                     /\ pc[t] = "idle" => target[t] = NoMessage
                     /\ pc[t] = "delete" => target[t] # NoMessage
                     /\ fate[t] # "none" => pc[t] = "done"
                     /\ fate[t] = "ok" => result[t] \in {t, target[t]} \cap Messages

\* Of the messages in the chat there is one that nobody is about to delete.
OneIsKept ==
    erased = {} => \E m \in DOMAIN shown :
                       \A t \in Tasks : pc[t] = "delete" => target[t] # m

\* Message m shows the screen of t, but for what the user or another task does to it.
Landed(t, m) ==
    \/ m \in DOMAIN shown /\ shown[m] = screen[t]
    \/ m \in erased
    \/ \E u \in Tasks \ {t} : target[u] = m

AllLanded ==
    \A t \in Tasks : /\ fate[t] = "ok" => Landed(t, result[t])
                     /\ pc[t] = "delete" => Landed(t, t)

\* How often a task has handed over the source, by the call it is at and what it hands
\* over there.
Counted(n, call, id, url) ==
    /\ n \in Nat /\ n <= 4 /\ (~url => n <= 2)
    /\ call \in {"idle", "edit_text"} => n = 0
    /\ call = "edit_media" => n <= 1 /\ (id # NoId => n = 0)
    /\ call = "edit_again" => n <= 2 /\ (~url => n <= 1)
    /\ call = "send" => n <= 3 /\ (~url => n <= 2)
    /\ call = "send" /\ id # NoId => n <= 2 /\ (~url => n <= 1)

UploadsCounted ==
    \A t \in Tasks : Counted(uploads[t], pc[t], input[t], screen[t].url)

StaleHasNoSource == \A t \in Tasks : fate[t] = "stale" => ~screen[t].source

DInv == /\ TypeOK /\ MessagesAreNew /\ TasksInOrder /\ OneIsKept /\ AllLanded

\* A message that has landed for u stays so, if all that happens to it is another
\* task's business or the user's.
LEMMA LandedStays ==
    ASSUME NEW u \in Tasks, NEW m, Landed(u, m),
           screen'[u] = screen[u], erased \subseteq erased',
           \A v \in Tasks : target[v] = m => target'[v] = m,
           m \in DOMAIN shown =>
               \/ m \in DOMAIN shown' /\ shown'[m] = shown[m]
               \/ m \in erased'
               \/ \E v \in Tasks \ {u} : target'[v] = m
    PROVE  Landed(u, m)'
BY DEF Landed

LEMMA OthersLanded ==
    ASSUME AllLanded, NEW t \in Tasks,
           \A u \in Tasks \ {t} : fate'[u] = fate[u] /\ result'[u] = result[u] /\ pc'[u] = pc[u],
           \A u \in Tasks \ {t} : \A m \in Messages : Landed(u, m) => Landed(u, m)',
           TasksInOrder,
           fate'[t] = "ok" => Landed(t, result[t])',
           pc'[t] = "delete" => Landed(t, t)'
    PROVE  AllLanded'
<1>2. ASSUME NEW u \in Tasks \ {t}, fate'[u] = "ok"
      PROVE  Landed(u, result[u])'
  <2>1. fate[u] = "ok" /\ result'[u] = result[u] /\ result[u] \in Messages
    BY <1>2 DEF TasksInOrder
  <2>2. PICK m \in Messages : m = result[u]
    BY <2>1
  <2>3. Landed(u, m)
    BY <2>1, <2>2 DEF AllLanded
  <2>4. Landed(u, m)'
    BY <2>3
  <2> QED
    BY <2>1, <2>2, <2>4 DEF Landed
<1>3. ASSUME NEW u \in Tasks \ {t}, pc'[u] = "delete"
      PROVE  Landed(u, u)'
  BY <1>3 DEF AllLanded
<1> QED
  BY <1>2, <1>3 DEF AllLanded

\* What the steps of the calls have in common: the chat stays as it is, and the task
\* goes on to another call or ends without success.
LEMMA QuietStep ==
    ASSUME DInv, NEW t \in Tasks, pc[t] \notin {"idle", "delete", "done"},
           NEW place \in {"send", "edit_again", "send_again", "done"}, GoesTo(t, place),
           NEW how \in {"none", "network", "refused", "stale"},
           fate' = [fate EXCEPT ![t] = how], how # "none" => place = "done",
           \/ result' = result \/ result' = [result EXCEPT ![t] = NoMessage],
           UNCHANGED <<shown, erased, screen, target>>
    PROVE  MessagesAreNew' /\ TasksInOrder' /\ OneIsKept' /\ AllLanded'
<1> USE DEF DInv, TypeOK, GoesTo
<1>1. MessagesAreNew'
  BY DEF MessagesAreNew
<1>2. TasksInOrder'
  BY ZenonT(120) DEF TasksInOrder
<1>3. OneIsKept'
  BY DEF OneIsKept
<1>4. AllLanded'
  <2>1. \A u \in Tasks \ {t} : \A m \in Messages : Landed(u, m) => Landed(u, m)'
    BY DEF Landed
  <2> QED
    BY <2>1, OthersLanded
<1> QED
  BY <1>1, <1>2, <1>3, <1>4

LEMMA ReplaceGoes ==
    ASSUME NEW t \in Tasks, Replaces(t)
    PROVE  GoesTo(t, "send")
BY DEF Replaces, Prepares

LEMMA FateStays ==
    ASSUME DInv, NEW t \in Tasks, pc[t] # "done"
    PROVE  fate[t] = "none" /\ fate = [fate EXCEPT ![t] = "none"]
<1>1. fate[t] = "none"
  BY DEF DInv, TasksInOrder
<1>2. fate \in [Tasks -> {"none", "ok", "network", "refused", "stale"}]
  BY DEF DInv, TypeOK
<1> QED
  BY <1>1, <1>2

LEMMA DInvStep ==
    ASSUME DInv, [Next]_vars
    PROVE  DInv'
<1>0. TypeOK'
  BY TypeStep DEF DInv
<1>t. TypeOK /\ MessagesAreNew /\ TasksInOrder /\ OneIsKept /\ AllLanded
  BY DEF DInv
<1> DEFINE Rest == MessagesAreNew' /\ TasksInOrder' /\ OneIsKept' /\ AllLanded'
<1>1. ASSUME NEW t \in Tasks, NEW s \in Screens, Sends(t, s)
      PROVE  Rest
  <2>1. /\ pc[t] = "idle" /\ pc' = [pc EXCEPT ![t] = "send"]
        /\ screen' = [screen EXCEPT ![t] = s]
        /\ UNCHANGED <<shown, erased, target, fate, result>>
    BY <1>1 DEF Sends, Prepares, GoesTo, chat
  <2>2. MessagesAreNew'
    BY <1>t, <2>1 DEF MessagesAreNew, TypeOK
  <2>3. TasksInOrder'
    BY <1>t, <2>1 DEF TasksInOrder, TypeOK
  <2>4. OneIsKept'
    BY <1>t, <2>1 DEF OneIsKept, TypeOK
  <2>5. AllLanded'
    <3>1. \A u \in Tasks \ {t} : \A m \in Messages : Landed(u, m) => Landed(u, m)'
      BY <1>t, <2>1 DEF Landed, TypeOK
    <3> QED
      BY <1>t, <2>1, <3>1, OthersLanded DEF TasksInOrder, TypeOK
  <2> QED
    BY <2>2, <2>3, <2>4, <2>5
<1>2. ASSUME NEW t \in Tasks, NEW m \in Messages, NEW s \in Screens, Edits(t, m, s)
      PROVE  Rest
  <2>1. PICK place \in {"edit_text", "edit_media", "send"} :
           /\ pc[t] = "idle" /\ pc' = [pc EXCEPT ![t] = place] /\ m \in DOMAIN shown
           /\ screen' = [screen EXCEPT ![t] = s] /\ target' = [target EXCEPT ![t] = m]
           /\ UNCHANGED <<shown, erased, fate, result>>
    BY <1>2, RouteTypes DEF Edits, Prepares, GoesTo, chat
  <2>2. MessagesAreNew'
    BY <1>t, <2>1 DEF MessagesAreNew, TypeOK
  <2>3. TasksInOrder'
    BY <1>t, <2>1 DEF TasksInOrder, MessagesAreNew, TypeOK
  <2>4. OneIsKept'
    BY <1>t, <2>1 DEF OneIsKept, TypeOK
  <2>5. AllLanded'
    <3>1. target[t] = NoMessage /\ target'[t] = m /\ fate'[t] = "none" /\ pc'[t] # "delete"
      BY <1>t, <2>1 DEF TasksInOrder, TypeOK
    <3>2. \A u \in Tasks \ {t} : \A n \in Messages : Landed(u, n) => Landed(u, n)'
      <4>1. SUFFICES ASSUME NEW u \in Tasks \ {t}, NEW n \in Messages, Landed(u, n)
                     PROVE  Landed(u, n)'
        OBVIOUS
      <4>2. \A v \in Tasks : target[v] = n => target'[v] = n
        BY <1>t, <2>1, <3>1, DeliveryAssumption DEF TypeOK
      <4>3. screen'[u] = screen[u]
        BY <1>t, <2>1 DEF TypeOK
      <4> QED
        BY <2>1, <4>1, <4>2, <4>3, LandedStays
    <3> QED
      BY <1>t, <2>1, <3>1, <3>2, OthersLanded DEF TypeOK
  <2> QED
    BY <2>2, <2>3, <2>4, <2>5
\* An edit that is done, or found to be done already.
<1>e. ASSUME NEW t \in Tasks, Editing(t), target[t] \in DOMAIN shown, Ends(t, "ok", target[t]),
             DOMAIN shown' = DOMAIN shown, shown'[target[t]] = screen[t],
             \A m \in DOMAIN shown \ {target[t]} : shown'[m] = shown[m],
             UNCHANGED <<erased, screen, target>>
      PROVE  Rest
  <2>1. /\ pc' = [pc EXCEPT ![t] = "done"] /\ fate' = [fate EXCEPT ![t] = "ok"]
        /\ result' = [result EXCEPT ![t] = target[t]]
        /\ pc[t] \notin {"idle", "delete", "done"} /\ target[t] \in Messages
    BY <1>e, <1>t DEF Ends, GoesTo, Editing, TypeOK
  <2>2. MessagesAreNew'
    BY <1>t, <1>e, <2>1 DEF MessagesAreNew, TypeOK
  <2>3. TasksInOrder'
    BY <1>t, <1>e, <2>1, ZenonT(120) DEF TasksInOrder, TypeOK
  <2>4. OneIsKept'
    BY <1>t, <1>e, <2>1 DEF OneIsKept, TypeOK
  <2>5. AllLanded'
    <3>1. \A u \in Tasks \ {t} : \A m \in Messages : Landed(u, m) => Landed(u, m)'
      BY <1>t, <1>e, LandedStays
    <3>2. Landed(t, result[t])'
      BY <1>t, <1>e, <2>1 DEF Landed, TypeOK
    <3> QED
      BY <1>t, <2>1, <3>1, <3>2, OthersLanded DEF TypeOK
  <2> QED
    BY <2>2, <2>3, <2>4, <2>5
<1>3. ASSUME NEW t \in Tasks, EditDone(t)
      PROVE  Rest
  <2>1. target[t] \in DOMAIN shown /\ shown' = Show(target[t], screen[t])
    BY <1>3 DEF EditDone, Accepts
  <2>2. /\ DOMAIN shown' = DOMAIN shown /\ shown'[target[t]] = screen[t]
        /\ \A m \in DOMAIN shown \ {target[t]} : shown'[m] = shown[m]
    BY <2>1 DEF Show
  <2> QED
    BY <1>3, <1>e, <2>1, <2>2 DEF EditDone
<1>4. ASSUME NEW t \in Tasks, NotModified(t)
      PROVE  Rest
  <2>1. Editing(t)
    BY <1>4 DEF NotModified, Editing
  <2> QED
    BY <1>4, <1>e, <2>1 DEF NotModified, chat
<1>5. ASSUME NEW t \in Tasks, EditRefused(t)
      PROVE  Rest
  <2>1. pc[t] \notin {"idle", "delete", "done"} /\ GoesTo(t, "send")
    BY <1>5, ReplaceGoes DEF EditRefused, Editing
  <2> QED
    BY <1>5, <2>1, FateStays, QuietStep DEF EditRefused, chat
<1>6. ASSUME NEW t \in Tasks, EditRejected(t)
      PROVE  Rest
  <2>1. PICK place \in {"edit_again", "send"} : GoesTo(t, place)
    BY <1>6, ReplaceGoes DEF EditRejected, Prepares
  <2>2. pc[t] \notin {"idle", "delete", "done"}
    BY <1>6 DEF EditRejected
  <2> QED
    BY <1>6, <2>1, <2>2, FateStays, QuietStep, ZenonT(120) DEF EditRejected, chat
<1>7. ASSUME NEW t \in Tasks, Sent(t)
      PROVE  Rest
  <2>1. /\ pc[t] \in {"send", "send_again"} /\ shown' = Show(t, screen[t])
        /\ UNCHANGED <<erased, screen, target>>
    BY <1>7 DEF Sent, Sending
  <2>2. /\ DOMAIN shown' = DOMAIN shown \cup {t} /\ shown'[t] = screen[t]
        /\ \A m \in DOMAIN shown \ {t} : shown'[m] = shown[m]
    BY <2>1 DEF Show
  <2>3. t \notin DOMAIN shown /\ \A u \in Tasks : target[u] # t
    BY <1>t, <2>1 DEF MessagesAreNew
  <2>4. PICK place \in {"delete", "done"} :
           /\ pc' = [pc EXCEPT ![t] = place]
           /\ place = "delete" => target[t] # NoMessage /\ UNCHANGED <<fate, result>>
           /\ place = "done" => /\ fate' = [fate EXCEPT ![t] = "ok"]
                                /\ result' = [result EXCEPT ![t] = t]
    BY <1>7 DEF Sent, Replacing, Ends, GoesTo
  <2>5. MessagesAreNew'
    BY <1>t, <2>1, <2>2, <2>4 DEF MessagesAreNew, TypeOK
  <2>6. TasksInOrder'
    <3>1. fate[t] = "none" /\ pc[t] # "idle"
      BY <1>t, <2>1 DEF TasksInOrder
    <3>2. CASE place = "delete"
      BY <1>t, <2>1, <2>4, <3>1, <3>2 DEF TasksInOrder, TypeOK
    <3>3. CASE place = "done"
      <4>1. /\ pc'[t] = "done" /\ fate'[t] = "ok" /\ result'[t] = t
            /\ \A u \in Tasks \ {t} : pc'[u] = pc[u] /\ fate'[u] = fate[u] /\ result'[u] = result[u]
        BY <1>t, <2>4, <3>3, ZenonT(120) DEF TypeOK
      <4> QED
        BY <1>t, <2>1, <4>1, ZenonT(120) DEF TasksInOrder
    <3> QED
      BY <3>2, <3>3
  <2>7. OneIsKept'
    BY <2>1, <2>2, <2>3 DEF OneIsKept
  <2>8. AllLanded'
    <3>1. \A u \in Tasks \ {t} : \A m \in Messages : Landed(u, m) => Landed(u, m)'
      BY <2>1, <2>2, <2>3, LandedStays
    <3>2. Landed(t, t)'
      BY <2>1, <2>2 DEF Landed
    <3>3. CASE place = "delete"
      BY <1>t, <2>1, <2>4, <3>1, <3>2, <3>3, OthersLanded DEF TasksInOrder, TypeOK
    <3>4. CASE place = "done"
      <4>1. Landed(t, result[t])'
        BY <1>t, <2>2, <2>4, <3>4, <2>1 DEF Landed, TypeOK
      <4> QED
        BY <1>t, <2>4, <3>1, <3>4, <4>1, OthersLanded, ZenonT(60) DEF TypeOK
    <3> QED
      BY <3>3, <3>4
  <2> QED
    BY <2>5, <2>6, <2>7, <2>8
<1>8. ASSUME NEW t \in Tasks, SendRejected(t)
      PROVE  Rest
  <2>1. pc[t] \notin {"idle", "delete", "done"}
    BY <1>8 DEF SendRejected
  <2>2. CASE screen[t].source
    BY <1>8, <2>1, <2>2, FateStays, QuietStep DEF SendRejected, Prepares, chat
  <2>3. CASE ~screen[t].source
    BY <1>8, <2>1, <2>3, QuietStep DEF SendRejected, Ends, chat
  <2> QED
    BY <2>2, <2>3
<1>9. ASSUME NEW t \in Tasks, SendRefused(t)
      PROVE  Rest
  <2>1. pc[t] \notin {"idle", "delete", "done"}
    BY <1>9 DEF SendRefused, Sending
  <2> QED
    BY <1>9, <2>1, QuietStep DEF SendRefused, Ends, chat
<1>10. ASSUME NEW t \in Tasks, CallLost(t)
       PROVE  Rest
  <2> DEFINE m == IF Editing(t) THEN target[t] ELSE t
  <2>1. /\ pc[t] \notin {"idle", "delete", "done"} /\ Ends(t, "network", NoMessage)
        /\ UNCHANGED <<erased, screen, target>>
    BY <1>10 DEF CallLost, Editing, Sending
  <2>2. CASE UNCHANGED shown
    BY <2>1, <2>2, QuietStep DEF Ends
  <2>3. CASE Accepts(t) /\ shown' = Show(m, screen[t])
    <3>1. DOMAIN shown' = DOMAIN shown \cup {m} /\ \A n \in DOMAIN shown \ {m} : shown'[n] = shown[n]
      BY <2>3 DEF Show
    <3>2. /\ pc' = [pc EXCEPT ![t] = "done"] /\ fate' = [fate EXCEPT ![t] = "network"]
          /\ result' = [result EXCEPT ![t] = NoMessage]
      BY <2>1 DEF Ends, GoesTo
    <3>3. m \in DOMAIN shown \/ m = t
      BY <2>3 DEF Accepts
    <3>4. m = target[t] \/ (m = t /\ m \notin DOMAIN shown)
      BY <1>t, <2>1 DEF MessagesAreNew
    <3> HIDE DEF m
    <3>5. MessagesAreNew'
      BY <1>t, <2>1, <3>1, <3>2, <3>3 DEF MessagesAreNew, TypeOK
    <3>6. TasksInOrder'
      BY <1>t, <2>1, <3>2, ZenonT(120) DEF TasksInOrder, TypeOK
    <3>7. OneIsKept'
      BY <1>t, <2>1, <3>1, <3>2 DEF OneIsKept, TypeOK
    <3>8. \A u \in Tasks \ {t} : \A n \in Messages : Landed(u, n) => Landed(u, n)'
      BY <2>1, <3>1, <3>4, LandedStays
    <3>9. AllLanded'
      BY <1>t, <3>2, <3>8, OthersLanded DEF TypeOK
    <3> QED
      BY <3>5, <3>6, <3>7, <3>9
  <2> QED
    BY <1>10, <2>2, <2>3 DEF CallLost
<1>11. ASSUME NEW t \in Tasks, Deletes(t)
       PROVE  Rest
  <2>1. /\ pc[t] = "delete" /\ shown' \in {shown, Hide(target[t])}
        /\ pc' = [pc EXCEPT ![t] = "done"] /\ fate' = [fate EXCEPT ![t] = "ok"]
        /\ result' = [result EXCEPT ![t] = t]
        /\ UNCHANGED <<erased, screen, target>>
    BY <1>11 DEF Deletes, Ends, GoesTo
  <2>2. /\ DOMAIN shown' \subseteq DOMAIN shown
        /\ \A n \in DOMAIN shown \ {target[t]} : n \in DOMAIN shown' /\ shown'[n] = shown[n]
    BY <2>1 DEF Hide
  <2>3. MessagesAreNew'
    BY <1>t, <2>1, <2>2 DEF MessagesAreNew, TypeOK
  <2>4. TasksInOrder'
    BY <1>t, <2>1 DEF TasksInOrder, TypeOK
  <2>5. OneIsKept'
    BY <1>t, <2>1, <2>2 DEF OneIsKept, TypeOK
  <2>6. \A u \in Tasks \ {t} : \A n \in Messages : Landed(u, n) => Landed(u, n)'
    BY <2>1, <2>2, LandedStays
  <2>7. Landed(t, result[t])'
    <3>1. Landed(t, t) /\ (t \in DOMAIN shown => t # target[t])
      BY <1>t, <2>1 DEF AllLanded, TasksInOrder
    <3>2. Landed(t, t)'
      BY <2>1, <2>2, <3>1, LandedStays
    <3>3. result'[t] = t
      BY <1>t, <2>1 DEF TypeOK
    <3> QED
      BY <3>2, <3>3 DEF Landed
  <2>8. AllLanded'
    BY <1>t, <2>1, <2>6, <2>7, OthersLanded DEF TypeOK
  <2> QED
    BY <2>3, <2>4, <2>5, <2>8
<1>12. ASSUME NEW m \in Messages, UserDeletes(m)
       PROVE  Rest
  <2>1. /\ m \in DOMAIN shown /\ erased' = erased \cup {m}
        /\ DOMAIN shown' = DOMAIN shown \ {m} /\ \A n \in DOMAIN shown' : shown'[n] = shown[n]
        /\ UNCHANGED <<pc, screen, target, fate, result>>
    BY <1>12 DEF UserDeletes, Hide
  <2>2. MessagesAreNew' /\ TasksInOrder' /\ OneIsKept'
    BY <1>t, <2>1 DEF MessagesAreNew, TasksInOrder, OneIsKept
  <2>3. \A u \in Tasks : \A n : Landed(u, n) => Landed(u, n)'
    BY <2>1, LandedStays
  <2>4. AllLanded'
    BY <1>t, <2>1, <2>3 DEF AllLanded, Landed
  <2> QED
    BY <2>2, <2>4
<1>13. ASSUME FileIdsExpire \/ UNCHANGED vars
       PROVE  Rest
  <2>1. UNCHANGED <<shown, erased, pc, screen, target, fate, result>>
    BY <1>13 DEF FileIdsExpire, vars, chat
  <2> QED
    BY <1>t, <2>1 DEF MessagesAreNew, TasksInOrder, OneIsKept, AllLanded, Landed
<1> QED
  BY <1>0, <1>1, <1>2, <1>3, <1>4, <1>5, <1>6, <1>7, <1>8, <1>9, <1>10, <1>11, <1>12,
     <1>13 DEF Next, TaskStep, DInv
LEMMA Invariant == Spec => []DInv
<1>1. Init => DInv
  <2>1. SUFFICES ASSUME Init PROVE DInv
    OBVIOUS
  <2>2. TypeOK
    BY <2>1 DEF Init, TypeOK
  <2>3. MessagesAreNew /\ TasksInOrder
    BY <2>1, DeliveryAssumption DEF Init, MessagesAreNew, TasksInOrder
  <2>4. OneIsKept /\ AllLanded
    BY <2>1 DEF Init, OneIsKept, AllLanded
  <2> QED
    BY <2>2, <2>3, <2>4 DEF DInv
<1> QED
  BY <1>1, DInvStep, PTL DEF Spec

\* _replace sends before it deletes, and a delivery deletes no message but its own
\* target: however many deliveries edit, replace and fail at once, the chat is never
\* empty unless the user clears it.
THEOREM UserKeepsAScreen == Spec => []NeverStranded
<1>1. DInv => NeverStranded
  BY DEF DInv, OneIsKept, NeverStranded
<1> QED
  BY <1>1, Invariant, PTL

\* What render or edit returned shows the screen, whatever path the delivery took
\* through edits, refusals, retries and replacements.
THEOREM ReturnedMessageShows == Spec => []OkIsShown
<1>1. DInv => OkIsShown
  BY DEF DInv, AllLanded, Landed, OkIsShown
<1> QED
  BY <1>1, Invariant, PTL

(***************************************************************************)
(* The file_ids.                                                           *)
(***************************************************************************)

LEMMA UploadsStep ==
    ASSUME TypeOK, UploadsCounted, StaleHasNoSource, TasksInOrder, [Next]_vars
    PROVE  UploadsCounted' /\ StaleHasNoSource'
<1> DEFINE Rest == UploadsCounted' /\ StaleHasNoSource'
<1>u. \A t \in Tasks : uploads[t] \in Nat /\ screen[t] \in Screens
  BY DEF TypeOK
\* The next call of t: what it hands over is counted.
<1>a. ASSUME NEW t \in Tasks, NEW next, NEW s, NEW id, Prepares(t, next, s, id),
             screen'[t] = s, \A u \in Tasks \ {t} : screen'[u] = screen[u],
             \/ pc[t] = "idle" /\ next \in {"edit_media", "send"}
             \/ pc[t] = "idle" /\ next = "edit_text" /\ ~IsMedia(s)
             \/ /\ s = screen[t]
                /\ pc[t] \in {"edit_text", "edit_media", "edit_again"} /\ next = "send"
             \/ /\ s = screen[t]
                /\ \/ pc[t] = "edit_media" /\ next = "edit_again"
                   \/ pc[t] = "send" /\ next = "send_again"
                /\ input[t] # NoId \/ s.url
      PROVE  UploadsCounted'
  <2>1. pc'[t] = next /\ input'[t] = id
    BY <1>a DEF Prepares, GoesTo, TypeOK
  <2>2. uploads'[t] \in {uploads[t], uploads[t] + 1}
        /\ (id # NoId \/ ~IsMedia(s) => uploads'[t] = uploads[t])
    BY <1>a DEF Prepares, TypeOK
  <2>3. \A u \in Tasks \ {t} : /\ pc'[u] = pc[u] /\ input'[u] = input[u]
                              /\ uploads'[u] = uploads[u]
    BY <1>a DEF Prepares, GoesTo, TypeOK
  <2>4. Counted(uploads[t], pc[t], input[t], s.url)
    <3>1. CASE pc[t] = "idle"
      <4>1. uploads[t] = 0
        BY <1>u, <3>1 DEF UploadsCounted, Counted
      <4> QED
        BY <3>1, <4>1 DEF Counted
    <3>2. CASE s = screen[t]
      BY <3>2 DEF UploadsCounted
    <3> QED
      BY <1>a, <3>1, <3>2
  <2>5. Counted(uploads'[t], next, id, s.url)
    <3>1. uploads[t] \in Nat
      BY DEF TypeOK
    <3>2. CASE id # NoId \/ ~IsMedia(s)
      BY <1>a, <2>2, <2>4, <3>1, <3>2 DEF Counted
    <3>3. CASE id = NoId /\ IsMedia(s)
      BY <1>a, <2>2, <2>4, <3>1, <3>3 DEF Counted
    <3> QED
      BY <3>2, <3>3
  <2> QED
    BY <1>a, <2>1, <2>3, <2>5 DEF UploadsCounted
\* The delivery is over, or but for the deletion.
<1>b. ASSUME NEW t \in Tasks, NEW place \in {"delete", "done"}, GoesTo(t, place),
             UNCHANGED <<screen, input, uploads>>
      PROVE  UploadsCounted'
  <2>1. pc'[t] = place /\ \A u \in Tasks \ {t} : pc'[u] = pc[u]
    BY <1>b DEF GoesTo, TypeOK
  <2>2. Counted(uploads[t], place, input[t], screen[t].url)
    BY DEF UploadsCounted, Counted
  <2> QED
    BY <1>b, <2>1, <2>2 DEF UploadsCounted
<1>1. ASSUME NEW t \in Tasks, NEW s \in Screens, Sends(t, s)
      PROVE  Rest
  <2>1. UploadsCounted'
    <3>1. /\ Prepares(t, "send", s, MediaInput(s)) /\ pc[t] = "idle"
          /\ screen'[t] = s /\ \A u \in Tasks \ {t} : screen'[u] = screen[u]
      BY <1>1 DEF Sends, TypeOK
    <3> QED
      BY <1>a, <3>1
  <2>2. StaleHasNoSource'
    BY <1>1 DEF Sends, StaleHasNoSource, TasksInOrder, TypeOK
  <2> QED
    BY <2>1, <2>2
<1>2. ASSUME NEW t \in Tasks, NEW m \in Messages, NEW s \in Screens, Edits(t, m, s)
      PROVE  Rest
  <2>1. Route(shown[m].kind, s) = "edit_text" => ~IsMedia(s)
    BY DEF Route, IsMedia
  <2>2. UploadsCounted'
    <3>1. /\ Prepares(t, Route(shown[m].kind, s), s, MediaInput(s)) /\ pc[t] = "idle"
          /\ screen'[t] = s /\ \A u \in Tasks \ {t} : screen'[u] = screen[u]
      BY <1>2 DEF Edits, TypeOK
    <3> QED
      BY <1>a, <2>1, <3>1, RouteTypes
  <2>3. StaleHasNoSource'
    BY <1>2 DEF Edits, StaleHasNoSource, TasksInOrder, TypeOK
  <2> QED
    BY <2>2, <2>3
<1>3. ASSUME NEW t \in Tasks,
             EditDone(t) \/ NotModified(t) \/ SendRefused(t) \/ CallLost(t) \/ Deletes(t)
      PROVE  Rest
  <2>1. PICK how \in {"ok", "refused", "network"} : fate' = [fate EXCEPT ![t] = how]
    BY <1>3 DEF EditDone, NotModified, SendRefused, CallLost, Deletes, Ends
  <2>2. UNCHANGED <<screen, input, uploads>> /\ GoesTo(t, "done")
    BY <1>3 DEF EditDone, NotModified, SendRefused, CallLost, Deletes, Ends
  <2> QED
    BY <1>b, <2>1, <2>2 DEF StaleHasNoSource, TypeOK
<1>4. ASSUME NEW t \in Tasks, EditRefused(t)
      PROVE  Rest
  <2>1. pc[t] \in {"edit_text", "edit_media", "edit_again"} /\ screen' = screen
    BY <1>4 DEF EditRefused, Editing
  <2>2. UploadsCounted'
    BY <1>4, <1>a, <2>1 DEF EditRefused, Replaces
  <2> QED
    BY <1>4, <2>2 DEF EditRefused, StaleHasNoSource
<1>5. ASSUME NEW t \in Tasks, EditRejected(t)
      PROVE  Rest
  <2>1. pc[t] = "edit_media" /\ UNCHANGED <<screen, fate>>
    BY <1>5 DEF EditRejected
  <2>2. input[t] # NoId \/ screen[t].url
    BY <1>5 DEF EditRejected, WrongFile
  <2>3. PICK next \in {"edit_again", "send"} : \E id : Prepares(t, next, screen[t], id)
    BY <1>5 DEF EditRejected, Replaces
  <2>4. UploadsCounted'
    BY <1>a, <2>1, <2>2, <2>3
  <2> QED
    BY <2>1, <2>4 DEF StaleHasNoSource
<1>6. ASSUME NEW t \in Tasks, Sent(t)
      PROVE  Rest
  <2>1. PICK place \in {"delete", "done"} : GoesTo(t, place)
    BY <1>6 DEF Sent, Ends
  <2>2. UploadsCounted'
    BY <1>6, <1>b, <2>1 DEF Sent
  <2>3. screen' = screen /\ (fate' = fate \/ fate' = [fate EXCEPT ![t] = "ok"])
    BY <1>6 DEF Sent, Ends
  <2> QED
    BY <2>2, <2>3 DEF StaleHasNoSource, TypeOK
<1>7. ASSUME NEW t \in Tasks, SendRejected(t)
      PROVE  Rest
  <2>1. pc[t] = "send" /\ screen' = screen
    BY <1>7 DEF SendRejected
  <2>2. CASE screen[t].source
    <3>1. input[t] # NoId \/ screen[t].url
      BY <1>7 DEF SendRejected, WrongFile
    <3>2. Prepares(t, "send_again", screen[t], NoId) /\ fate' = fate
      BY <1>7, <2>2 DEF SendRejected
    <3>3. UploadsCounted'
      BY <1>a, <2>1, <3>1, <3>2
    <3> QED
      BY <2>1, <3>2, <3>3 DEF StaleHasNoSource
  <2>3. CASE ~screen[t].source
    <3>1. UploadsCounted'
      BY <1>7, <1>b, <2>3 DEF SendRejected, Ends
    <3>2. fate' = [fate EXCEPT ![t] = "stale"] /\ screen' = screen
      BY <1>7, <2>3 DEF SendRejected, Ends
    <3> QED
      BY <2>3, <3>1, <3>2 DEF StaleHasNoSource, TypeOK
  <2> QED
    BY <2>2, <2>3
<1>8. ASSUME FileIdsExpire
      PROVE  Rest
  <2>1. \A t \in Tasks : input'[t] = NoId <=> input[t] = NoId
    BY <1>8, IdTypes DEF FileIdsExpire, TypeOK
  <2> QED
    BY <1>8, <2>1 DEF FileIdsExpire, UploadsCounted, Counted, StaleHasNoSource
<1>9. ASSUME (\E m \in Messages : UserDeletes(m)) \/ UNCHANGED vars
      PROVE  Rest
  <2>1. UNCHANGED <<pc, input, uploads, fate, screen>>
    BY <1>9 DEF UserDeletes, vars
  <2> QED
    BY <2>1 DEF UploadsCounted, StaleHasNoSource
<1> QED
  BY <1>1, <1>2, <1>3, <1>4, <1>5, <1>6, <1>7, <1>8, <1>9 DEF Next, TaskStep

\* _send_media and _edit_media: a rejected file_id is forgotten and the source handed
\* over instead, so an expired one fails no delivery; and no delivery, with its edit,
\* its retries and its replacement, hands over the source for more than two messages,
\* once for each, or twice where the source is a URL that Telegram refuses.
THEOREM ExpiredIdsDoNoHarm == Spec => []StaleIdsHeal
<1>1. Init => UploadsCounted /\ StaleHasNoSource
  <2>1. SUFFICES ASSUME Init, NEW t \in Tasks
                 PROVE  /\ Counted(uploads[t], pc[t], input[t], screen[t].url)
                        /\ fate[t] = "none"
    BY DEF UploadsCounted, StaleHasNoSource
  <2>2. uploads[t] = 0 /\ pc[t] = "idle" /\ fate[t] = "none"
    BY <2>1 DEF Init
  <2> QED
    BY <2>2 DEF Counted
<1>2. DInv /\ UploadsCounted /\ StaleHasNoSource /\ [Next]_vars
         => UploadsCounted' /\ StaleHasNoSource'
  BY UploadsStep DEF DInv
<1>3. UploadsCounted /\ StaleHasNoSource => StaleIdsHeal
  <2>1. SUFFICES ASSUME UploadsCounted, StaleHasNoSource, NEW t \in Tasks
                 PROVE  /\ fate[t] = "stale" => ~screen[t].source
                        /\ uploads[t] <= 2 * PerMessage(screen[t])
    BY DEF StaleIdsHeal
  <2>2. Counted(uploads[t], pc[t], input[t], screen[t].url)
    BY <2>1 DEF UploadsCounted
  <2> QED
    BY <2>1, <2>2 DEF Counted, StaleHasNoSource, PerMessage
<1> QED
  BY <1>1, <1>2, <1>3, Invariant, PTL DEF Spec
===============================================================================
