------------------------------- MODULE Delivery -------------------------------
(***************************************************************************)
(* Delivery of screens in vitrine (screens.py: Delivery; media.py: the     *)
(* file_id cache).  A task delivers one screen to one chat: it sends it,   *)
(* edits a message into it, or, when Telegram cannot edit, replaces the    *)
(* message: the new one is sent first, then the old one deleted.  Tasks    *)
(* (handlers, timeout hooks, workers) share the chat and the cache.        *)
(*                                                                         *)
(* External is Telegram: a call is done, or refused (BadRequest), or fails *)
(* in the network, done or not.  A message is shown with its screen until  *)
(* it is deleted.  Files are known by file_ids, which may expire, and one  *)
(* of a photo is no good for a document.                                   *)
(***************************************************************************)
EXTENDS Naturals

CONSTANTS
    Tasks,        \* each also stands for the message it sends
    Old,          \* the message there is
    NoMessage,
    Screens       \* [kind, reply, given, source, url]: reply, it has a reply keyboard;
                  \* given, its media has a file_id; source, it has a source; url, that
                  \* is a URL, not bytes or a path

Messages == Tasks \cup {Old}
Editable == {"photo", "video", "animation", "document", "audio"}
Kinds == Editable \cup {"voice", "video_note", "sticker", "text"}

ASSUME DeliveryAssumption ==
    /\ Old \notin Tasks /\ NoMessage \notin Messages
    /\ Screens \subseteq [kind : Kinds, reply : BOOLEAN, given : BOOLEAN, source : BOOLEAN,
                          url : BOOLEAN]
    /\ \A s \in Screens : /\ s.kind # "text" => s.given \/ s.source
                          /\ s.url => s.source

\* A file_id is of a kind, and good or not; all sources that are cached are one file.
FileIds == [kind : {s.kind : s \in Screens} \ {"text"}, good : BOOLEAN]
NoId == [kind |-> "none", good |-> FALSE]

VARIABLES
    shown,        \* message -> the screen it shows, over those in the chat
    erased,       \* messages the user deleted
    cached,       \* the file_id the cache has for the source
    pc,           \* the call a task is at
    screen, target, \* what it delivers, and the message it is to edit
    input,        \* the file_id it hands to Telegram, or NoId for the source itself
    fate,         \* how it ended: ok, network, refused, stale
    result,       \* the message it returns
    uploads       \* how often it handed the source to Telegram

chat == <<shown, erased>>
vars == <<chat, cached, pc, screen, target, input, fate, result, uploads>>

Init ==
    /\ \E s \in Screens : shown = [m \in {Old} |-> s]
    /\ erased = {}
    /\ cached \in FileIds \cup {NoId}
    /\ pc = [t \in Tasks |-> "idle"]
    /\ screen = [t \in Tasks |-> CHOOSE s \in Screens : TRUE]
    /\ target = [t \in Tasks |-> NoMessage]
    /\ input = [t \in Tasks |-> NoId]
    /\ fate = [t \in Tasks |-> "none"]
    /\ result = [t \in Tasks |-> NoMessage]
    /\ uploads = [t \in Tasks |-> 0]

IsMedia(s) == s.kind # "text"
Show(m, s) == [n \in DOMAIN shown \cup {m} |-> IF n = m THEN s ELSE shown[n]]
Hide(m) == [n \in DOMAIN shown \ {m} |-> shown[n]]

GoesTo(t, place) == pc' = [pc EXCEPT ![t] = place]
Ends(t, how, message) ==
    /\ GoesTo(t, "done")
    /\ fate' = [fate EXCEPT ![t] = how]
    /\ result' = [result EXCEPT ![t] = message]

\* _media_input: the file_id that was given, else the cached one, else the source.
MediaInput(s) ==
    IF ~IsMedia(s) THEN NoId
    ELSE IF s.given THEN [kind |-> s.kind, good |-> TRUE] ELSE cached

\* The next call is this one, with its input (_media_input, or _fresh_bytes).
Prepares(t, call, s, id) ==
    /\ GoesTo(t, call)
    /\ input' = [input EXCEPT ![t] = id]
    /\ uploads' = IF IsMedia(s) /\ id = NoId THEN [uploads EXCEPT ![t] = @ + 1] ELSE uploads

\* A file_id that was given is remembered nowhere (its key is None).
Keyed(t) == IsMedia(screen[t]) /\ ~screen[t].given

\* _remember: the file_id of the message that came back.
Remembers(t) ==
    cached' = IF Keyed(t) THEN [kind |-> screen[t].kind, good |-> TRUE] ELSE cached

Discards(t) == cached' = IF Keyed(t) THEN NoId ELSE cached

(***************************************************************************)
(* What is delivered, and how.                                             *)
(***************************************************************************)

\* render without a message, fresh=True, or send.
Sends(t, s) ==
    /\ pc[t] = "idle"
    /\ screen' = [screen EXCEPT ![t] = s]
    /\ Prepares(t, "send", s, MediaInput(s))
    /\ UNCHANGED <<chat, cached, target, fate, result>>

\* How a message of some kind becomes a screen.
Route(kind, s) ==
    CASE s.reply -> "send"
      [] ~s.reply /\ {kind, s.kind} = {"text"} -> "edit_text"
      [] ~s.reply /\ {kind, s.kind} \subseteq Editable -> "edit_media"
      [] OTHER -> "send"

\* edit, of a message as it is when the update comes.
Edits(t, m, s) ==
    /\ pc[t] = "idle" /\ m \in DOMAIN shown
    /\ target' = [target EXCEPT ![t] = m]
    /\ screen' = [screen EXCEPT ![t] = s]
    /\ Prepares(t, Route(shown[m].kind, s), s, MediaInput(s))
    /\ UNCHANGED <<chat, cached, fate, result>>

Replacing(t) == target[t] # NoMessage

\* _replace: it is sent like any other, and then the old message is deleted.
Replaces(t) == Prepares(t, "send", screen[t], MediaInput(screen[t]))

(***************************************************************************)
(* The edits.                                                              *)
(***************************************************************************)

Editing(t) == pc[t] \in {"edit_text", "edit_media", "edit_again"}

\* Telegram takes it: the message is there, of the right sort, and the file is good.
Accepts(t) ==
    /\ input[t] # NoId => input[t].good /\ input[t].kind = screen[t].kind
    /\ Editing(t) => /\ target[t] \in DOMAIN shown
                     /\ shown[target[t]].kind \in
                           IF pc[t] = "edit_text" THEN {"text"} ELSE Editable \cup {"text"}

EditDone(t) ==
    /\ Editing(t) /\ Accepts(t)
    /\ shown' = Show(target[t], screen[t])
    /\ Remembers(t)
    /\ Ends(t, "ok", target[t])
    /\ UNCHANGED <<erased, screen, target, input, uploads>>

\* Mutant: whatever is wrong with the edit counts as not modified.
NotModifiedOrRefused(t) ==
    /\ pc[t] \in {"edit_text", "edit_media"}
    /\ Ends(t, "ok", target[t])
    /\ UNCHANGED <<chat, cached, screen, target, input, uploads>>

\* "Message is not modified" is swallowed at the first attempt.
NotModified(t) ==
    /\ pc[t] \in {"edit_text", "edit_media"}
    /\ target[t] \in DOMAIN shown /\ shown[target[t]] = screen[t]
    /\ Ends(t, "ok", target[t])
    /\ UNCHANGED <<chat, cached, screen, target, input, uploads>>

\* A BadRequest that is neither that nor a bad file_id, or any at the second attempt.
EditRefused(t) ==
    /\ Editing(t) /\ Replaces(t)
    /\ UNCHANGED <<chat, cached, screen, target, fate, result>>

\* _is_bad_file_id: what Telegram says of a file_id that is no good, and of a URL that
\* it cannot make a file of ("Wrong file identifier/HTTP URL specified").
WrongFile(t) ==
    IF input[t] = NoId THEN screen[t].url ELSE ~input[t].good \/ screen[t].given

\* It says so: discard, and try once more with the source, be it the same again.
EditRejected(t) ==
    /\ pc[t] = "edit_media" /\ WrongFile(t)
    /\ Discards(t)
    /\ IF screen[t].source THEN Prepares(t, "edit_again", screen[t], NoId)
       ELSE Replaces(t)
    /\ UNCHANGED <<chat, screen, target, fate, result>>

(***************************************************************************)
(* The sends.                                                              *)
(***************************************************************************)

Sending(t) == pc[t] \in {"send", "send_again"}

\* Mutant: the old message is deleted before the new one is sent.
SentLast(t) ==
    /\ Sending(t) /\ Accepts(t)
    /\ shown' = IF Replacing(t) /\ target[t] \in DOMAIN shown /\ pc[t] = "send"
                THEN Hide(target[t]) ELSE Show(t, screen[t])
    /\ Remembers(t)
    /\ result' = [result EXCEPT ![t] = t]
    /\ IF Replacing(t) /\ target[t] \in DOMAIN shown /\ pc[t] = "send"
       THEN GoesTo(t, "send_again") /\ UNCHANGED fate
       ELSE GoesTo(t, "done") /\ fate' = [fate EXCEPT ![t] = "ok"]
    /\ UNCHANGED <<erased, screen, target, input, uploads>>

Sent(t) ==
    /\ Sending(t) /\ Accepts(t)
    /\ shown' = Show(t, screen[t])
    /\ Remembers(t)
    /\ IF Replacing(t)
       THEN GoesTo(t, "delete") /\ UNCHANGED <<fate, result>>
       ELSE Ends(t, "ok", t)
    /\ UNCHANGED <<erased, screen, target, input, uploads>>

\* Mutant: a rejected file is like any other refusal.
SendRejectedOnce(t) ==
    /\ pc[t] = "send" /\ WrongFile(t)
    /\ Ends(t, "stale", NoMessage)
    /\ UNCHANGED <<chat, cached, screen, target, input, uploads>>

\* The file is rejected: discard, and send once more, the source this time.
SendRejected(t) ==
    /\ pc[t] = "send" /\ WrongFile(t)
    /\ IF screen[t].source
       THEN /\ Discards(t) /\ Prepares(t, "send_again", screen[t], NoId)
            /\ UNCHANGED <<fate, result>>
       ELSE Ends(t, "stale", NoMessage) /\ UNCHANGED <<cached, input, uploads>>
    /\ UNCHANGED <<chat, screen, target>>

\* Any other BadRequest, a file_id of the wrong kind among them, is raised.
SendRefused(t) ==
    /\ Sending(t)
    /\ Ends(t, "refused", NoMessage)
    /\ UNCHANGED <<chat, cached, screen, target, input, uploads>>

\* The answer to a call is lost, or never comes; Telegram may have done it.
CallLost(t) ==
    /\ Editing(t) \/ Sending(t)
    /\ shown' \in {shown} \cup (IF Accepts(t)
                                THEN {Show(IF Editing(t) THEN target[t] ELSE t, screen[t])}
                                ELSE {})
    /\ Ends(t, "network", NoMessage)
    /\ UNCHANGED <<erased, cached, screen, target, input, uploads>>

\* The old message is deleted, or not, and that is only logged.
Deletes(t) ==
    /\ pc[t] = "delete"
    /\ shown' \in {shown, Hide(target[t])}
    /\ Ends(t, "ok", t)
    /\ UNCHANGED <<erased, cached, screen, target, input, uploads>>

(***************************************************************************)
(* Telegram and the user, and the whole.                                   *)
(***************************************************************************)

UserDeletes(m) ==
    /\ m \in DOMAIN shown
    /\ shown' = Hide(m) /\ erased' = erased \cup {m}
    /\ UNCHANGED <<cached, pc, screen, target, input, fate, result, uploads>>

\* Telegram no longer knows the file_ids it gave out for the source.
FileIdsExpire ==
    /\ cached.good
    /\ cached' = [cached EXCEPT !.good = FALSE]
    /\ input' = [t \in Tasks |-> IF input[t] # NoId THEN [input[t] EXCEPT !.good = FALSE]
                                 ELSE NoId]
    /\ UNCHANGED <<chat, pc, screen, target, fate, result, uploads>>

TaskStep(t) ==
    \/ \E s \in Screens : Sends(t, s) \/ \E m \in Messages : Edits(t, m, s)
    \/ EditDone(t) \/ NotModified(t) \/ EditRefused(t) \/ EditRejected(t)
    \/ Sent(t) \/ SendRejected(t) \/ SendRefused(t) \/ CallLost(t) \/ Deletes(t)

Next ==
    \/ \E t \in Tasks : TaskStep(t)
    \/ \E m \in Messages : UserDeletes(m)
    \/ FileIdsExpire

Spec == Init /\ [][Next]_vars

(***************************************************************************)
(* Properties.                                                             *)
(***************************************************************************)

TypeOK ==
    /\ DOMAIN shown \subseteq Messages
    /\ \A m \in DOMAIN shown : shown[m] \in Screens
    /\ erased \subseteq Messages
    /\ cached \in FileIds \cup {NoId}
    /\ pc \in [Tasks -> {"idle", "edit_text", "edit_media", "edit_again", "send",
                         "send_again", "delete", "done"}]
    /\ screen \in [Tasks -> Screens]
    /\ target \in [Tasks -> Messages \cup {NoMessage}]
    /\ input \in [Tasks -> FileIds \cup {NoId}]
    /\ fate \in [Tasks -> {"none", "ok", "network", "refused", "stale"}]
    /\ result \in [Tasks -> Messages \cup {NoMessage}]
    /\ uploads \in [Tasks -> Nat]

\* "A failure never strands the user" (screens.py:18): of all that is delivered at
\* once, edited, replaced, refused and lost, something is always left in the chat,
\* unless the user clears it.
NeverStranded == erased # {} \/ DOMAIN shown # {}

\* What render returns is a message in the chat that shows the screen, unless another
\* task had the same message or the user deleted it.
OkIsShown ==
    \A t \in Tasks : fate[t] = "ok" =>
        \/ result[t] \in DOMAIN shown /\ shown[result[t]] = screen[t]
        \/ result[t] \in erased
        \/ \E u \in Tasks \ {t} : target[u] = result[t]

\* How often the source is handed over for one message: _is_bad_file_id cannot tell a
\* URL that was refused from a file_id.
PerMessage(s) == IF s.url THEN 2 ELSE 1

\* A file_id that expired costs an upload, never the delivery; and however often a
\* delivery is refused, it hands over the source for two messages at most, the edit and
\* the one that replaces it: once for each, and a refused URL once more.
StaleIdsHeal ==
    \A t \in Tasks : /\ fate[t] = "stale" => ~screen[t].source
                     /\ uploads[t] <= 2 * PerMessage(screen[t])
===============================================================================
