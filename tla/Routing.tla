------------------------------- MODULE Routing -------------------------------
(***************************************************************************)
(* Routing of vitrine: the handlers a bot is built with, in order (app.py: *)
(* build, _compile, _check_reachable), and who gets an update: PTB hands   *)
(* it to the first that matches in each group, groups in ascending order   *)
(* (external: telegram.ext).                                               *)
(*                                                                         *)
(* A registration is [id, kind, on, when, group, reply, edits]: on is the  *)
(* command or the callback model it is for, and for a message handler the  *)
(* texts and the commands that its filters let through; when is the set of *)
(* payloads it takes, Everything without one; edits, whether it asked for  *)
(* edited messages.  An update is [kind, on, payload, edited], payload     *)
(* being Stale when the data of a press no longer decodes.                 *)
(***************************************************************************)
EXTENDS Integers, Lists

CONSTANTS
    CommandNames,
    Models,       \* of callback data
    Texts,
    Payloads,     \* what the data of a press may decode to
    Stale

ASSUME RoutingAssumption == Stale \notin Payloads /\ Texts \cap CommandNames = {}

Everything == Payloads

Commands == [kind : {"command"}, on : CommandNames, payload : {Stale}, edited : BOOLEAN]
Presses == [kind : {"callback"}, on : Models, payload : Payloads \cup {Stale}, edited : {FALSE}]
Messages == [kind : {"message"}, on : Texts, payload : {Stale}, edited : BOOLEAN]
Updates == Commands \cup Presses \cup Messages

(***************************************************************************)
(* Matching.                                                               *)
(***************************************************************************)

\* ptb_handler: an edited message only goes to who asked for them.  A command is a
\* message too: the filters of a message handler leave them out unless it brings its
\* own.  pattern_for: when narrows what a callback handler takes, but a press whose
\* data no longer decodes is taken, to be answered as expired.
Claims(reg, update) ==
    /\ update.edited => reg.edits
    /\ CASE reg.kind = "command"  -> update.kind = "command" /\ reg.on = update.on
         [] reg.kind = "callback" -> /\ update.kind = "callback" /\ reg.on = update.on
                                     /\ update.payload \in reg.when \cup {Stale}
         [] reg.kind = "message"  -> /\ update.kind \in {"command", "message"}
                                     /\ update.on \in reg.on

\* The handlers that are no registration: the ban gate takes every update, the
\* catch-all every press; the conversations take what an entry or the run takes.
Takes(handler, update, run) ==
    CASE handler.kind = "gate"  -> TRUE
      [] handler.kind = "stray" -> update.kind = "callback"
      [] handler.kind = "conversations" ->
            \/ update \in run
            \/ \E i \in DOMAIN handler.entries : Claims(handler.entries[i], update)
      [] OTHER -> Claims(handler, update)

\* The handler of a group that gets the update, of those in order: its index.
FirstIn(handlers, group, update, run) ==
    LET takers == {i \in DOMAIN handlers :
                      handlers[i].group = group /\ Takes(handlers[i], update, run)}
    IN IF takers = {} THEN {} ELSE {Min(takers)}

\* All that get it, by number.  The ban gate, when it gets a banned user's update,
\* stops the groups after its own.
Getting(handlers, update, run, banned) ==
    LET groups == {handlers[i].group : i \in DOMAIN handlers}
        got(g) == FirstIn(handlers, g, update, run)
        stops(g) == banned /\ \E i \in got(g) : handlers[i].kind = "gate"
    IN UNION {got(g) : g \in {h \in groups : ~\E k \in groups : k < h /\ stops(k)}}

(***************************************************************************)
(* Building.                                                               *)
(***************************************************************************)

Gate == [kind |-> "gate", id |-> 0, group |-> -100]
Stray == [kind |-> "stray", id |-> -1, group |-> 0]
Conversations(entries) ==
    [kind |-> "conversations", id |-> -2, group |-> 0, entries |-> entries]

\* The registrations that are reply buttons, or those that are not, in order.
Where(flat, reply) == Those(flat, {i \in DOMAIN flat : flat[i].reply = reply})

\* Mutant: the reply buttons are left among the other handlers.
CompileUnsorted(hasAuth, flat, entries, raws) ==
    (IF hasAuth THEN <<Gate>> ELSE <<>>)
    \o <<Conversations(entries)>> \o flat \o raws \o <<Stray>>

\* Mutant: the catch-all before the raw handlers.
CompileStrayEarly(hasAuth, flat, entries, raws) ==
    (IF hasAuth THEN <<Gate>> ELSE <<>>)
    \o Where(flat, TRUE)
    \o <<Conversations(entries)>>
    \o Where(flat, FALSE)
    \o <<Stray>> \o raws

\* _compile and build: reply buttons, conversations, the rest, raw handlers and
\* the catch-all; the gate first, if the bot has auth.
Compile(hasAuth, flat, entries, raws) ==
    (IF hasAuth THEN <<Gate>> ELSE <<>>)
    \o Where(flat, TRUE)
    \o <<Conversations(entries)>>
    \o Where(flat, FALSE)
    \o raws \o <<Stray>>

\* Mutant: the flat handlers are taken to come before the entries.
CheckReachableFlatFirst(flat, entries) ==
    LET regs == flat \o entries
    IN \A i, j \in DOMAIN regs :
         (i < j /\ regs[i].kind = regs[j].kind /\ regs[i].group = regs[j].group)
         => \/ regs[i].kind = "message"
            \/ regs[i].on # regs[j].on
            \/ regs[i].kind = "callback" /\ regs[i].when # Everything

\* _check_reachable: no command twice in a group, and no callback handler behind
\* one that takes every press of its model; entries are tried before the rest.
CheckReachable(flat, entries) ==
    LET regs == entries \o flat
    IN \A i, j \in DOMAIN regs :
         (i < j /\ regs[i].kind = regs[j].kind /\ regs[i].group = regs[j].group)
         => \/ regs[i].kind = "message"
            \/ regs[i].on # regs[j].on
            \/ regs[i].kind = "callback" /\ regs[i].when # Everything
=============================================================================
