-------------------------- MODULE RoutingProperties --------------------------
(***************************************************************************)
(* What the routing of a built bot promises: which handler gets an update, *)
(* and which bots the build refuses.  bot is [hasAuth, flat, entries,      *)
(* raws]; run is the set of updates that the run of the caller takes.      *)
(***************************************************************************)
EXTENDS Inputs, Routing

HandlersOf(bot) == Compile(bot.hasAuth, bot.flat, bot.entries, bot.raws)

\* The numbers of those that get an update; for the conversations, of the entry.
ReceiversOf(bot, update, run, banned) ==
    LET handlers == HandlersOf(bot)
        entry(h) == h.entries[Min({i \in DOMAIN h.entries : Claims(h.entries[i], update)})]
    IN {IF h.kind = "conversations" /\ update \notin run THEN entry(h).id ELSE h.id :
          h \in {handlers[i] : i \in Getting(handlers, update, run, banned)}}

\* What several handlers ahead of it, each narrowed, take between them.
TakenAhead(bot, reg) ==
    LET regs == bot.entries \o bot.flat
        at == CHOOSE i \in DOMAIN regs : regs[i] = reg
    IN UNION {regs[i].when : i \in {j \in 1 .. at - 1 :
                /\ regs[j].kind = reg.kind
                /\ regs[j].on = reg.on
                /\ regs[j].group = reg.group}}

\* A message handler that is tried before a command lets all of its messages through
\* its filters: the edited ones too, if the command wants those.
BehindMessages(bot, reg) ==
    LET regs == bot.entries \o bot.flat
        at == CHOOSE i \in DOMAIN regs : regs[i] = reg
    IN \E i \in DOMAIN regs :
           /\ regs[i].kind = "message" /\ regs[i].group = reg.group
           /\ i < at \/ regs[i].reply
           /\ reg.on \in regs[i].on
           /\ reg.edits => regs[i].edits

\* Two handlers of a command, of which only the one behind wants edited messages.
EditedTwins(bot) ==
    LET regs == bot.entries \o bot.flat
    IN \E i, j \in DOMAIN regs :
           /\ i < j /\ regs[i].kind = "command" /\ regs[j].kind = "command"
           /\ regs[i].on = regs[j].on /\ regs[i].group = regs[j].group
           /\ regs[j].edits /\ ~regs[i].edits

\* What the build accepts gets updates, each command and each callback, but for three
\* cases that escape its check: the group of the ban gate, narrowed handlers that take
\* every press between them, and a command behind a message handler that takes it.
\* What it refuses has one that gets none, but for a command with a twin that the
\* check takes for dead although edited messages would reach it.
RefusesTheDead(bot) ==
    LET checked == {reg \in ToSet(bot.flat \o bot.entries) : reg.kind # "message"}
        alive(reg) == \E u \in Updates : reg.id \in ReceiversOf(bot, u, {}, FALSE)
        escapes(reg) == \/ bot.hasAuth /\ reg.group = Gate.group
                        \/ reg.kind = "callback" /\ reg.when \subseteq TakenAhead(bot, reg)
                        \/ reg.kind = "command" /\ BehindMessages(bot, reg)
    IN IF CheckReachable(bot.flat, bot.entries)
       THEN \A reg \in checked : alive(reg) \/ escapes(reg)
       ELSE (\E reg \in checked : ~alive(reg)) \/ EditedTwins(bot)

\* Every press is answered in group 0, by the catch-all only if nothing else there
\* would have taken it.
PressIsTaken(bot, press, run) ==
    LET handlers == HandlersOf(bot)
        wanted == {i \in DOMAIN handlers : /\ handlers[i].group = 0
                                           /\ handlers[i].kind # "stray"
                                           /\ Takes(handlers[i], press, run)}
        got == {handlers[i].kind : i \in FirstIn(handlers, 0, press, run)}
    IN got # {} /\ ("stray" \in got) = (wanted = {})

\* A reply button is navigation: its handler gets the press whatever the caller's
\* run would take.  Short of one, the run gets what it takes.
NavigationOutranksTheRun(bot, update, run) ==
    LET handlers == HandlersOf(bot)
        first == {handlers[i] : i \in FirstIn(handlers, 0, update, run)}
        buttons == {reg \in ToSet(bot.flat) : reg.reply /\ reg.group = 0 /\ Claims(reg, update)}
    IN /\ buttons # {} => first \subseteq buttons
       /\ (buttons = {} /\ update \in run) => \A h \in first : h.kind = "conversations"

\* A banned user gets nowhere past the gate: only a group before its own is reached.
GateHolds(bot, update, run) ==
    bot.hasAuth =>
        LET handlers == HandlersOf(bot)
        IN \A i \in Getting(handlers, update, run, TRUE) :
             handlers[i].group < Gate.group \/ handlers[i] = Gate

\* The build refuses the handlers that could never run, and no others, but for the
\* cases named with RefusesTheDead.
BuildRefusesTheDead == input.kind = "bot" => RefusesTheDead(input.bot)

\* A press is taken in group 0, by the catch-all when nothing else there would.
EveryPressIsTaken ==
    input.kind = "bot" => \A press \in Presses : PressIsTaken(input.bot, press, input.run)

\* What a banned user sends stops at the gate.  Reply buttons come before the run of
\* the caller, and the run before the rest.
GateThenNavigation ==
    input.kind = "bot" =>
        \A update \in Updates : /\ GateHolds(input.bot, update, input.run)
                                 /\ NavigationOutranksTheRun(input.bot, update, input.run)
=============================================================================
