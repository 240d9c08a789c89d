---------------------------- MODULE CommandScopes ----------------------------
(***************************************************************************)
(* Who sees which commands of vitrine: the menu of a chat and /help        *)
(* (commands.py: menu_commands, help_screen, resolve_command,              *)
(* _desired_menus; app.py: _check_scopes, _visible_scopes, /help).         *)
(*                                                                         *)
(* A registration is [id, kind, command, scope, hidden].  scopeChats maps  *)
(* scopes to sequences of chats (a resolver may list one twice); it does   *)
(* not name DefaultScope, which Bot refuses.  Names and scopes are         *)
(* compared, never spelled out.                                            *)
(***************************************************************************)
EXTENDS Integers, Lists

CONSTANTS
    Sorted,           \* all scopes, in the order of sorted()
    DefaultScope      \* "default"

ASSUME ScopesAssumption ==
    /\ Sorted \in Seq(ToSet(Sorted))
    /\ IsInjective(Sorted)
    /\ DefaultScope \in ToSet(Sorted)

\* menu_commands: the commands in order, hidden ones and repeated names left out.
MenuCommands(regs) ==
    LET shown == {i \in DOMAIN regs : regs[i].kind = "command" /\ ~regs[i].hidden}
        kept == {i \in shown :
                   \A j \in shown : j < i => regs[j].command # regs[i].command}
    IN Those(regs, kept)

OfScope(regs, scope) ==
    LET menu == MenuCommands(regs)
    IN Those(menu, {i \in DOMAIN menu : menu[i].scope = scope})

\* Scopes in sorted order, the commands of each.
ByScope(regs, scopes) ==
    FlattenSeq([n \in 1 .. Len(Sorted) |->
        IF Sorted[n] \in scopes THEN OfScope(regs, Sorted[n]) ELSE <<>>])

(***************************************************************************)
(* The menus.                                                              *)
(***************************************************************************)

\* The scopes that name a chat.
ScopesNaming(chat, scopeChats) ==
    {s \in DOMAIN scopeChats : chat \in ToSet(scopeChats[s])}

\* Mutant: only the first scope that names a chat counts.
DesiredMenusFirstScope(regs, scopeChats) ==
    [chat \in UNION {ToSet(scopeChats[s]) : s \in DOMAIN scopeChats} |->
        OfScope(regs, DefaultScope)
        \o LET named == {n \in DOMAIN Sorted : Sorted[n] \in ScopesNaming(chat, scopeChats)}
           IN OfScope(regs, Sorted[Min(named)])]

\* _desired_menus: one menu per chat that a scope names, merged from all of them;
\* a chat in no scope has the default menu, which is OfScope(_, DefaultScope).
DesiredMenus(regs, scopeChats) ==
    [chat \in UNION {ToSet(scopeChats[s]) : s \in DOMAIN scopeChats} |->
        OfScope(regs, DefaultScope) \o ByScope(regs, ScopesNaming(chat, scopeChats))]

\* What Telegram shows in a chat: its own menu, else the default one (external).
MenuIn(chat, regs, scopeChats) ==
    LET menus == DesiredMenus(regs, scopeChats)
    IN IF chat \in DOMAIN menus THEN menus[chat] ELSE OfScope(regs, DefaultScope)

(***************************************************************************)
(* /help.                                                                  *)
(***************************************************************************)

\* _visible_scopes: with scope_chats, the scopes that name the chat; else what
\* scope_member says of the caller, or every scope for an admin.
VisibleScopes(chat, scopeChats, regs, member) ==
    {DefaultScope} \cup
    (IF DOMAIN scopeChats # {} THEN ScopesNaming(chat, scopeChats)
     ELSE {s \in {r.scope : r \in {q \in ToSet(regs) : q.kind = "command"}} : s \in member})

\* help_screen: the default scope first, then the others in order.
HelpLists(regs, visible) ==
    OfScope(regs, DefaultScope) \o ByScope(regs, visible \ {DefaultScope})

\* resolve_command: the command /help <name> shows in full, if the caller sees it.
ResolveCommand(regs, visible, name) ==
    {r \in ToSet(MenuCommands(regs)) : r.command = name /\ r.scope \in visible}

\* _check_scopes: the build fails on a scope that scope_chats does not know.
CheckScopes(regs, scopeChats) ==
    DOMAIN scopeChats = {} \/
    \A r \in ToSet(MenuCommands(regs)) :
        r.scope = DefaultScope \/ r.scope \in DOMAIN scopeChats
=============================================================================
