------------------------ MODULE DeclarationProperties ------------------------
(***************************************************************************)
(* What the declarations of an author come to: who sees which command, and *)
(* in which order the steps of a conversation are tried.                   *)
(***************************************************************************)
EXTENDS Inputs, CommandScopes, ConversationBuild, FiniteSets

(***************************************************************************)
(* Who sees which commands.                                                *)
(***************************************************************************)

\* With scope_chats, the menu of a chat is what /help lists there, in that order.
MenuIsWhatHelpLists(regs, scopeChats, chat) ==
    DOMAIN scopeChats # {} =>
        MenuIn(chat, regs, scopeChats)
        = HelpLists(regs, VisibleScopes(chat, scopeChats, regs, {}))

\* /help <name> knows a command exactly if /help lists it; a hidden one, or one of
\* a foreign scope, is like one that does not exist.
HelpShowsOnlyWhatItLists(regs, scopeChats, chat, member) ==
    LET visible == VisibleScopes(chat, scopeChats, regs, member)
    IN \A name \in {r.command : r \in ToSet(regs)} :
         /\ ResolveCommand(regs, visible, name)
            = {r \in ToSet(HelpLists(regs, visible)) : r.command = name}
         /\ Cardinality(ResolveCommand(regs, visible, name)) <= 1
         /\ \A r \in ResolveCommand(regs, visible, name) :
               ~r.hidden /\ r.scope \in visible

(***************************************************************************)
(* Conversations.                                                          *)
(***************************************************************************)

\* The first of a list that is wanted.
Earliest(list, wanted) ==
    LET is == {i \in DOMAIN list : list[i] \in wanted}
    IN IF is = {} THEN {} ELSE {list[Min(is)]}

\* In a run, an update goes to the first step declared for the state, or for every
\* state, that takes it; then to a cancel command, then to an entry of any
\* conversation.  Nothing else gets in between, whatever the order of declaration.
\* flows has the steps of each conversation as they were declared; f is the run's.
StepsAsDeclared(flows, f, state, update) ==
    LET built == [g \in 1 .. Len(flows) |-> Build(flows[g])]
        all == FlattenSeq(flows)
        takers == {s \in ToSet(all) : update \in s.on}
        ofState == {s \in takers : {state, AnyState} \cap ToSet(s.states) # {}}
        cancels == {s \in takers : s.fallback}
        entries == {s \in takers : IsEntry(s)}
        declared == <<Earliest(flows[f], ofState), Earliest(flows[f], cancels),
                      Earliest(all, entries)>>
    IN ((\A g \in DOMAIN built : built[g].ok) /\ state \in StateNames(flows[f])) =>
         CheckUpdate(built, [flow |-> f, state |-> state], update)
         = UNION Earliest(declared, ToSet(declared) \ {{}})

\* The menu of a chat and /help in that chat agree, and /help <command> gives away no
\* command that /help does not list.
HelpAgreesWithMenus ==
    input.kind = "menu" =>
        /\ HelpShowsOnlyWhatItLists(input.regs, input.scopeChats, input.chat, input.member)
        /\ CheckScopes(input.regs, input.scopeChats) =>
              MenuIsWhatHelpLists(input.regs, input.scopeChats, input.chat)

\* Whatever the order of their declarations, the steps of a run's state come first,
\* its cancel commands next, entries last.
StepsAreTriedAsDeclared ==
    input.kind = "conversation" =>
        \A f \in DOMAIN input.flows :
            \A state \in StateNames(input.flows[f]),
               update \in UNION {s.on : s \in ToSet(FlattenSeq(input.flows))} :
                StepsAsDeclared(input.flows, f, state, update)
=============================================================================
