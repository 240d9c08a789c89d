---------------------------- MODULE MCBotLifecycle ----------------------------
(* Small instances of BotLifecycle for TLC.                                 *)
EXTENDS BotLifecycle

\* Every router holds a handler.
MCOn == CHOOSE on \in [Handlers -> Routers] : {on[h] : h \in Handlers} = Routers
===============================================================================
