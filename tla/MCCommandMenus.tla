---------------------------- MODULE MCCommandMenus ----------------------------
(* Small instances of CommandMenus for TLC.                                *)
EXTENDS CommandMenus, TLC

\* Nothing in the model orders menus or tasks.
MenuTaskSymmetry == Permutations(Menus) \cup Permutations(Tasks)
=============================================================================
