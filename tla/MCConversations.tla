--------------------------- MODULE MCConversations ---------------------------
(* Small instances of Conversations for TLC.                               *)
EXTENDS Conversations, TLC

\* Runs are interchangeable: nothing in the model chooses one of them.
RunSymmetry == Permutations(Runs)
=============================================================================
