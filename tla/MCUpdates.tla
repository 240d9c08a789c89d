------------------------------ MODULE MCUpdates ------------------------------
(* Small instances of Updates for TLC: a session on a connection.          *)
EXTENDS Updates

MCGroups == <<"command", "other">>
MCOnError == [h \in Handlers |-> IF h = "command" THEN "error" ELSE "other error"]
MCUsers == Handlers \cup Hooks \cup Errors \cup {Gate, Update}

MCDeps == [f \in Callables |->
    CASE f = "conn"       -> <<>>
      [] f = "session"    -> <<"conn">>
      [] f = Principal    -> <<"session">>
      [] f = Handler      -> <<"conn", Principal>>
      [] f = ErrorHandler -> <<>>]
=============================================================================
