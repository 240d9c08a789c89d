------------------------------ MODULE MCDelivery ------------------------------
(* Small instances of Delivery for TLC.                                       *)
EXTENDS Delivery, TLC

A(kind, reply, given, source, url) ==
    [kind |-> kind, reply |-> reply, given |-> given, source |-> source, url |-> url]

\* What is cached is a URL; the source beside a file_id is a file.
MCScreens == {A("text", FALSE, FALSE, FALSE, FALSE), A("text", TRUE, FALSE, FALSE, FALSE),
              A("photo", FALSE, FALSE, TRUE, TRUE), A("document", FALSE, FALSE, TRUE, TRUE),
              A("photo", FALSE, TRUE, TRUE, FALSE), A("voice", FALSE, TRUE, FALSE, FALSE)}

TaskSymmetry == Permutations(Tasks)
===============================================================================
