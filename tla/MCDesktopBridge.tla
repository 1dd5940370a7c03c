--------------------------- MODULE MCDesktopBridge ---------------------------
(* One desktop session, and two whose processes share four process ids. *)
EXTENDS DesktopBridge, TLC

CONSTANTS s1, s2, p1, p2, p3, p4

Greeting == <<"initialize">>
Talk == <<"initialize", "request">>
Symmetric == Permutations(Sessions) \cup Permutations(Pids)
=============================================================================
