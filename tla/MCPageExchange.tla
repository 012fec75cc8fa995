-------------------------- MODULE MCPageExchange ---------------------------
(* Two connections, a page the program writes and one that it cannot.      *)
EXTENDS PageExchange

CONSTANTS c1, c2, p1, p2

TwoConns == {c1, c2}
TwoPages == {p1, p2}
NotWritten == {p2}

=============================================================================
