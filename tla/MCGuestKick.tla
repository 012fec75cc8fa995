---------------------------- MODULE MCGuestKick ----------------------------
(* GuestKick with two CPUs and two takes of one page.                      *)
EXTENDS GuestKick, TLC

CONSTANTS c1, c2, t1, t2, p1

MCCPUs == {c1, c2}
MCTakers == {t1, t2}
MCPages == {p1}
=============================================================================
