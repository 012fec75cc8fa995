----------------------------- MODULE MCFaultGate -----------------------------
(* Sibling contexts that fault on one page, which one page channel also     *)
(* serves.  Which stable state a service leaves is not told apart.          *)
EXTENDS FaultGate, TLC

CONSTANTS k1, f1, f2, s1

MCKeys       == {k1}
MCFaulters   == {f1, f2}
MCServers    == {s1}
MCFinals     == {"INVALID"}
MCTaking     == {"UNINSTALLING"}
MCEpisodeMax == 20
=============================================================================
