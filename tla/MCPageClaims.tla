---------------------------- MODULE MCPageClaims ----------------------------
(* Two keys and three reservations: two workers and a copy of either one.  *)
EXTENDS PageClaims, TLC

CONSTANTS k1, k2, h1, h2, h3

MCKeys       == {k1, k2}
MCHandles    == {h1, h2, h3}
MCEpisodeMax == 2
MCSymmetry   == Permutations(MCHandles)
=============================================================================
