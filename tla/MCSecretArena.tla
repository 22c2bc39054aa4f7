--------------------------- MODULE MCSecretArena ----------------------------
(* SecretArena on small instances: constants and symmetry for TLC.          *)
EXTENDS ArenaGrowth, TLC

CONSTANTS h1, h2, h3

ThreeHandles == {h1, h2, h3}
Symmetry == Permutations(ThreeHandles)
=============================================================================
