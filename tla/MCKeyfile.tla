----------------------------- MODULE MCKeyfile ------------------------------
(* The keyfile write path and record on a small instance.                   *)
EXTENDS KeyfileAccess

CONSTANTS w1, w2, t1, t2

TwoWriters == {w1, w2}
TwoTmps    == {t1, t2}
Symmetry   == Permutations(TwoWriters) \cup Permutations(TwoTmps)
OneCut     == {9}
MagicBytes == <<1, 2, 3, 0>>
=============================================================================
