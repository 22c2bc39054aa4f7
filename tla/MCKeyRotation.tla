---------------------------- MODULE MCKeyRotation ---------------------------
(* KeyRotation on small instances: constants for TLC.                       *)
EXTENDS KeyRotationProofs

CONSTANTS l1, l2, s1, s2, c1, c2

OneLabel  == {l1}
TwoLabels == {l1, l2}
OneSeed   == {s1}
TwoSeeds  == {s1, s2}
TwoClients == {c1, c2}
=============================================================================
