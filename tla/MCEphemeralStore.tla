-------------------------- MODULE MCEphemeralStore --------------------------
(* EphemeralStore on small instances: constants for TLC.                    *)
EXTENDS EphemeralStore

CONSTANTS k1, c1, c2

OneKey == {k1}
TwoCallers == {c1, c2}
=============================================================================
