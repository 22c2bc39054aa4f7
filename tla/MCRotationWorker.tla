-------------------------- MODULE MCRotationWorker --------------------------
(* RotationWorker on small instances: constants for TLC.                    *)
EXTENDS RotationWorker

CONSTANTS c1, c2

TwoCallers == {c1, c2}
=============================================================================
