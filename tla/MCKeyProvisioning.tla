------------------------- MODULE MCKeyProvisioning --------------------------
(* KeyProvisioning on small instances: constants for TLC.                   *)
EXTENDS KeyProvisioning

CONSTANTS i1, i2

TwoInstances == {i1, i2}

\* Two instances that lock, with losses of the cache or with all damage; one
\* instance alone on a file system without locks, in Strict mode.
Uses ==
    {[users |-> {i1, i2}, locks |-> TRUE, strict |-> FALSE, damage |-> {"losepub"}],
     [users |-> {i1, i2}, locks |-> TRUE, strict |-> FALSE, damage |-> Damages],
     [users |-> {i1}, locks |-> FALSE, strict |-> TRUE, damage |-> Damages]}
=============================================================================
