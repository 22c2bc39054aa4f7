----------------------------- MODULE AtomicFile -----------------------------
(***************************************************************************)
(* What the writers of keyfile.rs promise their callers: a file whose      *)
(* value changes in one step, always to a complete value.  Power loss may  *)
(* bring an earlier value back, but none from before the last moment at    *)
(* which the file was made durable.                                        *)
(***************************************************************************)
CONSTANTS Values, None

VARIABLES
    file,     \* the value, or None
    past,     \* the values power loss may leave
    lasting   \* is the directory itself on disk?

vars == <<file, past, lasting>>

Init ==
    /\ file \in Values \cup {None}
    /\ past = {file}
    /\ lasting \in BOOLEAN
    /\ ~lasting => file = None

Write(v) ==
    /\ file' = v
    /\ past' = past \cup {v}
    /\ UNCHANGED lasting

Harden ==
    /\ past' = {file}
    /\ UNCHANGED <<file, lasting>>

\* The machine loses power; a directory that survives it is on disk.
LosePower ==
    /\ file' \in past
    /\ past' = {file'}
    /\ lasting' \in BOOLEAN
    /\ lasting => lasting'

\* A directory that is not yet on disk is lost with everything in it.
Vanish ==
    /\ ~lasting
    /\ file' = None
    /\ past' = {None}
    /\ UNCHANGED lasting

Next ==
    \/ \E v \in Values : Write(v)
    \/ Harden
    \/ LosePower
    \/ Vanish

Spec == Init /\ [][Next]_vars
=============================================================================
