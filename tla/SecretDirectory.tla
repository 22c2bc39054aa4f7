--------------------------- MODULE SecretDirectory --------------------------
(***************************************************************************)
(* What the key manager promises its callers: a directory of secrets.  A   *)
(* label's secret comes into being once, at some caller's first use, and   *)
(* everybody who asks afterwards is given that secret.  The signing seeds  *)
(* are there from the start.  No rotation, crash or restart shows.         *)
(***************************************************************************)
EXTENDS Naturals

CONSTANTS Labels, Seeds, None

VARIABLES
    dir,      \* the secret behind each name, or None
    given     \* the secrets handed to callers, per name

Names == Labels \cup Seeds

Init ==
    /\ dir = [n \in Names |-> IF n \in Seeds THEN 0 ELSE None]
    /\ given = [n \in Names |-> {}]

\* The first use of a label draws its secret, whatever it is, and its caller
\* gets it.
Create(l) ==
    /\ dir[l] = None
    /\ dir'[l] \in Nat
    /\ dir' = [dir EXCEPT ![l] = dir'[l]]
    /\ given' = [given EXCEPT ![l] = @ \cup {dir'[l]}]

\* Later uses are given the secret that is there.
Read(names) ==
    /\ \A n \in names : dir[n] # None
    /\ given' = [n \in Names |-> IF n \in names THEN given[n] \cup {dir[n]}
                                                ELSE given[n]]
    /\ UNCHANGED dir

Next ==
    \/ \E l \in Labels : Create(l)
    \/ \E names \in SUBSET Names : Read(names)

Spec == Init /\ [][Next]_<<dir, given>>
=============================================================================
