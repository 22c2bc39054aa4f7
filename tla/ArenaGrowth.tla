----------------------------- MODULE ArenaGrowth ----------------------------
(***************************************************************************)
(* How much of its mapping an arena ever uses.  SecretArena with a history *)
(* variable that no step of the code reads: which regions of each size     *)
(* were held together when most of them were.                              *)
(***************************************************************************)
EXTENDS SecretArena

VARIABLE crowd   \* for each size, offsets of regions once held together

growthVars == <<vars, crowd>>

Sizes == {RoundUp(len) : len \in Lens}

\* The blocks of a size that are in use, and all of that size there are.
Live(a) == {region[h].off : h \in {g \in Held : region[g].alen = a}}
Blocks(a) == Live(a) \cup {s.off : s \in {t \in free : t.alen = a}}

GrowthInit == Init /\ crowd = [a \in Sizes |-> {}]

GrowthNext ==
    /\ Next
    /\ crowd' = [a \in Sizes |-> IF crowd[a] \subseteq Live(a)' THEN Live(a)' ELSE crowd[a]]

GrowthSpec == GrowthInit /\ [][GrowthNext]_growthVars

(***************************************************************************)
(* The arena grows only when it has to: all the blocks of a size there are *)
(* were once in use at the same time.  However long a program claims and   *)
(* drops secrets, in whatever order, alloc takes no more of the mapping    *)
(* for a size than the program once held of it, so arena_exhausted does    *)
(* not come from turnover.                                                 *)
(***************************************************************************)
GrowthWasNeeded == \A a \in Sizes : Blocks(a) \subseteq crowd[a]
=============================================================================
