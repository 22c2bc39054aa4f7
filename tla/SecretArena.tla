----------------------------- MODULE SecretArena -----------------------------
(***************************************************************************)
(* SecretArena (src/secrets/arena.rs): one mapping of locked pages from    *)
(* which threads claim regions for their secrets.  Space is taken from     *)
(* free lists kept per rounded size, or from the end of the used part;     *)
(* a dropped region is zeroed and put on its list.                         *)
(*                                                                         *)
(* Claiming and dropping happen under the mutex; a region is filled, and   *)
(* written through, outside it.  A byte is modelled by whose secret it     *)
(* holds (Zero: nobody's).  A free list is a set: which of its slots is    *)
(* reused makes no difference here.  A refused claim changes nothing and   *)
(* is left out, as is a poisoned mutex (no critical section panics).       *)
(***************************************************************************)
EXTENDS Integers

CONSTANTS
    Handles,   \* names for the ArenaFixedBytes a program holds
    Lens,      \* the sizes it asks for
    Size,      \* ArenaInner::size, in bytes
    Zero,      \* the byte 0
    None

ASSUME ArenaAssumption ==
    /\ Lens \subseteq Nat
    /\ Size \in Nat
    /\ Zero \notin Handles
    /\ None \notin [off : Int, len : Int, alen : Int, filled : BOOLEAN]

ALIGN == 16

VARIABLES
    offset,    \* ArenaInner::offset: the end of the part ever used
    free,      \* ArenaInner::free: slots, as [off, alen]
    region,    \* the Region behind each handle, or None
    mem,       \* the bytes of the mapping
    shared,    \* does a SecretArena still exist?
    mapped     \* is the mapping there?

vars == <<offset, free, region, mem, shared, mapped>>

Region == [off : Int, len : Int, alen : Int, filled : BOOLEAN]
Slot == [off : Int, alen : Int]
Bytes == 0..(Size - 1)

\* The bytes of n from o on.
Span(o, n) == o..(o + n - 1)

Held == {h \in Handles : region[h] # None}

-----------------------------------------------------------------------------
\* Mutant of RoundUp: rounds down.
RoundDown(v) == ((v + 1) \div ALIGN) * ALIGN

\* round_up(len.max(1), ALIGN)
RoundUp(v) == (((IF v = 0 THEN 1 ELSE v) + ALIGN - 1) \div ALIGN) * ALIGN

\* Mutant of Alloc: free slots are looked at only when the mapping is used up.
AllocFreshFirst(alen, off) ==
    \/ /\ offset + alen > Size
       /\ [off |-> off, alen |-> alen] \in free
       /\ free' = free \ {[off |-> off, alen |-> alen]}
       /\ UNCHANGED offset
    \/ /\ off = offset
       /\ offset + alen <= Size
       /\ offset' = offset + alen
       /\ UNCHANGED free

\* Mutant of Alloc: the slot stays on its free list.
AllocKeepsSlot(alen, off) ==
    \/ /\ [off |-> off, alen |-> alen] \in free
       /\ UNCHANGED <<offset, free>>
    \/ /\ \A s \in free : s.alen # alen
       /\ off = offset
       /\ offset + alen <= Size
       /\ offset' = offset + alen
       /\ UNCHANGED free

\* ArenaInner::alloc: a slot of that very size, or the next bytes.
Alloc(alen, off) ==
    \/ /\ [off |-> off, alen |-> alen] \in free
       /\ free' = free \ {[off |-> off, alen |-> alen]}
       /\ UNCHANGED offset
    \/ /\ \A s \in free : s.alen # alen
       /\ off = offset
       /\ offset + alen <= Size
       /\ offset' = offset + alen
       /\ UNCHANGED free

\* SecretArena::claim: the region's bytes are whatever is there.
Claim(h, len, off) ==
    /\ shared
    /\ region[h] = None
    /\ Alloc(RoundUp(len), off)
    /\ region' = [region EXCEPT ![h] = [off |-> off, len |-> len,
                                        alen |-> RoundUp(len), filled |-> FALSE]]
    /\ UNCHANGED <<mem, shared, mapped>>

\* random_fixed and store_fixed fill the region they claimed; expose_as_mut_slice
\* lets its owner write it again.
Fill(h) ==
    /\ region[h] # None
    /\ region' = [region EXCEPT ![h].filled = TRUE]
    /\ mem' = [b \in Bytes |-> IF b \in Span(region[h].off, region[h].len)
                               THEN h ELSE mem[b]]
    /\ UNCHANGED <<offset, free, shared, mapped>>

\* Zeroize::zeroize on a handle.
Wipe(h) ==
    /\ region[h] # None
    /\ region' = [region EXCEPT ![h].filled = FALSE]
    /\ mem' = [b \in Bytes |-> IF b \in Span(region[h].off, region[h].len)
                               THEN Zero ELSE mem[b]]
    /\ UNCHANGED <<offset, free, shared, mapped>>

\* ArenaInner::drop, when the last Arc goes: zero everything and unmap.
Last(hs) == ~shared' /\ hs = {}

\* Mutant of Drop: the slot is freed as it is.
DropDirty(h) ==
    /\ region[h] # None
    /\ region' = [region EXCEPT ![h] = None]
    /\ free' = free \cup {[off |-> region[h].off, alen |-> region[h].alen]}
    /\ UNCHANGED <<offset, mem, shared>>
    /\ mapped' = ~Last(Held \ {h})

\* Region::drop, ArenaInner::dealloc.
Drop(h) ==
    /\ region[h] # None
    /\ region' = [region EXCEPT ![h] = None]
    /\ free' = free \cup {[off |-> region[h].off, alen |-> region[h].alen]}
    /\ UNCHANGED <<offset, shared>>
    /\ mapped' = ~Last(Held \ {h})
    /\ mem' = [b \in Bytes |->
                 IF Last(Held \ {h}) \/ b \in Span(region[h].off, region[h].alen)
                 THEN Zero ELSE mem[b]]

\* The last SecretArena is dropped; regions keep the mapping alive.
DropArena ==
    /\ shared
    /\ shared' = FALSE
    /\ mapped' = ~Last(Held)
    /\ mem' = IF Last(Held) THEN [b \in Bytes |-> Zero] ELSE mem
    /\ UNCHANGED <<offset, free, region>>

-----------------------------------------------------------------------------
Init ==
    /\ offset = 0
    /\ free = {}
    /\ region = [h \in Handles |-> None]
    /\ mem = [b \in Bytes |-> Zero]
    /\ shared = TRUE
    /\ mapped = TRUE

Next ==
    \/ \E h \in Handles :
          \/ \E len \in Lens, off \in 0..Size : Claim(h, len, off)
          \/ Fill(h) \/ Wipe(h) \/ Drop(h)
    \/ DropArena

Spec == Init /\ [][Next]_vars

-----------------------------------------------------------------------------
(***************************************************************************)
(* Properties.                                                             *)
(***************************************************************************)

\* Every variable keeps its type.
TypeOK ==
    /\ offset \in 0..Size
    /\ free \subseteq Slot
    /\ region \in [Handles -> Region \cup {None}]
    /\ mem \in [Bytes -> Handles \cup {Zero}]
    /\ shared \in BOOLEAN
    /\ mapped \in BOOLEAN

\* The used part of the mapping is tiled by the live regions and the free slots:
\* no two of them share a byte and no byte is lost (ArenaInner::alloc, dealloc).
Tiled ==
    /\ \A g, h \in Held : g # h =>
          Span(region[g].off, region[g].alen) \cap Span(region[h].off, region[h].alen) = {}
    /\ \A s, t \in free : s # t => Span(s.off, s.alen) \cap Span(t.off, t.alen) = {}
    /\ \A h \in Held, s \in free :
          Span(region[h].off, region[h].alen) \cap Span(s.off, s.alen) = {}
    /\ \A b \in 0..(offset - 1) :
          \/ \E h \in Held : b \in Span(region[h].off, region[h].alen)
          \/ \E s \in free : b \in Span(s.off, s.alen)

\* A live handle reads its own secret, or zeros before it is filled, whatever the
\* others claim, write and drop, and its bytes lie inside the mapping.
OwnBytes ==
    \A h \in Held : /\ mapped
                    /\ Span(region[h].off, region[h].len) \subseteq Bytes
                    /\ \A b \in Span(region[h].off, region[h].len) :
                          mem[b] = IF region[h].filled THEN h ELSE Zero

\* A secret is nowhere but in the region of its live handle: dealloc and the
\* arena's drop leave nothing of it behind.
NoResidue ==
    \A b \in Bytes : mem[b] # Zero =>
        \E h \in Held : mem[b] = h /\ b \in Span(region[h].off, region[h].len)
=============================================================================
