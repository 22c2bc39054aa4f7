------------------------------ MODULE Contexts ------------------------------
(***************************************************************************)
(* The domain-separation contexts of src/crypto/context.rs.  A context is  *)
(* a text, built segment by segment by base and add; label and bind_aad    *)
(* turn it into the bytes that keys, ciphertexts and signatures are bound  *)
(* to.  Texts are sequences of bytes, and a byte is a number.              *)
(*                                                                         *)
(* The state is the set of contexts a program has built, each with the     *)
(* segments it was built from.                                             *)
(***************************************************************************)
EXTENDS Integers, Sequences, FiniteSets

CONSTANTS
    Printable,       \* bytes allowed in a segment: 0x21 to 0x7e without '/'
    Slash,           \* the byte '/'
    Nul,             \* the byte 0
    Version,         \* VERSION, the segment "v1"
    MaxContextLen,   \* MAX_CONTEXT_LEN, 255 in the code
    Segments,        \* segments the program tries
    Bindings,        \* associated data the program binds
    MaxBuilt         \* bound: contexts built

ASSUME ContextsAssumption ==
    /\ Printable \subseteq Nat
    /\ Slash \in Nat \ Printable
    /\ Nul \in Nat \ (Printable \cup {Slash})
    /\ Version \in Seq(Printable)
    /\ MaxContextLen \in Nat
    /\ Segments \subseteq Seq(Nat)
    /\ Bindings \subseteq Seq(Nat)
    /\ MaxBuilt \in Nat

VARIABLE built   \* the contexts, with the segments they came from

\* Err(invalid_context): no context has an empty text.
Invalid == << >>

validate_segment(seg) ==
    /\ seg # << >>
    /\ \A k \in 1 .. Len(seg) : seg[k] \in Printable

base(root) ==
    IF validate_segment(root) /\ Len(root) <= MaxContextLen THEN root ELSE Invalid

\* The errors of earlier calls come out of later ones, as `?` makes them.
add(ctx, seg) ==
    LET joined == ctx \o <<Slash>> \o seg
    IN  IF ctx # Invalid /\ validate_segment(seg) /\ Len(joined) <= MaxContextLen
        THEN joined ELSE Invalid

label(ctx) == ctx \o <<Slash>> \o Version

\* Mutant of bind_aad: no separator between the label and the caller's bytes.
bind_aad_bare(ctx, aad) == label(ctx) \o aad

\* An empty aad adds nothing; any other follows the label behind a 0 byte.
bind_aad(ctx, aad) ==
    IF aad = << >> THEN label(ctx) ELSE label(ctx) \o <<Nul>> \o aad

-----------------------------------------------------------------------------
BuildInit == built = {}

Base(seg) ==
    /\ base(seg) # Invalid
    /\ built' = built \cup {[segs |-> <<seg>>, text |-> base(seg)]}

Add(c, seg) ==
    /\ add(c.text, seg) # Invalid
    /\ built' = built \cup {[segs |-> Append(c.segs, seg), text |-> add(c.text, seg)]}

BuildNext ==
    /\ Cardinality(built) < MaxBuilt
    /\ \E seg \in Segments : Base(seg) \/ \E c \in built : Add(c, seg)

BuildSpec == BuildInit /\ [][BuildNext]_built

-----------------------------------------------------------------------------
(***************************************************************************)
(* Contexts built from different segments never have the same text: what   *)
(* base and add refuse is enough to make the separator unambiguous.        *)
(***************************************************************************)
TextTellsSegments ==
    \A c, d \in built : c.text = d.text => c.segs = d.segs

(***************************************************************************)
(* The bytes a key, a ciphertext or a signature is bound to determine the  *)
(* context and the caller's aad, whatever bytes that aad holds.            *)
(***************************************************************************)
BindingIsUnique ==
    \A c, d \in built : \A a, b \in Bindings :
        bind_aad(c.text, a) = bind_aad(d.text, b) => c.segs = d.segs /\ a = b
=============================================================================
