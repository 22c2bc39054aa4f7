---------------------------- MODULE WireFormats -----------------------------
(***************************************************************************)
(* The wire formats of src/crypto, src/hpke and src/opaque, byte by byte:  *)
(* fields of fixed length joined together, a last field that takes the     *)
(* rest, a length prefix, version bytes, and lower-case hex (for a wrapped *)
(* key, with white space around it).  The lengths are constants so that    *)
(* every buffer up to a bound can be tried.                                *)
(***************************************************************************)
EXTENDS ByteCodec

CONSTANTS
    XLen,         \* an X25519 key, 32 bytes in the code
    KLen,         \* the post-quantum public key next to it
    SeedLen,      \* the post-quantum seed next to a private key, 64
    KemCtLen,     \* KEM_CT_LEN
    SigLens,      \* the lengths of an Ed25519 and an ML-DSA-87 signature
    FrameNonce,   \* the nonce of an AEAD blob, 12
    TagLen,       \* the tag of an AEAD ciphertext, 16
    HexBase,      \* 16 in the code: two hex digits make a byte
    MaxBuffer     \* bound: buffers tried

ASSUME WireAssumption ==
    /\ {XLen, KLen, SeedLen, KemCtLen, FrameNonce, TagLen, MaxBuffer} \subseteq Nat
    /\ SigLens \in Nat \X Nat
    /\ HexBase * HexBase = Radix

Refused == [refused |-> TRUE]

First(s, k) == SubSeq(s, 1, k)
After(s, k) == SubSeq(s, k + 1, Len(s))

\* Mutant of Two: bytes behind the second field are dropped.
Two_lenient(bytes, a, b) ==
    IF Len(bytes) < a + b THEN Refused
    ELSE [fst |-> First(bytes, a), snd |-> First(After(bytes, a), b)]

\* Two fields of fixed length and nothing else.
Two(bytes, a, b) ==
    IF Len(bytes) # a + b THEN Refused ELSE [fst |-> First(bytes, a), snd |-> After(bytes, a)]

Joined(v) == v.fst \o v.snd

\* from_wire of the keys and the HPKE encapsulation, from_bytes of DoubleSig.
PublicKey(bytes) == Two(bytes, XLen, KLen)
PrivateKey(bytes) == Two(bytes, XLen, SeedLen)
HpkePublicKey(bytes) == Two(bytes, XLen, KLen)
HpkePrivateKey(bytes) == Two(bytes, XLen, SeedLen)
DualVerifyingKey(bytes) == Two(bytes, XLen, KLen)
HpkeEnc(bytes) == Two(bytes, XLen, KemCtLen)
DoubleSig(bytes) == Two(bytes, SigLens[1], SigLens[2])

\* KyberBoxSealed::to_wire and from_wire: the ciphertext takes the rest.
KyberBoxWire(v) == v.x \o v.kem \o v.ct

KyberBoxSealed(bytes) ==
    IF Len(bytes) < XLen + KemCtLen THEN Refused
    ELSE [x |-> First(bytes, XLen), kem |-> First(After(bytes, XLen), KemCtLen),
          ct |-> After(bytes, XLen + KemCtLen)]

\* DualSealed::to_wire and from_wire.
DualWire(v) == Joined(v.reply) \o KyberBoxWire(v.inner)
DualSealed(bytes) ==
    LET reply == PublicKey(First(bytes, XLen + KLen))
        inner == KyberBoxSealed(After(bytes, XLen + KLen))
    IN  IF Len(bytes) < XLen + KLen \/ Refused \in {reply, inner}
        THEN Refused ELSE [reply |-> reply, inner |-> inner]

\* HpkeSealed::to_wire and from_wire: enc behind its length, as a u32.
HpkeWire(v) == ToBe(Len(Joined(v.enc)), 4) \o Joined(v.enc) \o v.ct
HpkeSealed(bytes) ==
    LET enc_len == FromBe(First(bytes, 4))
        rest == After(bytes, 4)
    IN  IF Len(bytes) < 4 \/ enc_len > Len(rest) THEN Refused
        ELSE LET enc == HpkeEnc(First(rest, enc_len))
             IN  IF enc = Refused THEN Refused ELSE [enc |-> enc, ct |-> After(rest, enc_len)]

\* The AEAD blob of encrypt_framed and decrypt, and the wrapped key around it.
FrameWire(v) == <<1>> \o v.nonce \o v.ct
Frame(bytes) ==
    IF Len(bytes) < 1 + FrameNonce + TagLen \/ bytes[1] # 1 THEN Refused
    ELSE [nonce |-> First(After(bytes, 1), FrameNonce), ct |-> After(bytes, 1 + FrameNonce)]

DekWire(v) == <<1>> \o FrameWire(v)
DekBlob(bytes) ==
    IF Len(bytes) < 1 + 1 + FrameNonce + TagLen \/ bytes[1] # 1 THEN Refused
    ELSE Frame(After(bytes, 1))

-----------------------------------------------------------------------------
(***************************************************************************)
(* Hex.  A character below HexBase is a lower-case digit, the ones from    *)
(* HexBase are others: an upper-case digit, 'x', and a white-space one.    *)
(***************************************************************************)
Upper == HexBase
Ex == HexBase + 1
Blank == HexBase + 2
Characters == {Upper, Ex, Blank} \cup 0 .. HexBase - 1

encode(bytes) ==
    FlattenSeq([j \in 1 .. Len(bytes) |-> <<bytes[j] \div HexBase, bytes[j] % HexBase>>])

reject_prefix(s) == Len(s) >= 2 /\ s[1] = 0 /\ s[2] = Ex

validate_charset(s) == \A j \in 1 .. Len(s) : s[j] < HexBase

decode_vec(s) ==
    IF reject_prefix(s) \/ Len(s) % 2 # 0 \/ ~validate_charset(s) THEN Refused
    ELSE [bytes |-> [j \in 1 .. Len(s) \div 2 |-> s[2 * j - 1] * HexBase + s[2 * j]]]

\* str::trim: white space is cut off at both ends, not inside.
trim(s) ==
    LET solid == {j \in 1 .. Len(s) : s[j] # Blank}
    IN  IF solid = {} THEN << >> ELSE SubSeq(s, Min(solid), Max(solid))

\* The text of a wrapped key, as wrap_dek_under_export_key returns it and as
\* unwrap_dek_under_export_key takes it apart.
DekText(v) == encode(DekWire(v))
WrappedDek(s) ==
    LET blob == decode_vec(trim(s))
    IN  IF blob = Refused THEN Refused ELSE DekBlob(blob.bytes)

\* Into a buffer of k bytes.
decode_into(s, k) ==
    IF reject_prefix(s) \/ Len(s) # 2 * k \/ ~validate_charset(s) THEN Refused ELSE decode_vec(s)

-----------------------------------------------------------------------------
(***************************************************************************)
(* Every wire format has one encoding per value: whatever bytes from_wire  *)
(* accepts, to_wire of the result gives back, so a message cannot arrive   *)
(* in two forms, and nothing that follows a message is dropped.            *)
(***************************************************************************)
OneEncodingPerMessage ==
    \A bytes \in UpTo(Byte, MaxBuffer) :
        LET Canonical(v, wire(_)) == v # Refused => wire(v) = bytes
        IN  /\ Canonical(PublicKey(bytes), Joined)
            /\ Canonical(PrivateKey(bytes), Joined)
            /\ Canonical(HpkePublicKey(bytes), Joined)
            /\ Canonical(HpkePrivateKey(bytes), Joined)
            /\ Canonical(DualVerifyingKey(bytes), Joined)
            /\ Canonical(HpkeEnc(bytes), Joined)
            /\ Canonical(DoubleSig(bytes), Joined)
            /\ Canonical(KyberBoxSealed(bytes), KyberBoxWire)
            /\ Canonical(DualSealed(bytes), DualWire)
            /\ Canonical(HpkeSealed(bytes), HpkeWire)
            /\ Canonical(Frame(bytes), FrameWire)
            /\ Canonical(DekBlob(bytes), DekWire)

Exactly(k) == [1 .. k -> {0, Radix - 1}]
Pairs(a, b) == [fst : Exactly(a), snd : Exactly(b)]
Deks == [nonce : Exactly(FrameNonce), ct : Exactly(TagLen) \cup Exactly(TagLen + 1)]
Boxes == [x : Exactly(XLen), kem : Exactly(KemCtLen), ct : UpTo({0, 1}, 2)]

(***************************************************************************)
(* What to_wire writes from_wire reads back: every field of every message  *)
(* survives the wire, with an empty ciphertext too.                        *)
(***************************************************************************)
WireRoundTrips ==
    /\ \A v \in Pairs(XLen, KLen) :
           {PublicKey(Joined(v)), HpkePublicKey(Joined(v)), DualVerifyingKey(Joined(v))} = {v}
    /\ \A v \in Pairs(XLen, SeedLen) :
           {PrivateKey(Joined(v)), HpkePrivateKey(Joined(v))} = {v}
    /\ \A v \in Pairs(XLen, KemCtLen) : HpkeEnc(Joined(v)) = v
    /\ \A v \in Pairs(SigLens[1], SigLens[2]) : DoubleSig(Joined(v)) = v
    /\ \A v \in Boxes : KyberBoxSealed(KyberBoxWire(v)) = v
    /\ \A v \in [reply : Pairs(XLen, KLen), inner : Boxes] : DualSealed(DualWire(v)) = v
    /\ \A v \in [enc : Pairs(XLen, KemCtLen), ct : UpTo({0, 1}, 2)] : HpkeSealed(HpkeWire(v)) = v
    /\ \A v \in Deks : Frame(FrameWire(v)) = v /\ DekBlob(DekWire(v)) = v

(***************************************************************************)
(* Hex has one spelling per value: a string decode accepts is what encode  *)
(* gives for the bytes, so neither upper case nor a prefix gets through.   *)
(***************************************************************************)
OneHexSpelling ==
    /\ \A s \in UpTo(Characters, 4) :
           /\ decode_vec(s) # Refused => encode(decode_vec(s).bytes) = s
           /\ \A k \in 0 .. 2 : decode_into(s, k) # Refused =>
                  Len(decode_into(s, k).bytes) = k /\ encode(decode_into(s, k).bytes) = s
    /\ \A bytes \in UpTo(Byte, 2) : decode_vec(encode(bytes)) = [bytes |-> bytes]

Pads == UpTo({Blank}, 2)

\* A text with one place changed: up to one character put in, up to one left out.
Edits(t) ==
    {SubSeq(t, 1, i) \o m \o SubSeq(t, i + j, Len(t)) :
        i \in 0 .. Len(t), j \in {1, 2}, m \in UpTo(Characters, 1)}

(***************************************************************************)
(* The text of a wrapped key is the one that is trimmed before it is       *)
(* decoded: white space around it is allowed for and gives the same key,   *)
(* and apart from that it has one spelling, even with white space inside.  *)
(***************************************************************************)
OneDekSpelling ==
    \A v \in Deks : \A l, r \in Pads :
        /\ WrappedDek(l \o DekText(v) \o r) = v
        /\ \A s \in Edits(l \o DekText(v) \o r) :
               WrappedDek(s) # Refused =>
                   \E pre, post \in UpTo({Blank}, 3) : s = pre \o DekText(WrappedDek(s)) \o post
=============================================================================
