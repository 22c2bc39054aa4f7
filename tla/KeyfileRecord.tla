--------------------------- MODULE KeyfileRecord ---------------------------
(***************************************************************************)
(* The keyfile record of src/keys/keyfile.rs: build_record lays the fields *)
(* out, parse_keyfile takes them apart.  The lengths are constants so that *)
(* the layout can be checked in full on a small scale.                     *)
(***************************************************************************)
EXTENDS ByteCodec

CONSTANTS
    SaltLen,      \* 32 in the code
    NonceLen,     \* 12
    CtWrapLen,    \* CT_WRAP_LEN, 48
    DekLen,       \* DEK_LEN, 32
    UsizeMax,     \* the largest usize
    Magic         \* KEYFILE_MAGIC, four bytes

ASSUME RecordAssumption ==
    /\ {SaltLen, NonceLen, CtWrapLen, DekLen} \subseteq 0 .. Radix ^ 2 - 1
    /\ UsizeMax \in Nat
    /\ Magic \in [1 .. 4 -> 0 .. Radix - 1]

KEYFILE_VERSION       == 1
ALG_ID_AES256_GCM_SIV == 1

\* The error of every refusal of parse_keyfile and of its callers' header check.
Malformed == [malformed |-> TRUE]

Prefixed(k, s) == ToBe(Len(s), k) \o s

build_record(r) ==
    Magic \o <<r.version, r.alg_id>> \o ToBe(r.dek_len, 2)
          \o Prefixed(2, r.salt)
          \o Prefixed(2, r.nonce_wrap)
          \o Prefixed(2, r.ct_wrap)
          \o Prefixed(2, r.nonce_payload)
          \o Prefixed(4, r.ct_payload)

(***************************************************************************)
(* A cursor is the index reached and the last slice taken; the index is    *)
(* Failed once a take was refused, and every later take fails with it.     *)
(***************************************************************************)
Failed == [idx |-> -1, slice |-> <<>>]

\* checked_add, then a slice that must lie within the buffer.
take(buf, c, len) ==
    IF c = Failed \/ c.idx + len > UsizeMax \/ c.idx + len > Len(buf) THEN Failed
    ELSE [idx   |-> c.idx + len,
          slice |-> SubSeq(buf, c.idx + 1, c.idx + len)]

\* Mutant of TakeFixed: the length in the file is not compared.
TakeFixed_unchecked(buf, c, len) ==
    LET size == take(buf, c, 2)
    IN  IF size = Failed THEN Failed ELSE take(buf, size, len)

\* A field of fixed length behind its u16 length, which must be that length.
TakeFixed(buf, c, len) ==
    LET size == take(buf, c, 2)
    IN  IF size = Failed \/ FromBe(size.slice) # len THEN Failed
        ELSE take(buf, size, len)

\* The payload behind its u32 length.
TakePayload(buf, c) ==
    LET size == take(buf, c, 4)
    IN  IF size = Failed THEN Failed ELSE take(buf, size, FromBe(size.slice))

\* The payload ends where the buffer does.
Whole(buf, c) == c # Failed /\ c.idx = Len(buf)

parse_keyfile(buf) ==
    LET deklen  == take(buf, [idx |-> 6, slice |-> <<>>], 2)
        salt    == TakeFixed(buf, deklen, SaltLen)
        nwrap   == TakeFixed(buf, salt, NonceLen)
        cwrap   == TakeFixed(buf, nwrap, CtWrapLen)
        npay    == TakeFixed(buf, cwrap, NonceLen)
        payload == TakePayload(buf, npay)
    IN  IF Len(buf) < 8 \/ SubSeq(buf, 1, 4) # Magic \/ ~Whole(buf, payload)
        THEN Malformed
        ELSE [version |-> buf[5], alg_id |-> buf[6],
              dek_len |-> FromBe(deklen.slice), salt |-> salt.slice,
              nonce_wrap |-> nwrap.slice, ct_wrap |-> cwrap.slice,
              nonce_payload |-> npay.slice, ct_payload |-> payload.slice]

\* The header check that load_* and rewrap_* make on a parsed record.
Supported(r) ==
    /\ r # Malformed
    /\ r.version = KEYFILE_VERSION
    /\ r.alg_id = ALG_ID_AES256_GCM_SIV
    /\ r.dek_len = DekLen

-----------------------------------------------------------------------------
(***************************************************************************)
(* The layout, checked over every record with small fields and over every  *)
(* buffer one edit away from such a record.                                *)
(***************************************************************************)
SampleRecords ==
    [version : {1, 2}, alg_id : {1}, dek_len : {DekLen, Radix},
     salt : {[j \in 1 .. SaltLen |-> b] : b \in Byte},
     nonce_wrap : {[j \in 1 .. NonceLen |-> 1]},
     ct_wrap : {[j \in 1 .. CtWrapLen |-> 0]},
     nonce_payload : {[j \in 1 .. NonceLen |-> Radix - 1]},
     ct_payload : UpTo({0, Radix - 1}, 2)]

Extensions(buf) == {buf \o x : x \in UpTo(Byte, 2) \ {<<>>}}
Substitutions(buf) == {[buf EXCEPT ![p] = b] : p \in 1 .. Len(buf), b \in Byte}

(***************************************************************************)
(* parse_keyfile and build_record are inverse to each other: a record that *)
(* was built parses to the same fields, and whatever parses, also after a  *)
(* byte was changed, is byte for byte what its fields build.  A file cut   *)
(* short at any byte, or with bytes appended, is refused: no torn record   *)
(* passes for another one.                                                 *)
(***************************************************************************)
LayoutInverts ==
    \A r \in SampleRecords :
        LET buf == build_record(r)
        IN  /\ parse_keyfile(buf) = r
            /\ \A b \in Substitutions(buf) :
                   parse_keyfile(b) # Malformed => build_record(parse_keyfile(b)) = b
            /\ \A b \in (Prefixes(buf) \ {buf}) \cup Extensions(buf) :
                   parse_keyfile(b) = Malformed
=============================================================================
