----------------------------- MODULE Primitives -----------------------------
(***************************************************************************)
(* The cryptographic primitives the library is built on, as ideal terms,   *)
(* and the thin wrappers of src/crypto/aead.rs and src/crypto/kdf.rs       *)
(* around them.  A term is a tuple that starts with the name of the        *)
(* primitive and holds its inputs, so that two outputs are equal exactly   *)
(* when the same primitive was given the same inputs.  Outputs have one    *)
(* length: the 32 and 64 byte outputs of HKDF are not told apart.          *)
(***************************************************************************)
EXTENDS Contexts

Failed == <<"failed">>     \* Err(..)
None == <<"none">>         \* an absent value

\* The segments the library itself adds to contexts.
W == [ecdh_key |-> <<3>>, base_key |-> <<4>>, data |-> <<5>>, hpke |-> <<6>>, kem |-> <<7>>,
      schedule |-> <<8>>, key |-> <<9>>, base_nonce |-> <<10>>, exporter_secret |-> <<11>>,
      export |-> <<12>>, derive_keypair |-> <<13>>, x25519_priv |-> <<14>>,
      mlkem1024_seed |-> <<15>>, lithium |-> <<16>>, opaque |-> <<17>>, dek_wrap |-> <<18>>]

\* The value named `what` that the n-th call drew from the system's generator.
Random(n, what) == <<"random", n, what>>

\* A private key of its own, and the public key of a private key.
Static(who, what) == <<"static", who, what>>
Pub(secret) == <<"pub", secret>>

\* A public key of low order: the exchange with it gives zero to everyone.
LowOrder == Pub(<<"zero">>)
Dh(secret, pub) == IF pub = LowOrder THEN <<"zero">> ELSE <<"dh", {secret, pub[2]}>>

\* ML-KEM: a ciphertext for another key decapsulates to an unrelated secret.
KemCt(ek, coins) == <<"kemct", ek, coins>>
KemSecret(ek, coins) == <<"kemss", ek, coins>>
Decapsulate(dk, ct) ==
    IF ct[2] = Pub(dk) THEN KemSecret(ct[2], ct[3]) ELSE <<"kemreject", dk, ct>>

Sha256(x) == <<"sha256", x>>
Hkdf(ikm, salt, info) == <<"hkdf", ikm, salt, info>>
Signature(alg, secret, bytes) == <<"signature", alg, secret, bytes>>

-----------------------------------------------------------------------------
derive32_raw(input, salt, info) == Hkdf(input, salt, <<"info", info>>)

derive32(input, salt, ctx, aad) == derive32_raw(input, salt, bind_aad(ctx, aad))

encrypt_raw(plaintext, key, nonce, aad) == <<"aead", key, nonce, aad, plaintext>>

decrypt_raw(ct, key, nonce, aad) ==
    IF ct[1] = "aead" /\ ct[2] = key /\ ct[3] = nonce /\ ct[4] = aad THEN ct[5] ELSE Failed

AEAD_BLOB_VERSION == 1

\* encrypt and encrypt_framed: version, nonce, ciphertext bound to the context.
encrypt(plaintext, key, ctx, aad, nonce) ==
    <<"framed", AEAD_BLOB_VERSION, nonce,
      encrypt_raw(plaintext, key, nonce, bind_aad(ctx, aad))>>

\* Mutant of decrypt: the context is not part of the authenticated bytes.
decrypt_unbound(blob, key, ctx, aad) ==
    IF blob[1] = "framed" /\ blob[2] = AEAD_BLOB_VERSION
    THEN decrypt_raw(blob[4], key, blob[3], blob[4][4]) ELSE Failed

\* A blob too short to be framed, or of another version, is refused.
decrypt(blob, key, ctx, aad) ==
    IF blob[1] = "framed" /\ blob[2] = AEAD_BLOB_VERSION
    THEN decrypt_raw(blob[4], key, blob[3], bind_aad(ctx, aad)) ELSE Failed
=============================================================================
