------------------------------ MODULE KyberBox ------------------------------
(***************************************************************************)
(* The hybrid box of src/crypto/kyberbox.rs: an X25519 exchange and an     *)
(* ML-KEM encapsulation combined into one key, and the Dual variant that   *)
(* carries a public key for the reply.  A key pair is a record of the two  *)
(* private keys; a public one is a record of the two public keys.  What is *)
(* sealed is a record of its parts, with ct = Failed when the call fails.  *)
(***************************************************************************)
EXTENDS Primitives

Public(pair) == [x |-> Pub(pair.x), k |-> Pub(pair.k)]

\* keys::ephemeral_x25519_keypair, ephemeral_kyber_mlkem1024_keypair.
ephemeral(n) == [x |-> Random(n, "reply-x"), k |-> Random(n, "reply-k")]

\* A point of low order is refused.
ecdh_kdf(secret, peer, lbl) ==
    IF peer = LowOrder THEN Failed ELSE derive32_raw(Dh(secret, peer), None, lbl)

derive_base_key(ss_kem, ecdh_key, ct_t, ek_t, ct_pq_hash, base_label) ==
    Hkdf(ecdh_key, ss_kem, <<"base", base_label, ct_t, ek_t, ct_pq_hash>>)

KYBER_BOX_VERSION == 1
KYBER_KEM_ID == 1

encapsulate_kem(ek, n) ==
    <<KYBER_BOX_VERSION, KYBER_KEM_ID, KemCt(ek, Random(n, "coins"))>>

decapsulate_kem(dk, blob) ==
    IF blob[1] # KYBER_BOX_VERSION \/ blob[2] # KYBER_KEM_ID
    THEN Failed ELSE Decapsulate(dk, blob[3])

Combine(ctx, ecdh_key, ss_kem, ct_t, ek_t, ct_pq) ==
    IF ecdh_key = Failed \/ ss_kem = Failed \/ add(ctx, W.base_key) = Invalid
    THEN Failed
    ELSE derive_base_key(ss_kem, ecdh_key, ct_t, ek_t, Sha256(ct_pq), label(add(ctx, W.base_key)))

EcdhKey(ctx, secret, peer) ==
    IF add(ctx, W.ecdh_key) = Invalid THEN Failed
    ELSE ecdh_kdf(secret, peer, label(add(ctx, W.ecdh_key)))

prep_base_key_for_encryption(ctx, priv_x, peer, n) ==
    Combine(ctx, EcdhKey(ctx, priv_x, peer.x), KemSecret(peer.k, Random(n, "coins")),
            Pub(priv_x), peer.x, KemCt(peer.k, Random(n, "coins")))

prep_base_key_for_decryption(ctx, me, x_pub, kem_ct) ==
    Combine(ctx, EcdhKey(ctx, me.x, x_pub), decapsulate_kem(me.k, kem_ct),
            x_pub, Pub(me.x), kem_ct[3])

seal(ctx, peer, aad, data, n) ==
    LET priv_x == Random(n, "x")
        base_key == prep_base_key_for_encryption(ctx, priv_x, peer, n)
        data_ctx == add(ctx, W.data)
    IN  [x |-> Pub(priv_x), kem |-> encapsulate_kem(peer.k, n),
         ct |-> IF base_key = Failed \/ data_ctx = Invalid THEN Failed
                ELSE encrypt(data, base_key, data_ctx, aad, Random(n, "nonce"))]

open(ctx, me, aad, sealed) ==
    LET base_key == prep_base_key_for_decryption(ctx, me, sealed.x, sealed.kem)
        data_ctx == add(ctx, W.data)
    IN  IF base_key = Failed \/ data_ctx = Invalid THEN Failed
        ELSE decrypt(sealed.ct, base_key, data_ctx, aad)

-----------------------------------------------------------------------------
\* The bytes of a reply key on the wire, a number per call that drew one.
ReplyWire(reply) == <<100 + reply.x[2][2]>>

DualSeal(ctx, peer, aad, data, n) ==
    LET reply == Public(ephemeral(n))
        inner == seal(ctx, peer, ReplyWire(reply) \o aad, data, n)
    IN  [reply |-> reply, x |-> inner.x, kem |-> inner.kem, ct |-> inner.ct]

\* The reply key that came with the message is authenticated with the aad.
DualOpen(ctx, me, aad, sealed) ==
    open(ctx, me, ReplyWire(sealed.reply) \o aad, sealed)
=============================================================================
