----------------------------- MODULE HpkeSuite ------------------------------
(***************************************************************************)
(* The stateless half of src/hpke: key derivation, the KEM, the key        *)
(* schedule, single-shot sealing and secret export.  HpkeSession has the   *)
(* sessions.                                                               *)
(***************************************************************************)
EXTENDS KyberBox

Hpke(ctx, seg) == add(add(ctx, W.hpke), seg)

\* From an ikm of at least MIN_IKM_LEN bytes; a shorter one is refused at once.
derive_keypair(ctx, ikm) ==
    LET kp == Hpke(ctx, W.derive_keypair)
        Part(seg) == IF add(kp, seg) = Invalid THEN Failed
                     ELSE derive32_raw(ikm, None, label(add(kp, seg)))
    IN  [x |-> Part(W.x25519_priv), k |-> Part(W.mlkem1024_seed)]

KemKey(ctx) == Hpke(ctx, W.kem)

kem_encap(ctx, peer, n) ==
    IF KemKey(ctx) = Invalid THEN Failed
    ELSE prep_base_key_for_encryption(KemKey(ctx), Random(n, "x"), peer, n)

kem_decap(ctx, me, enc) ==
    IF KemKey(ctx) = Invalid THEN Failed
    ELSE prep_base_key_for_decryption(KemKey(ctx), me, enc.x, enc.kem)

Enc(peer, n) == [x |-> Pub(Random(n, "x")), kem |-> encapsulate_kem(peer.k, n)]

\* One output of key_schedule.
Scheduled(ctx, shared_secret, info, seg) ==
    LET sched == add(Hpke(ctx, W.schedule), seg)
    IN  IF shared_secret = Failed \/ sched = Invalid THEN Failed
        ELSE derive32_raw(shared_secret, None, bind_aad(sched, info))

key_schedule(ctx, shared_secret, info) ==
    LET Out(seg) == Scheduled(ctx, shared_secret, info, seg)
        key == Out(W.key)
        base_nonce == Out(W.base_nonce)
        exporter_secret == Out(W.exporter_secret)
    IN  [ok |-> Failed \notin {key, base_nonce, exporter_secret},
         key |-> key, base_nonce |-> base_nonce, exporter_secret |-> exporter_secret]

seal_base(ctx, peer, info, aad, plaintext, n) ==
    LET hpke == key_schedule(ctx, kem_encap(ctx, peer, n), info)
        enc == Enc(peer, n)
    IN  [x |-> enc.x, kem |-> enc.kem,
         ct |-> IF hpke.ok THEN encrypt_raw(plaintext, hpke.key, hpke.base_nonce, aad)
                ELSE Failed]

open_base(ctx, me, info, aad, sealed) ==
    LET hpke == key_schedule(ctx, kem_decap(ctx, me, sealed), info)
    IN  IF hpke.ok THEN decrypt_raw(sealed.ct, hpke.key, hpke.base_nonce, aad) ELSE Failed

export_secret(ctx, hpke, exporter_context) ==
    IF ~hpke.ok \/ Hpke(ctx, W.export) = Invalid THEN Failed
    ELSE derive32_raw(hpke.exporter_secret, None, bind_aad(Hpke(ctx, W.export), exporter_context))

setup_sender_and_export(ctx, peer, info, exporter_context, n) ==
    export_secret(ctx, key_schedule(ctx, kem_encap(ctx, peer, n), info), exporter_context)

setup_receiver_and_export(ctx, me, enc, info, exporter_context) ==
    export_secret(ctx, key_schedule(ctx, kem_decap(ctx, me, enc), info), exporter_context)
=============================================================================
