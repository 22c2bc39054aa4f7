------------------------------ MODULE Envelope ------------------------------
(***************************************************************************)
(* Everything the library seals, side by side: AEAD blobs, KyberBox and    *)
(* Dual messages, HPKE single-shot messages and exported secrets, wrapped  *)
(* OPAQUE keys, keyfiles and signatures.  The calls that seal are actions. *)
(* The calls that open change nothing, so they are operators, applied in   *)
(* every state to every message that can be put together from the parts    *)
(* of the sealed ones: parts mixed up, misdelivered to another recipient,  *)
(* opened by another call, in another context, with other data.            *)
(***************************************************************************)
EXTENDS HpkeSuite

CONSTANTS
    Users,      \* numbers of key pairs and symmetric keys
    KeyPath,    \* [Users -> paths]: the context a user's HPKE keys come from
    Infos,      \* HPKE info strings, and keyfile key types
    Aads,       \* associated data, messages to sign, exporter contexts
    Paths,      \* segments of the contexts in use once they are all built
    MaxSeals    \* bound: calls that seal

\* A path is a context: it has no byte that base and add refuse.
ASSUME EnvelopeAssumption ==
    /\ Users \subseteq Nat
    /\ \A u \in Users : KeyPath[u] \in Seq(Printable \cup {Slash}) \ {<< >>}
    /\ \A u, v \in Users : KeyPath[u] = KeyPath[v] => u = v
    /\ Infos \subseteq Seq(Nat)
    /\ Aads \subseteq Seq(Nat)
    /\ MaxSeals \in Nat

VARIABLES
    sealed,     \* what was sealed: the call, its data and its parts
    n           \* the number of the call being made; its random values bear it

vars == <<built, sealed, n>>

Data == <<"data", n>>            \* its plaintext

Texts == {c.text : c \in built}
Ready == {c.segs : c \in built} = Paths

Call(api, ctx, to, info, aad) == [api |-> api, ctx |-> ctx, to |-> to, info |-> info, aad |-> aad]

\* What travels or is stored; a part that a message does not have is None.
Pieces(reply, x, kem, wrap, ct) ==
    [reply |-> reply, x |-> x, kem |-> kem, wrap |-> wrap, ct |-> ct]

\* The call is recorded if it succeeded; a failed one leaves no trace.
Sealed(call, data, parts) ==
    /\ Ready /\ n <= MaxSeals
    /\ parts.ct # Failed
    /\ sealed' = sealed \cup {[n |-> n, call |-> call, data |-> data, parts |-> parts]}
    /\ n' = n + 1
    /\ UNCHANGED built

-----------------------------------------------------------------------------
\* Keys.  The box and HPKE take the same kind of key pair, and a user has one for
\* both.  All are derived from one secret, in a context of the user's own: that
\* keeps less apart than random_keypair, which draws a secret for each.
KeyPair(u) == derive_keypair(KeyPath[u], <<"ikm">>)
Symmetric(u) == Static(u, "symmetric")

\* dek_ctx, wrap_key of opaque/dek.rs.
dek_ctx == add(add(base(W.lithium), W.opaque), W.dek_wrap)
wrap_key(u, aad) == derive32(Symmetric(u), None, dek_ctx, aad)

\* aad_for, derive_kek, unwrap_dek of keys/keyfile.rs.
aad_for(key_type) == <<200, 1>> \o key_type
derive_kek(mk, salt) == derive32_raw(Symmetric(mk), salt, <<201>>)
unwrap_dek(mk, wrap, aad) == decrypt_raw(wrap[3], derive_kek(mk, wrap[1]), wrap[2], aad)
wrap_dek(mk, dek, aad, k) ==
    LET salt == Random(k, "salt")  nonce == Random(k, "nonce-wrap")
    IN  <<salt, nonce, encrypt_raw(dek, derive_kek(mk, salt), nonce, aad)>>

\* The contexts of the keys are short enough; and no aad begins with the bytes of
\* a reply key, which are drawn after it was chosen (a box and a Dual message are
\* sealed in the same contexts: only the aad tells them apart).
ASSUME KeysAssumption ==
    /\ \A u \in Users : KeyPair(u).x # Failed
    /\ dek_ctx # Invalid
    /\ \A a \in Aads : \A k \in 1 .. MaxSeals : a = << >> \/ a[1] # 100 + k

-----------------------------------------------------------------------------
\* The calls that seal.
Encrypt(ctx, u, aad) ==
    Sealed(Call("aead", ctx, u, << >>, aad), Data,
           Pieces(None, None, None, None,
                  encrypt(Data, Symmetric(u), ctx, aad, Random(n, "nonce"))))

BoxSeal(ctx, u, aad) ==
    LET s == seal(ctx, Public(KeyPair(u)), aad, Data, n)
    IN  Sealed(Call("box", ctx, u, << >>, aad), Data,
               Pieces(None, s.x, s.kem, None, s.ct))

SealWithReply(ctx, u, aad) ==
    LET s == DualSeal(ctx, Public(KeyPair(u)), aad, Data, n)
    IN  Sealed(Call("dual", ctx, u, << >>, aad), Data,
               Pieces(s.reply, s.x, s.kem, None, s.ct))

HpkeSeal(ctx, u, info, aad) ==
    LET s == seal_base(ctx, Public(KeyPair(u)), info, aad, Data, n)
    IN  Sealed(Call("hpke", ctx, u, info, aad), Data,
               Pieces(None, s.x, s.kem, None, s.ct))

\* Only enc travels; the exported secret stays with the sender.
HpkeExport(ctx, u, info, exporter_context) ==
    LET peer == Public(KeyPair(u))
        secret == setup_sender_and_export(ctx, peer, info, exporter_context, n)
    IN  /\ secret # Failed
        /\ Sealed(Call("export", ctx, u, info, exporter_context), secret,
                  Pieces(None, Enc(peer, n).x, Enc(peer, n).kem, None, None))

WrapDek(u, aad) ==
    Sealed(Call("dek", dek_ctx, u, << >>, aad), Data,
           Pieces(None, None, None, None,
                  encrypt(Data, wrap_key(u, aad), dek_ctx, aad, Random(n, "nonce"))))

\* encode_encrypted: a fresh key for the payload, wrapped under the master key.
WriteKeyfile(mk, key_type) ==
    LET dek == Random(n, "dek")  nonce == Random(n, "nonce")
    IN  Sealed(Call("keyfile", << >>, mk, key_type, << >>), Data,
               Pieces(None, None, None, wrap_dek(mk, dek, aad_for(key_type), n),
                      <<"payload", nonce, encrypt_raw(Data, dek, nonce, aad_for(key_type))>>))

\* rewrap_keyfile_dek: the payload stays, its key is wrapped anew.
RewrapKeyfile(m, new_mk) ==
    LET aad == aad_for(m.call.info)
        dek == unwrap_dek(m.call.to, m.parts.wrap, aad)
    IN  /\ m.call.api = "keyfile"
        /\ dek # Failed
        /\ Sealed([m.call EXCEPT !.to = new_mk], m.data,
                  [m.parts EXCEPT !.wrap = wrap_dek(new_mk, dek, aad, n)])

\* sign_message, sign_message_dili; the Ed25519 half travels as wrap.
sign_message(msg, u, ctx) == Signature("ed25519", Static(u, "ed"), bind_aad(ctx, msg))
sign_message_dili(msg, u, ctx) == Signature("mldsa87", Static(u, "dili"), bind_aad(ctx, msg))

SignEd(ctx, u, msg) ==
    Sealed(Call("ed", ctx, u, << >>, msg), None,
           Pieces(None, None, None, sign_message(msg, u, ctx), None))

SignDili(ctx, u, msg) ==
    Sealed(Call("dili", ctx, u, << >>, msg), None,
           Pieces(None, None, None, None, sign_message_dili(msg, u, ctx)))

\* sign_double is sign_message and sign_message_dili of the same message.
SignDouble(ctx, u, msg) ==
    Sealed(Call("double", ctx, u, << >>, msg), None,
           Pieces(None, None, None,
                  sign_message(msg, u, ctx), sign_message_dili(msg, u, ctx)))

-----------------------------------------------------------------------------
Init == BuildInit /\ sealed = {} /\ n = 1

\* Contexts never change once built: they are all built before the first seal.
Build == BuildNext /\ sealed = {} /\ UNCHANGED <<sealed, n>>

Next ==
    \/ Build
    \/ \E ctx \in Texts, u \in Users, aad \in Aads :
          \/ Encrypt(ctx, u, aad)
          \/ BoxSeal(ctx, u, aad)
          \/ SealWithReply(ctx, u, aad)
          \/ \E info \in Infos : HpkeSeal(ctx, u, info, aad)
          \/ \E info \in Infos : HpkeExport(ctx, u, info, aad)
          \/ SignEd(ctx, u, aad)
          \/ SignDili(ctx, u, aad)
          \/ SignDouble(ctx, u, aad)
    \/ \E u \in Users, aad \in Aads : WrapDek(u, aad)
    \/ \E u \in Users, key_type \in Infos : WriteKeyfile(u, key_type)
    \/ \E m \in sealed, u \in Users : RewrapKeyfile(m, u)

Spec == Init /\ [][Next]_vars

-----------------------------------------------------------------------------
\* The calls that open, given what arrived as parts.  The text of a wrapped key,
\* its version and its length are checked in WireFormats (WrappedDek).
unwrap_dek_under_export_key(u, aad, blob) == decrypt(blob, wrap_key(u, aad), dek_ctx, aad)

load_bytes_decrypted(mk, key_type, p) ==
    LET dek == unwrap_dek(mk, p.wrap, aad_for(key_type))
    IN  IF dek = Failed \/ p.ct[1] # "payload" THEN Failed
        ELSE decrypt_raw(p.ct[3], dek, p.ct[2], aad_for(key_type))

\* What call c gives for the parts p.
Open(c, p) ==
    CASE c.api = "aead" -> decrypt(p.ct, Symmetric(c.to), c.ctx, c.aad)
      [] c.api = "box" -> open(c.ctx, KeyPair(c.to), c.aad, p)
      [] c.api = "dual" -> DualOpen(c.ctx, KeyPair(c.to), c.aad, p)
      [] c.api = "hpke" -> open_base(c.ctx, KeyPair(c.to), c.info, c.aad, p)
      [] c.api = "export" -> setup_receiver_and_export(c.ctx, KeyPair(c.to), p, c.info, c.aad)
      [] c.api = "dek" -> unwrap_dek_under_export_key(c.to, c.aad, p.ct)
      [] c.api = "keyfile" -> load_bytes_decrypted(c.to, c.info, p)

verify_signature(msg, sig, u, ctx) == sig = sign_message(msg, u, ctx)
verify_signature_dili(msg, sig, u, ctx) == sig = sign_message_dili(msg, u, ctx)

\* Mutant of verify_double: one good half is enough.
verify_double_either(msg, ed, dili, u, ctx) ==
    verify_signature(msg, ed, u, ctx) \/ verify_signature_dili(msg, dili, u, ctx)

verify_double(msg, ed, dili, u, ctx) ==
    verify_signature(msg, ed, u, ctx) /\ verify_signature_dili(msg, dili, u, ctx)

-----------------------------------------------------------------------------
\* Every call that opens ...
Calls(api) ==
    CASE api \in {"aead", "box", "dual"} ->
            {Call(api, ctx, u, << >>, aad) : ctx \in Texts, u \in Users, aad \in Aads}
      [] api \in {"hpke", "export"} ->
            {Call(api, ctx, u, info, aad) :
                ctx \in Texts, u \in Users, info \in Infos, aad \in Aads}
      [] api = "dek" -> {Call(api, dek_ctx, u, << >>, aad) : u \in Users, aad \in Aads}
      [] api = "keyfile" -> {Call(api, << >>, u, info, << >>) : u \in Users, info \in Infos}

\* ... and every message the parts of the sealed ones make up for it.
Seen(part) == {m.parts[part] : m \in sealed} \ {None}
Xs == Seen("x") \cup {LowOrder}
Kems == Seen("kem")
Cts == Seen("ct")
Arrivals(api) ==
    CASE api \in {"aead", "dek"} -> {Pieces(None, None, None, None, ct) : ct \in Cts}
      [] api \in {"box", "hpke"} ->
            {Pieces(None, x, kem, None, ct) : x \in Xs, kem \in Kems, ct \in Cts}
      [] api = "dual" ->
            {Pieces(r, x, kem, None, ct) :
                r \in Seen("reply"), x \in Xs, kem \in Kems, ct \in Cts}
      [] api = "export" -> {Pieces(None, x, kem, None, None) : x \in Xs, kem \in Kems}
      [] api = "keyfile" ->
            {Pieces(None, None, None, w, ct) :
                w \in {m.parts.wrap : m \in {s \in sealed : s.call.api = "keyfile"}}, ct \in Cts}

Apis == {"aead", "box", "dual", "hpke", "export", "dek", "keyfile"}

(***************************************************************************)
(* A call that opens gives the data of a message that was sealed by the    *)
(* matching call, for the same recipient, in the same context and with the *)
(* same info and associated data (and, for Dual, with the reply key it     *)
(* returns), whatever parts it is given.  A receiver exports a secret of   *)
(* some sender only if it agrees with that sender in all of these.         *)
(* Conversely, what was sealed opens: the recipient arrives at the key the *)
(* sender used, and a rewrapped keyfile still yields its payload.          *)
(***************************************************************************)
OpensExactlyAsSealed ==
    /\ \A api \in Apis : \A p \in Arrivals(api) : \A c \in Calls(api) :
           LET r == Open(c, p)
           IN  (IF api = "export" THEN \E m \in sealed : m.data = r ELSE r # Failed) =>
               \E m \in sealed :
                   m.call = c /\ m.data = r /\ (api = "dual" => m.parts.reply = p.reply)
    /\ \A m \in sealed : m.call.api \in Apis => Open(m.call, m.parts) = m.data

(***************************************************************************)
(* A double signature that verifies has both halves made by the signer for *)
(* that message in that context, even when halves of other signatures, or  *)
(* single signatures, are put together.                                    *)
(***************************************************************************)
BothSignaturesNeeded ==
    \A ed \in Seen("wrap"), dili \in Cts, ctx \in Texts, u \in Users, msg \in Aads :
        verify_double(msg, ed, dili, u, ctx) =>
            LET SignedBy(algs) ==
                    \E m \in sealed : /\ m.call.api \in algs
                                      /\ m.call.ctx = ctx /\ m.call.to = u /\ m.call.aad = msg
            IN  SignedBy({"ed", "double"}) /\ SignedBy({"dili", "double"})
=============================================================================
