--------------------------- MODULE MCHpkeSession ----------------------------
(***************************************************************************)
(* HpkeSession for TLC: sequence numbers of Width bits and seq_nonce as    *)
(* the code computes it, each bit of the base nonce's last bytes flipped   *)
(* where the sequence number has a 1.                                      *)
(***************************************************************************)
EXTENDS HpkeSession

CONSTANTS s1, s2

Width == 2
BaseNonce == <<1, 0>>

\* seq_nonce: base_nonce XOR seq.
XorNonce(seq) == [i \in 1..Width |-> (BaseNonce[i] + (seq \div 2^(Width - i))) % 2]

TwoSessions == {s1, s2}
=============================================================================
