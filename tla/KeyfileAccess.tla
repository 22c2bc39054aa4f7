--------------------------- MODULE KeyfileAccess ---------------------------
(***************************************************************************)
(* The write path and the record layout together: what a reader of the     *)
(* keyfile gets while writers, kills and power losses go on.               *)
(***************************************************************************)
EXTENDS KeyfileWrites, KeyfileRecord

CONSTANT MaxKeyfileSize      \* MAX_KEYFILE_SIZE, 64 KiB in the code

\* encode_encrypted: the record of call i; the payload tells calls apart.
Encoded(i) ==
    [version       |-> KEYFILE_VERSION,
     alg_id        |-> ALG_ID_AES256_GCM_SIV,
     dek_len       |-> DekLen,
     salt          |-> [j \in 1 .. SaltLen |-> i % Radix],
     nonce_wrap    |-> [j \in 1 .. NonceLen |-> i % Radix],
     ct_wrap       |-> [j \in 1 .. CtWrapLen |-> i % Radix],
     nonce_payload |-> [j \in 1 .. NonceLen |-> i % Radix],
     ct_payload    |-> <<i % Radix>>]

ASSUME AccessAssumption ==
    /\ RecLen = Len(build_record(Encoded(0)))
    /\ RecLen <= MaxKeyfileSize

Contents(i) == SubSeq(build_record(Encoded(i)), 1, got[i])

\* check_keyfile_metadata: of the mode and the size; every file is a regular one.
check_keyfile_metadata(i) == i \in private /\ got[i] <= MaxKeyfileSize

\* read_keyfile_bytes, parse_keyfile and the header check of load_bytes_decrypted.
load(i) ==
    LET record == parse_keyfile(Contents(i))
    IN  IF check_keyfile_metadata(i) /\ Supported(record) THEN record ELSE Malformed

(***************************************************************************)
(* At every moment, whatever the writers are doing and whatever power loss *)
(* has left, the file at the path is one that read_keyfile_bytes accepts   *)
(* and parse_keyfile takes for exactly the record its call encoded.        *)
(***************************************************************************)
ThePathLoads ==
    entry[Target] # None => load(entry[Target]) = Encoded(entry[Target])

(***************************************************************************)
(* parse_keyfile and build_record are inverse to each other and no torn    *)
(* record parses (LayoutInverts).  The layout depends on no call, so it is *)
(* looked at before the first one.                                         *)
(***************************************************************************)
ParseInvertsBuild == calls = 0 => LayoutInverts
=============================================================================
