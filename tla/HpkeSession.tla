----------------------------- MODULE HpkeSession -----------------------------
(***************************************************************************)
(* HPKE multi-message contexts (src/hpke/session.rs) between senders and   *)
(* one recipient, over a channel that may lose, repeat, reorder, damage or *)
(* misroute messages.                                                      *)
(*                                                                         *)
(* External cryptography is ideal: encapsulation gives a session its own   *)
(* enc, the schedule gives one key per enc and info (the Context that is   *)
(* threaded through both counts as part of info), and a ciphertext opens   *)
(* exactly under its own key, nonce and aad.                               *)
(*                                                                         *)
(* A session is named by its enc.  sealed, got and strayed are history:    *)
(* how many messages were sealed, what open returned, and whether it was   *)
(* ever given anything but the next message of the stream.                 *)
(***************************************************************************)
EXTENDS Integers, Sequences

CONSTANTS
    Sessions,     \* the encs produced
    Infos,        \* values of ctx and info
    Aads,         \* values of aad
    MaxSeq,       \* u64::MAX
    SeqNonce(_),  \* seq_nonce for the key's base nonce
    NoInfo,
    Damaged       \* a ciphertext no key opens

VARIABLES
    sinfo,     \* the info each sender was set up with, or None
    sseq,      \* HpkeSenderContext::seq
    sealed,    \* number of messages sealed
    net,       \* every message ever sent
    rinfo,     \* the info each receiver was set up with, or None
    rseq,      \* HpkeReceiverContext::seq
    poisoned,  \* HpkeReceiverContext::poisoned
    got,       \* the messages open returned
    strayed    \* was open ever called out of turn?

senderVars == <<sinfo, sseq, sealed, net>>
receiverVars == <<rinfo, rseq, poisoned, got, strayed>>
sessionVars == <<senderVars, receiverVars>>

Key == [enc : Sessions, info : Infos]
Body == [from : Sessions, n : Nat]
Message == [key : Key, nonce : {SeqNonce(i) : i \in 0..MaxSeq}, aad : Aads, body : Body]

ASSUME HpkeAssumption ==
    /\ MaxSeq \in Nat
    /\ \A i, j \in 0..MaxSeq : SeqNonce(i) = SeqNonce(j) => i = j
    /\ NoInfo \notin Infos
    /\ Damaged \notin Message

-----------------------------------------------------------------------------
\* key_schedule over the shared secret of enc.
KeySchedule(enc, info) == [enc |-> enc, info |-> info]

\* kem_encap, key_schedule
SetupSender(s, info) ==
    /\ sinfo[s] = NoInfo
    /\ sinfo' = [sinfo EXCEPT ![s] = info]
    /\ sseq' = [sseq EXCEPT ![s] = 0]
    /\ UNCHANGED <<sealed, net, receiverVars>>

\* kem_decap of an enc that was sent, key_schedule
SetupReceiver(s, info) ==
    /\ sinfo[s] # NoInfo
    /\ rinfo[s] = NoInfo
    /\ rinfo' = [rinfo EXCEPT ![s] = info]
    /\ rseq' = [rseq EXCEPT ![s] = 0]
    /\ poisoned' = [poisoned EXCEPT ![s] = FALSE]
    /\ UNCHANGED <<senderVars, got, strayed>>

\* Mutant of Seal: the sequence number wraps around.
SealWraps(s, aad) ==
    /\ sinfo[s] # NoInfo
    /\ sealed[s] <= MaxSeq + 1
    /\ net' = net \cup {[key |-> KeySchedule(s, sinfo[s]),
                         nonce |-> SeqNonce(sseq[s]),
                         aad |-> aad,
                         body |-> [from |-> s, n |-> sealed[s] + 1]]}
    /\ sseq' = [sseq EXCEPT ![s] = (@ + 1) % (MaxSeq + 1)]
    /\ sealed' = [sealed EXCEPT ![s] = @ + 1]
    /\ UNCHANGED <<sinfo, receiverVars>>

\* HpkeSenderContext::seal; at u64::MAX it is an error that changes nothing.
Seal(s, aad) ==
    /\ sinfo[s] # NoInfo
    /\ sseq[s] # MaxSeq
    /\ net' = net \cup {[key |-> KeySchedule(s, sinfo[s]),
                         nonce |-> SeqNonce(sseq[s]),
                         aad |-> aad,
                         body |-> [from |-> s, n |-> sealed[s] + 1]]}
    /\ sseq' = [sseq EXCEPT ![s] = @ + 1]
    /\ sealed' = [sealed EXCEPT ![s] = @ + 1]
    /\ UNCHANGED <<sinfo, receiverVars>>

\* Mutant of Decrypts: the receiver takes any message of the session.
DecryptsAnySeq(r, m, aad) ==
    /\ m # Damaged
    /\ m.key = KeySchedule(r, rinfo[r])
    /\ m.aad = aad

\* aead::decrypt_raw under the receiver's key and the nonce of its seq.
Decrypts(r, m, aad) ==
    /\ m # Damaged
    /\ m.key = KeySchedule(r, rinfo[r])
    /\ m.nonce = SeqNonce(rseq[r])
    /\ m.aad = aad

\* The caller hands over the next message of the stream, with its aad.
InTurn(r, m, aad) ==
    /\ m # Damaged
    /\ m.body = [from |-> r, n |-> Len(got[r]) + 1]
    /\ m.aad = aad

\* Mutant of Open: a failure does not poison the receiver.
OpenRetries(r, m, aad) ==
    /\ rinfo[r] # NoInfo
    /\ ~poisoned[r]
    /\ strayed' = [strayed EXCEPT ![r] = @ \/ ~InTurn(r, m, aad)]
    /\ \/ /\ rseq[r] # MaxSeq /\ Decrypts(r, m, aad)
          /\ rseq' = [rseq EXCEPT ![r] = @ + 1]
          /\ got' = [got EXCEPT ![r] = Append(@, m.body)]
       \/ /\ rseq[r] = MaxSeq \/ ~Decrypts(r, m, aad)
          /\ UNCHANGED <<rseq, got>>
    /\ UNCHANGED <<rinfo, poisoned, senderVars>>

\* Mutant of Open: the limit is met one message early.
OpenStopsEarly(r, m, aad) ==
    /\ rinfo[r] # NoInfo
    /\ ~poisoned[r]
    /\ strayed' = [strayed EXCEPT ![r] = @ \/ ~InTurn(r, m, aad)]
    /\ \/ /\ rseq[r] + 1 # MaxSeq /\ Decrypts(r, m, aad)
          /\ rseq' = [rseq EXCEPT ![r] = @ + 1]
          /\ got' = [got EXCEPT ![r] = Append(@, m.body)]
          /\ UNCHANGED poisoned
       \/ /\ rseq[r] + 1 = MaxSeq \/ ~Decrypts(r, m, aad)
          /\ poisoned' = [poisoned EXCEPT ![r] = TRUE]
          /\ UNCHANGED <<rseq, got>>
    /\ UNCHANGED <<rinfo, senderVars>>

\* HpkeReceiverContext::open; once poisoned it is an error that changes nothing.
Open(r, m, aad) ==
    /\ rinfo[r] # NoInfo
    /\ ~poisoned[r]
    /\ strayed' = [strayed EXCEPT ![r] = @ \/ ~InTurn(r, m, aad)]
    /\ \/ /\ rseq[r] # MaxSeq /\ Decrypts(r, m, aad)
          /\ rseq' = [rseq EXCEPT ![r] = @ + 1]
          /\ got' = [got EXCEPT ![r] = Append(@, m.body)]
          /\ UNCHANGED poisoned
       \/ /\ rseq[r] = MaxSeq \/ ~Decrypts(r, m, aad)
          /\ poisoned' = [poisoned EXCEPT ![r] = TRUE]
          /\ UNCHANGED <<rseq, got>>
    /\ UNCHANGED <<rinfo, senderVars>>

-----------------------------------------------------------------------------
SessionInit ==
    /\ sinfo = [s \in Sessions |-> NoInfo]
    /\ sseq = [s \in Sessions |-> 0]
    /\ sealed = [s \in Sessions |-> 0]
    /\ net = {}
    /\ rinfo = [s \in Sessions |-> NoInfo]
    /\ rseq = [s \in Sessions |-> 0]
    /\ poisoned = [s \in Sessions |-> FALSE]
    /\ got = [s \in Sessions |-> << >>]
    /\ strayed = [s \in Sessions |-> FALSE]

Receive(s) == \E m \in net \cup {Damaged}, aad \in Aads : Open(s, m, aad)

SessionNext ==
    \E s \in Sessions :
        \/ \E info \in Infos : SetupSender(s, info) \/ SetupReceiver(s, info)
        \/ \E aad \in Aads : Seal(s, aad)
        \/ Receive(s)

SessionSpec == SessionInit /\ [][SessionNext]_sessionVars

\* The caller keeps offering what arrives.
SessionFairSpec == SessionSpec /\ \A s \in Sessions : WF_sessionVars(Receive(s))

-----------------------------------------------------------------------------
(***************************************************************************)
(* Properties.                                                             *)
(***************************************************************************)

\* Every variable keeps its type.
SessionTypeOK ==
    /\ sinfo \in [Sessions -> Infos \cup {NoInfo}]
    /\ sseq \in [Sessions -> 0..MaxSeq]
    /\ sealed \in [Sessions -> Nat]
    /\ net \subseteq Message
    /\ rinfo \in [Sessions -> Infos \cup {NoInfo}]
    /\ rseq \in [Sessions -> 0..MaxSeq]
    /\ poisoned \in [Sessions -> BOOLEAN]
    /\ got \in [Sessions -> Seq(Body)]
    /\ strayed \in [Sessions -> BOOLEAN]

\* What open returns is a prefix of what was sealed in that session, in order,
\* without gaps or repeats, whatever the channel does, and nothing at all when
\* the two sides disagree on info (session.rs open, seal).
DeliveredPrefix ==
    \A r \in Sessions :
        /\ Len(got[r]) <= sealed[r]
        /\ \A i \in 1..Len(got[r]) : got[r][i] = [from |-> r, n |-> i]
        /\ got[r] # << >> => rinfo[r] = sinfo[r]

\* No two messages are sealed under the same key and nonce, up to the limit of
\* the sequence number (session.rs seal, seq_nonce).
NonceOnce ==
    \A m1, m2 \in net : (m1.key = m2.key /\ m1.nonce = m2.nonce) => m1 = m2

\* A lost, repeated, reordered, misrouted or damaged message, or a wrong aad, ends
\* the stream: after it open returns nothing more, even if the right message
\* comes next (session.rs open, where a failure poisons the receiver).
StrayIsFinal ==
    [][\A r \in Sessions : strayed[r] => got'[r] = got[r]]_sessionVars

\* As long as its callers keep the order, a receiver keeps up: every message that
\* can be sealed is opened in the end, the last one before the limit included
\* (the bounds of seal and open).
AllOpened ==
    \A s \in Sessions, n \in 1..MaxSeq :
        (sealed[s] >= n /\ sinfo[s] = rinfo[s]) ~> (Len(got[s]) >= n \/ strayed[s])
=============================================================================
