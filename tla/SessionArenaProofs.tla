------------------------- MODULE SessionArenaProofs -------------------------
(***************************************************************************)
(* Theorems about two components that share nothing: the streams of HPKE   *)
(* (HpkeSession), for any number of sessions, any limit of the sequence    *)
(* number and any injective seq_nonce, and the memory that secrets live in *)
(* (SecretArena, ArenaGrowth), for every size, handles and set of lengths. *)
(***************************************************************************)
EXTENDS HpkeSession, ArenaGrowth, TLAPS

-----------------------------------------------------------------------------
(***************************************************************************)
(* Streams.  A sender's sequence number counts the messages it sealed, so a*)
(* message's nonce names its place in the stream (Sent); a receiver's counts*)
(* what it delivered, poisoned or not (Received).  What it can decrypt is  *)
(* then the message at the place it has reached.                           *)
(***************************************************************************)
\* A message on the channel is the n-th of its session, sealed under the
\* session's key with the nonce of n - 1, and there is only one such.
Sent ==
    /\ \A s \in Sessions : sealed[s] = sseq[s] /\ (sinfo[s] = NoInfo => sealed[s] = 0)
    /\ \A m \in net :
          /\ m.body.n \in 1..sealed[m.body.from]
          /\ sinfo[m.body.from] # NoInfo
          /\ m.key = [enc |-> m.body.from, info |-> sinfo[m.body.from]]
          /\ m.nonce = SeqNonce(m.body.n - 1)
    /\ \A m1, m2 \in net : m1.body = m2.body => m1 = m2

\* A receiver stands where its deliveries end, and has not delivered anything out
\* of turn without being poisoned.
Received ==
    \A r \in Sessions :
        /\ rseq[r] = Len(got[r])
        /\ strayed[r] => poisoned[r]
        /\ rinfo[r] = NoInfo => (got[r] = << >> /\ ~strayed[r])

\* The inductive invariant of the sessions.
StreamInv == SessionTypeOK /\ Sent /\ Received /\ DeliveredPrefix

\* The initial state has no sessions.
LEMMA StreamInit ==
    SessionInit => StreamInv
<1> SUFFICES ASSUME SessionInit PROVE StreamInv
  OBVIOUS
<1>1. SessionTypeOK
  <2>1. sseq \in [Sessions -> 0..MaxSeq] /\ sealed \in [Sessions -> Nat]
        /\ rseq \in [Sessions -> 0..MaxSeq]
    BY HpkeAssumption DEF SessionInit
  <2>2. sinfo \in [Sessions -> Infos \cup {NoInfo}] /\ rinfo \in [Sessions -> Infos \cup {NoInfo}]
    BY DEF SessionInit
  <2>3. poisoned \in [Sessions -> BOOLEAN] /\ strayed \in [Sessions -> BOOLEAN]
    BY Zenon DEF SessionInit
  <2>4. got \in [Sessions -> Seq(Body)]
    BY DEF SessionInit
  <2> QED
    BY <2>1, <2>2, <2>3, <2>4 DEF SessionInit, SessionTypeOK
<1>2. Sent
  BY DEF SessionInit, Sent
<1>3. Received
  <2>1. \A r \in Sessions : ~strayed[r]
    BY Zenon DEF SessionInit
  <2>2. \A r \in Sessions : rseq[r] = Len(got[r]) /\ got[r] = << >>
    BY DEF SessionInit
  <2> QED
    BY <2>1, <2>2, ZenonT(30) DEF Received
<1>4. DeliveredPrefix
  BY DEF SessionInit, DeliveredPrefix
<1> QED
  BY <1>1, <1>2, <1>3, <1>4 DEF StreamInv

\* Setting up a sender touches no message (setup_sender).
LEMMA SetupSenderStep ==
    ASSUME StreamInv, NEW s \in Sessions, NEW info \in Infos, SetupSender(s, info)
    PROVE  StreamInv'
<1>1. /\ sinfo[s] = NoInfo
      /\ sinfo' = [sinfo EXCEPT ![s] = info]
      /\ sseq' = [sseq EXCEPT ![s] = 0]
      /\ UNCHANGED <<sealed, net, rinfo, rseq, poisoned, got, strayed>>
  BY DEF SetupSender, receiverVars
<1>2. sealed[s] = 0 /\ sseq[s] = 0
  BY <1>1 DEF StreamInv, Sent
<1>3. \A t \in Sessions : sinfo'[t] = (IF t = s THEN info ELSE sinfo[t]) /\ sseq'[t] = sseq[t]
  BY <1>1, <1>2 DEF StreamInv, SessionTypeOK
<1>4. SessionTypeOK'
  <2>1. sseq' \in [Sessions -> 0..MaxSeq] /\ sinfo' \in [Sessions -> Infos \cup {NoInfo}]
    BY <1>1, HpkeAssumption DEF StreamInv, SessionTypeOK
  <2> QED
    BY <1>1, <2>1, Zenon DEF StreamInv, SessionTypeOK
<1>5. Sent'
  <2>1. \A m \in net : m.body.from # s /\ m.body.from \in Sessions
    BY <1>1, ZenonT(30) DEF StreamInv, SessionTypeOK, Sent, Message, Body
  <2> QED
    BY <1>1, <1>3, <2>1, HpkeAssumption DEF StreamInv, Sent
<1>6. Received'
  BY <1>1 DEF StreamInv, Received
<1>7. DeliveredPrefix'
  <2>1. got[s] = << >>
    BY <1>2 DEF StreamInv, DeliveredPrefix, SessionTypeOK
  <2> QED
    BY <1>1, <1>3, <2>1 DEF StreamInv, DeliveredPrefix
<1> QED
  BY <1>4, <1>5, <1>6, <1>7 DEF StreamInv

\* Setting up a receiver delivers nothing (setup_receiver).
LEMMA SetupReceiverStep ==
    ASSUME StreamInv, NEW s \in Sessions, NEW info \in Infos, SetupReceiver(s, info)
    PROVE  StreamInv'
<1>1. /\ rinfo[s] = NoInfo
      /\ rinfo' = [rinfo EXCEPT ![s] = info]
      /\ rseq' = [rseq EXCEPT ![s] = 0]
      /\ UNCHANGED <<sinfo, sseq, sealed, net, got, strayed>>
  BY DEF SetupReceiver, senderVars
<1>2. poisoned' = [poisoned EXCEPT ![s] = FALSE]
  BY Zenon DEF SetupReceiver
<1>3. got[s] = << >> /\ ~strayed[s]
  BY <1>1 DEF StreamInv, Received
<1>4. SessionTypeOK'
  <2>1. rseq' \in [Sessions -> 0..MaxSeq] /\ rinfo' \in [Sessions -> Infos \cup {NoInfo}]
    BY <1>1, HpkeAssumption DEF StreamInv, SessionTypeOK
  <2>2. poisoned' \in [Sessions -> BOOLEAN]
    BY <1>2, Zenon DEF StreamInv, SessionTypeOK
  <2> QED
    BY <1>1, <2>1, <2>2, Zenon DEF StreamInv, SessionTypeOK
<1>5. Sent'
  BY <1>1 DEF StreamInv, Sent
<1>6. Received'
  <2> SUFFICES ASSUME NEW r \in Sessions
               PROVE  /\ rseq'[r] = Len(got[r])
                      /\ strayed[r] => poisoned'[r]
                      /\ rinfo'[r] = NoInfo => (got[r] = << >> /\ ~strayed[r])
    BY <1>1 DEF Received
  <2>1. CASE r = s
    BY <2>1, <1>1, <1>3 DEF StreamInv, SessionTypeOK
  <2>2. CASE r # s
    <3>1. poisoned'[r] = poisoned[r]
      BY <2>2, <1>2, Zenon DEF StreamInv, SessionTypeOK
    <3>2. rseq'[r] = rseq[r] /\ rinfo'[r] = rinfo[r]
      BY <2>2, <1>1 DEF StreamInv, SessionTypeOK
    <3> QED
      BY <3>1, <3>2 DEF StreamInv, Received
  <2> QED
    BY <2>1, <2>2
<1>7. DeliveredPrefix'
  BY <1>1, <1>3 DEF StreamInv, SessionTypeOK, DeliveredPrefix
<1> QED
  BY <1>4, <1>5, <1>6, <1>7 DEF StreamInv

\* seal adds the next message of its session, under a nonce of its own.
LEMMA SealStep ==
    ASSUME StreamInv, NEW s \in Sessions, NEW aad \in Aads, Seal(s, aad)
    PROVE  StreamInv'
<1> DEFINE new == [key |-> [enc |-> s, info |-> sinfo[s]], nonce |-> SeqNonce(sseq[s]),
                   aad |-> aad, body |-> [from |-> s, n |-> sealed[s] + 1]]
<1>1. /\ sinfo[s] # NoInfo
      /\ sseq[s] # MaxSeq
      /\ net' = net \cup {new}
      /\ sseq' = [sseq EXCEPT ![s] = @ + 1]
      /\ sealed' = [sealed EXCEPT ![s] = @ + 1]
      /\ UNCHANGED <<sinfo, rinfo, rseq, poisoned, got, strayed>>
  BY DEF Seal, KeySchedule, receiverVars
<1>2. sealed[s] = sseq[s] /\ sseq[s] \in 0..MaxSeq /\ MaxSeq \in Nat /\ sinfo[s] \in Infos
  BY <1>1, HpkeAssumption DEF StreamInv, Sent, SessionTypeOK
<1>3. /\ new.body.from = s
      /\ new.body.n = sealed[s] + 1
      /\ new.key = [enc |-> s, info |-> sinfo[s]]
      /\ new.nonce = SeqNonce(sseq[s])
  OBVIOUS
<1>4. new \in Message
  <2>1. [enc |-> s, info |-> sinfo[s]] \in Key
    BY <1>2 DEF Key
  <2>2. [from |-> s, n |-> sealed[s] + 1] \in Body
    BY <1>2 DEF Body
  <2>3. SeqNonce(sseq[s]) \in {SeqNonce(i) : i \in 0..MaxSeq}
    BY <1>2
  <2> QED
    BY <2>1, <2>2, <2>3 DEF Message
<1> HIDE DEF new
<1>5. \A t \in Sessions : /\ sealed'[t] = IF t = s THEN sealed[t] + 1 ELSE sealed[t]
                          /\ sseq'[t] = IF t = s THEN sseq[t] + 1 ELSE sseq[t]
                          /\ sealed[t] \in Nat
  BY <1>1 DEF StreamInv, SessionTypeOK
<1>6. SessionTypeOK'
  <2>1. sseq' \in [Sessions -> 0..MaxSeq] /\ sealed' \in [Sessions -> Nat]
    BY <1>1, <1>2 DEF StreamInv, SessionTypeOK
  <2>2. net' \subseteq Message
    BY <1>1, <1>4 DEF StreamInv, SessionTypeOK
  <2> QED
    BY <1>1, <2>1, <2>2, Zenon DEF StreamInv, SessionTypeOK
<1>7. \A m \in net : m.body \in Body /\ m.body.from \in Sessions /\ m.body.n \in Nat
  BY DEF StreamInv, SessionTypeOK, Message, Body
<1>8. Sent'
  <2>1. \A t \in Sessions : sealed'[t] = sseq'[t] /\ (sinfo'[t] = NoInfo => sealed'[t] = 0)
    BY <1>1, <1>5 DEF StreamInv, Sent
  <2>2. \A m \in net' : /\ m.body.n \in 1..sealed'[m.body.from]
                        /\ sinfo'[m.body.from] # NoInfo
                        /\ m.key = [enc |-> m.body.from, info |-> sinfo'[m.body.from]]
                        /\ m.nonce = SeqNonce(m.body.n - 1)
    <3> TAKE m \in net'
    <3>1. CASE m = new
      <4>1. m.body.n \in 1..sealed'[m.body.from]
        BY <3>1, <1>2, <1>3, <1>5
      <4>2. m.body.n - 1 = sseq[s]
        BY <3>1, <1>2, <1>3
      <4> QED
        BY <3>1, <4>1, <4>2, <1>1, <1>3
    <3>2. CASE m \in net
      <4>1. m.body.n \in 1..sealed[m.body.from]
        BY <3>2, ZenonT(30) DEF StreamInv, Sent
      <4>2. m.body.n \in 1..sealed'[m.body.from]
        BY <3>2, <4>1, <1>5, <1>7
      <4> QED
        BY <3>2, <4>2, <1>1 DEF StreamInv, Sent
    <3> QED
      BY <3>1, <3>2, <1>1
  <2>3. \A m \in net : m.body # new.body
    <3> SUFFICES ASSUME NEW m \in net, m.body = new.body PROVE FALSE
      OBVIOUS
    <3>1. m.body.n \in 1..sealed[s] /\ m.body.n = sealed[s] + 1
      BY <1>3 DEF StreamInv, Sent
    <3> QED
      BY <3>1, <1>5
  <2>4. \A m1, m2 \in net' : m1.body = m2.body => m1 = m2
    BY <2>3, <1>1 DEF StreamInv, Sent
  <2> QED
    BY <2>1, <2>2, <2>4 DEF Sent
<1>9. Received'
  BY <1>1 DEF StreamInv, Received
<1>10. DeliveredPrefix'
  <2>1. \A r \in Sessions : Len(got[r]) \in Nat
    BY DEF StreamInv, SessionTypeOK
  <2> QED
    BY <1>1, <1>5, <2>1 DEF StreamInv, DeliveredPrefix
<1> QED
  BY <1>6, <1>8, <1>9, <1>10 DEF StreamInv

\* What a receiver decrypts is the next message of its session, with the aad it
\* was sealed with (decrypt_raw, seq_nonce).
LEMMA DecryptsNext ==
    ASSUME StreamInv, NEW r \in Sessions, NEW m \in net \cup {Damaged}, NEW aad \in Aads,
           rinfo[r] # NoInfo, Decrypts(r, m, aad)
    PROVE  /\ m \in net
           /\ m.body = [from |-> r, n |-> Len(got[r]) + 1]
           /\ rinfo[r] = sinfo[r]
           /\ Len(got[r]) + 1 <= sealed[r]
           /\ InTurn(r, m, aad)
<1>1. /\ m \in net /\ m # Damaged
      /\ m.key = [enc |-> r, info |-> rinfo[r]]
      /\ m.nonce = SeqNonce(rseq[r])
      /\ m.aad = aad
  BY DEF Decrypts, KeySchedule
<1>2. m.body \in Body /\ m.body = [from |-> m.body.from, n |-> m.body.n]
  BY <1>1 DEF StreamInv, SessionTypeOK, Message, Body
<1>3. m.body.from = r /\ sinfo[r] = rinfo[r]
  <2>1. m.key.enc = r /\ m.key.info = rinfo[r]
    BY <1>1
  <2>2. m.key = [enc |-> m.body.from, info |-> sinfo[m.body.from]]
    BY <1>1 DEF StreamInv, Sent
  <2>3. m.key.enc = m.body.from /\ m.key.info = sinfo[m.body.from]
    BY <2>2
  <2> QED
    BY <2>1, <2>3
<1>4. m.body.n \in 1..sealed[r] /\ m.nonce = SeqNonce(m.body.n - 1)
  BY <1>1, <1>3 DEF StreamInv, Sent
<1>5. sealed[r] \in 0..MaxSeq /\ rseq[r] \in 0..MaxSeq /\ MaxSeq \in Nat
  BY HpkeAssumption, ZenonT(30) DEF StreamInv, SessionTypeOK, Sent
<1>6. m.body.n - 1 \in 0..MaxSeq
  BY <1>4, <1>5
<1>7. m.body.n - 1 = rseq[r]
  BY <1>1, <1>4, <1>5, <1>6, HpkeAssumption, ZenonT(30)
<1>8. rseq[r] = Len(got[r])
  BY DEF StreamInv, Received
<1>9. m.body.n = Len(got[r]) + 1
  BY <1>4, <1>5, <1>7, <1>8
<1> QED
  BY <1>1, <1>2, <1>3, <1>4, <1>5, <1>9 DEF InTurn

\* open delivers the next message or poisons the receiver.
LEMMA OpenStep ==
    ASSUME StreamInv, NEW r \in Sessions, NEW m \in net \cup {Damaged}, NEW aad \in Aads,
           Open(r, m, aad)
    PROVE  StreamInv'
<1>1. rinfo[r] # NoInfo /\ UNCHANGED <<rinfo, sinfo, sseq, sealed, net>>
  BY DEF Open, senderVars
<1>2. strayed' = [strayed EXCEPT ![r] = @ \/ ~InTurn(r, m, aad)]
  BY Zenon DEF Open
<1>3. strayed' \in [Sessions -> BOOLEAN]
  BY <1>2, Zenon DEF StreamInv, SessionTypeOK
<1>4. \A t \in Sessions : t # r => strayed'[t] = strayed[t]
  BY <1>2, Zenon DEF StreamInv, SessionTypeOK
<1>5. Sent'
  BY <1>1 DEF StreamInv, Sent
<1>6. CASE Decrypts(r, m, aad) /\ rseq[r] # MaxSeq
  <2>1. /\ rseq' = [rseq EXCEPT ![r] = @ + 1]
        /\ got' = [got EXCEPT ![r] = Append(@, m.body)]
        /\ UNCHANGED poisoned
    BY <1>6 DEF Open
  <2>2. /\ m \in net
        /\ m.body = [from |-> r, n |-> Len(got[r]) + 1]
        /\ rinfo[r] = sinfo[r]
        /\ Len(got[r]) + 1 <= sealed[r]
        /\ InTurn(r, m, aad)
    BY <1>1, <1>6, DecryptsNext
  <2>3. got[r] \in Seq(Body) /\ m.body \in Body /\ rseq[r] \in 0..MaxSeq /\ MaxSeq \in Nat
    BY <2>2, HpkeAssumption DEF StreamInv, SessionTypeOK, Message
  <2>4. /\ got' \in [Sessions -> Seq(Body)]
        /\ got'[r] = Append(got[r], m.body)
        /\ \A t \in Sessions : t # r => got'[t] = got[t]
    BY <2>1, <2>3 DEF StreamInv, SessionTypeOK
  <2>5. /\ rseq' \in [Sessions -> 0..MaxSeq]
        /\ rseq'[r] = rseq[r] + 1
        /\ \A t \in Sessions : t # r => rseq'[t] = rseq[t]
    BY <2>1, <2>3, <1>6 DEF StreamInv, SessionTypeOK
  <2>6. /\ Len(got'[r]) = Len(got[r]) + 1
        /\ got'[r] # << >>
        /\ got'[r][Len(got[r]) + 1] = m.body
        /\ \A i \in 1..Len(got[r]) : got'[r][i] = got[r][i]
    BY <2>3, <2>4
  <2>7. SessionTypeOK'
    BY <1>1, <1>3, <2>1, <2>4, <2>5, Zenon DEF StreamInv, SessionTypeOK
  <2>8. strayed'[r] = strayed[r]
    BY <1>2, <2>2, Zenon DEF StreamInv, SessionTypeOK
  <2>9. Received'
    <3> SUFFICES ASSUME NEW t \in Sessions
                 PROVE  /\ rseq'[t] = Len(got'[t])
                        /\ strayed'[t] => poisoned'[t]
                        /\ rinfo'[t] = NoInfo => (got'[t] = << >> /\ ~strayed'[t])
      BY DEF Received
    <3>1. rseq'[t] = Len(got'[t])
      BY <2>4, <2>5, <2>6, ZenonT(30) DEF StreamInv, Received
    <3>2. strayed'[t] => poisoned'[t]
      BY <1>4, <2>1, <2>8, Zenon DEF StreamInv, Received
    <3>3. rinfo'[t] = NoInfo => (got'[t] = << >> /\ ~strayed'[t])
      BY <1>1, <1>4, <2>4, <2>8, ZenonT(30) DEF StreamInv, Received
    <3> QED
      BY <3>1, <3>2, <3>3
  <2>10. DeliveredPrefix'
    <3> SUFFICES ASSUME NEW t \in Sessions
                 PROVE  /\ Len(got'[t]) <= sealed[t]
                        /\ \A i \in 1..Len(got'[t]) : got'[t][i] = [from |-> t, n |-> i]
                        /\ got'[t] # << >> => rinfo[t] = sinfo[t]
      BY <1>1 DEF DeliveredPrefix
    <3>1. CASE t # r
      BY <3>1, <2>4 DEF StreamInv, DeliveredPrefix
    <3>2. CASE t = r
      <4>1. \A i \in 1..Len(got[r]) : got[r][i] = [from |-> r, n |-> i]
        BY DEF StreamInv, DeliveredPrefix
      <4>2. Len(got[r]) \in Nat
        BY <2>3
      <4>a. \A i \in 1..Len(got'[r]) : i \in 1..Len(got[r]) \/ i = Len(got[r]) + 1
        BY <4>2, <2>6
      <4>3. \A i \in 1..Len(got'[r]) : got'[r][i] = [from |-> r, n |-> i]
        BY <4>1, <4>a, <2>2, <2>6, ZenonT(30)
      <4> QED
        BY <3>2, <4>3, <2>2, <2>6
    <3> QED
      BY <3>1, <3>2
  <2> QED
    BY <1>5, <2>7, <2>9, <2>10 DEF StreamInv
<1>7. CASE ~(Decrypts(r, m, aad) /\ rseq[r] # MaxSeq)
  <2>1. UNCHANGED <<rseq, got>>
    BY <1>7 DEF Open
  <2>2. poisoned' = [poisoned EXCEPT ![r] = TRUE]
    BY <1>7, Zenon DEF Open
  <2>3. poisoned' \in [Sessions -> BOOLEAN] /\ poisoned'[r]
    BY <2>2, Zenon DEF StreamInv, SessionTypeOK
  <2>4. \A t \in Sessions : t # r => poisoned'[t] = poisoned[t]
    BY <2>2, Zenon DEF StreamInv, SessionTypeOK
  <2>5. SessionTypeOK'
    BY <1>1, <1>3, <2>1, <2>3, Zenon DEF StreamInv, SessionTypeOK
  <2>6. Received'
    <3> SUFFICES ASSUME NEW t \in Sessions
                 PROVE  /\ rseq[t] = Len(got[t])
                        /\ strayed'[t] => poisoned'[t]
                        /\ rinfo[t] = NoInfo => (got[t] = << >> /\ ~strayed'[t])
      BY <1>1, <2>1, ZenonT(30) DEF Received
    <3>1. CASE t = r
      BY <3>1, <1>1, <2>3 DEF StreamInv, Received
    <3>2. CASE t # r
      BY <3>2, <1>4, <2>4, Zenon DEF StreamInv, Received
    <3> QED
      BY <3>1, <3>2, ZenonT(30)
  <2>7. DeliveredPrefix'
    BY <1>1, <2>1 DEF StreamInv, DeliveredPrefix
  <2> QED
    BY <1>5, <2>5, <2>6, <2>7 DEF StreamInv
<1> QED
  BY <1>6, <1>7

\* StreamInv holds in every reachable state.
THEOREM StreamInvariant ==
    SessionSpec => []StreamInv
<1>1. StreamInv /\ [SessionNext]_sessionVars => StreamInv'
  <2> SUFFICES ASSUME StreamInv, [SessionNext]_sessionVars PROVE StreamInv'
    OBVIOUS
  <2>1. CASE SessionNext
    BY <2>1, SetupSenderStep, SetupReceiverStep, SealStep, OpenStep, ZenonT(30) DEF SessionNext, Receive
  <2>2. CASE UNCHANGED sessionVars
    BY <2>2 DEF sessionVars, senderVars, receiverVars, StreamInv, SessionTypeOK, Sent, Received,
                DeliveredPrefix
  <2> QED
    BY <2>1, <2>2
<1> QED
  BY <1>1, StreamInit, PTL DEF SessionSpec

\* Whatever the channel loses, repeats, reorders, damages or misroutes, open
\* returns a prefix of what was sealed in that session.
THEOREM StreamPrefix ==
    SessionSpec => []DeliveredPrefix
<1>1. StreamInv => DeliveredPrefix
  BY ZenonT(30) DEF StreamInv
<1> QED
  BY <1>1, StreamInvariant, PTL

\* seal never uses a nonce twice under one key: the check against the limit comes
\* before the number could wrap.
THEOREM NonceUniqueness ==
    SessionSpec => []NonceOnce
<1>1. StreamInv => NonceOnce
  <2> SUFFICES ASSUME StreamInv, NEW m1 \in net, NEW m2 \in net,
                      m1.key = m2.key, m1.nonce = m2.nonce
               PROVE  m1 = m2
    BY DEF NonceOnce
  <2>1. m1.body.from = m2.body.from
    <3>1. ASSUME NEW m \in net PROVE m.key.enc = m.body.from
      <4>1. m.key = [enc |-> m.body.from, info |-> sinfo[m.body.from]]
        BY DEF StreamInv, Sent
      <4> QED
        BY <4>1
    <3> QED
      BY <3>1
  <2>2. m1.body \in Body /\ m2.body \in Body
    BY DEF StreamInv, SessionTypeOK, Message
  <2>3. sealed[m1.body.from] \in 0..MaxSeq /\ MaxSeq \in Nat
    BY <2>2, HpkeAssumption, ZenonT(30) DEF StreamInv, SessionTypeOK, Sent, Body
  <2>4. /\ m1.body.n \in 1..sealed[m1.body.from]
        /\ m2.body.n \in 1..sealed[m1.body.from]
        /\ SeqNonce(m1.body.n - 1) = SeqNonce(m2.body.n - 1)
    BY <2>1, ZenonT(30) DEF StreamInv, Sent
  <2>5. m1.body.n - 1 \in 0..MaxSeq /\ m2.body.n - 1 \in 0..MaxSeq
    BY <2>3, <2>4
  <2>6. m1.body.n = m2.body.n
    <3>1. m1.body.n - 1 = m2.body.n - 1
      BY <2>4, <2>5, HpkeAssumption
    <3> QED
      BY <3>1, <2>3, <2>4
  <2>7. m1.body = m2.body
    BY <2>1, <2>2, <2>6 DEF Body
  <2> QED
    BY <2>7 DEF StreamInv, Sent
<1> QED
  BY <1>1, StreamInvariant, PTL

\* Once open was called out of turn, it returns nothing more.
THEOREM StrayEndsStream ==
    SessionSpec => StrayIsFinal
<1>1. StreamInv /\ [SessionNext]_sessionVars => [\A r \in Sessions : strayed[r] => got'[r] = got[r]]_sessionVars
  <2> SUFFICES ASSUME StreamInv, SessionNext, NEW r \in Sessions, strayed[r]
               PROVE  got'[r] = got[r]
    BY DEF sessionVars
  <2>1. poisoned[r]
    BY DEF StreamInv, Received
  <2>2. ASSUME NEW s \in Sessions, NEW info \in Infos,
               SetupSender(s, info) \/ SetupReceiver(s, info)
        PROVE  got' = got
    BY <2>2 DEF SetupSender, SetupReceiver, receiverVars
  <2>3. ASSUME NEW s \in Sessions, NEW aad \in Aads, Seal(s, aad)
        PROVE  got' = got
    BY <2>3 DEF Seal, receiverVars
  <2>4. ASSUME NEW s \in Sessions, NEW m \in net \cup {Damaged}, NEW aad \in Aads,
               Open(s, m, aad)
        PROVE  got'[r] = got[r]
    <3>1. s # r
      BY <2>1, <2>4 DEF Open
    <3> QED
      BY <2>4, <3>1 DEF Open, StreamInv, SessionTypeOK
  <2> QED
    BY <2>2, <2>3, <2>4 DEF SessionNext, Receive
<1> QED
  BY <1>1, StreamInvariant, PTL DEF SessionSpec, StrayIsFinal

-----------------------------------------------------------------------------
(***************************************************************************)
(* The arena never hands out a byte twice, loses one, or leaves a secret   *)
(* behind.                                                                 *)
(*                                                                         *)
(* Tiled is stated with sets of bytes; the invariant that is carried from  *)
(* step to step compares ends (Apart), which is what makes a step's proof  *)
(* linear arithmetic, and adds where regions and slots lie (Placed).       *)
(***************************************************************************)
\* Two blocks of at least one byte have no byte in common.
Apart(o, n, p, m) == o + n <= p \/ p + m <= o

\* Every region and every free slot is a block of the used part.
Placed ==
    /\ \A h \in Handles : region[h] # None =>
          /\ 0 <= region[h].off
          /\ 0 <= region[h].len
          /\ 1 <= region[h].alen
          /\ region[h].len <= region[h].alen
          /\ region[h].off + region[h].alen <= offset
    /\ \A s \in free : 0 <= s.off /\ 1 <= s.alen /\ s.off + s.alen <= offset

\* No two blocks overlap.
Disjoint ==
    /\ \A g, h \in Handles : (g # h /\ region[g] # None /\ region[h] # None) =>
          Apart(region[g].off, region[g].alen, region[h].off, region[h].alen)
    /\ \A s, t \in free : s # t => Apart(s.off, s.alen, t.off, t.alen)
    /\ \A h \in Handles : region[h] # None =>
          \A s \in free : Apart(region[h].off, region[h].alen, s.off, s.alen)

\* Every byte of the used part belongs to a block.
Covered ==
    \A b \in Int : (0 <= b /\ b < offset) =>
        \/ \E h \in Handles : /\ region[h] # None
                              /\ region[h].off <= b
                              /\ b < region[h].off + region[h].alen
        \/ \E s \in free : s.off <= b /\ b < s.off + s.alen

\* The mapping is there while the arena or a region needs it.
MappedInUse == (shared \/ Held # {}) => mapped

\* The inductive invariant of the arena.
ArenaInv ==
    /\ TypeOK
    /\ Placed
    /\ Disjoint
    /\ Covered
    /\ OwnBytes
    /\ NoResidue
    /\ MappedInUse

\* round_up gives room for the length asked for, and at least one byte.
LEMMA RoundUpFits ==
    ASSUME NEW v \in Nat
    PROVE  RoundUp(v) \in Int /\ v <= RoundUp(v) /\ 1 <= RoundUp(v)
  BY DEF RoundUp, ALIGN

\* The initial state is an empty arena.
LEMMA ArenaInit ==
    Init => ArenaInv
<1> SUFFICES ASSUME Init PROVE ArenaInv
  OBVIOUS
<1>1. TypeOK
  BY ArenaAssumption DEF Init, TypeOK, Bytes
<1>2. Held = {}
  BY DEF Init, Held
<1>3. Placed /\ Disjoint
  BY DEF Init, Placed, Disjoint
<1>4. Covered
  BY DEF Init, Covered
<1>5. OwnBytes /\ NoResidue
  BY <1>2 DEF Init, OwnBytes, NoResidue, Bytes
<1>6. MappedInUse
  BY <1>2, Zenon DEF Init, MappedInUse
<1> QED
  BY <1>1, <1>3, <1>4, <1>5, <1>6 DEF ArenaInv

\* A claimed region is a free slot or lies past the used part, so it overlaps
\* nothing and reads as zeros (claim, alloc).
LEMMA ClaimStep ==
    ASSUME ArenaInv, NEW h \in Handles, NEW len \in Lens, NEW off \in 0..Size,
           Claim(h, len, off)
    PROVE  ArenaInv'
<1> DEFINE n == RoundUp(len)
<1> DEFINE r == [off |-> off, len |-> len, alen |-> n, filled |-> FALSE]
<1> DEFINE sl == [off |-> off, alen |-> n]
<1>1. len \in Nat /\ n \in Int /\ len <= n /\ 1 <= n
  <2>1. len \in Nat
    BY ArenaAssumption
  <2> QED
    BY <2>1, RoundUpFits, Zenon
<1> HIDE DEF n
<1>2. /\ region[h] = None
      /\ Alloc(n, off)
      /\ region' = [region EXCEPT ![h] = r]
      /\ UNCHANGED <<mem, shared, mapped>>
      /\ shared
  BY DEF Claim, n
<1>3. r \in Region /\ r # None /\ off \in Int
  <2>1. off \in Int
    BY ArenaAssumption
  <2>2. r \in Region
    BY <1>1, <2>1 DEF Region
  <2>3. r # None
    BY <2>2, ArenaAssumption, Zenon DEF Region
  <2> QED
    BY <2>1, <2>2, <2>3
<1>4. region' \in [Handles -> Region \cup {None}] /\ region'[h] = r
  BY <1>2, <1>3 DEF ArenaInv, TypeOK
<1>5. \A g \in Handles \ {h} : region'[g] = region[g]
  BY <1>2 DEF ArenaInv, TypeOK
<1>6. \/ sl \in free /\ free' = free \ {sl} /\ offset' = offset
      \/ off = offset /\ offset + n <= Size /\ offset' = offset + n /\ free' = free
  BY <1>2 DEF Alloc
<1>7. offset \in Int /\ free \subseteq Slot /\ Size \in Nat /\ offset <= Size /\ 0 <= offset
  BY ArenaAssumption DEF ArenaInv, TypeOK
<1>8. sl.off = off /\ sl.alen = n /\ sl \in Slot
  BY <1>1, <1>3, ZenonT(30) DEF Slot
<1>9. offset' \in 0..Size /\ offset <= offset' /\ off + n <= offset' /\ 0 <= off
  BY <1>1, <1>3, <1>6, <1>7, <1>8 DEF ArenaInv, Placed
<1>10. TypeOK'
  <2>1. free' \subseteq Slot
    BY <1>6, <1>7
  <2>2. (mem \in [Bytes -> Handles \cup {Zero}] /\ shared \in BOOLEAN /\ mapped \in BOOLEAN)'
    BY <1>2, Zenon DEF ArenaInv, TypeOK
  <2> QED
    BY <2>1, <2>2, <1>4, <1>9, ZenonT(30) DEF TypeOK
<1>11. Placed'
  <2>1. ASSUME NEW g \in Handles, region'[g] # None
        PROVE  /\ 0 <= region'[g].off
               /\ 0 <= region'[g].len
               /\ 1 <= region'[g].alen
               /\ region'[g].len <= region'[g].alen
               /\ region'[g].off + region'[g].alen <= offset'
    <3>1. CASE g = h
      BY <3>1, <1>1, <1>4, <1>9
    <3>2. CASE g # h
      <4>1. region'[g] = region[g] /\ region[g] \in Region
        BY <3>2, <2>1, <1>5 DEF ArenaInv, TypeOK
      <4>2. region[g].off + region[g].alen <= offset
        BY <4>1, <2>1, ZenonT(30) DEF ArenaInv, Placed
      <4>3. region'[g].off + region'[g].alen <= offset'
        BY <4>1, <4>2, <1>7, <1>9 DEF Region
      <4> QED
        BY <4>1, <4>3, <2>1, ZenonT(30) DEF ArenaInv, Placed
    <3> QED
      BY <3>1, <3>2
  <2>2. ASSUME NEW s \in free'
        PROVE  0 <= s.off /\ 1 <= s.alen /\ s.off + s.alen <= offset'
    <3>1. s \in free /\ s \in Slot
      BY <1>6, <1>7
    <3>2. 0 <= s.off /\ 1 <= s.alen /\ s.off + s.alen <= offset
      BY <3>1, ZenonT(30) DEF ArenaInv, Placed
    <3> QED
      BY <3>1, <3>2, <1>7, <1>9 DEF Slot
  <2> QED
    BY <2>1, <2>2, ZenonT(30) DEF Placed
\* Nothing else has a byte of the new region.
<1>12. \A g \in Handles : (g # h /\ region[g] # None) =>
          Apart(region[g].off, region[g].alen, off, n)
  BY <1>6, <1>7, <1>8 DEF ArenaInv, Disjoint, Placed, Apart
<1>13. \A s \in free' : Apart(off, n, s.off, s.alen)
  <2> TAKE s \in free'
  <2>1. s \in free /\ s \in Slot
    BY <1>6, <1>7
  <2>2. CASE sl \in free /\ free' = free \ {sl}
    <3>1. s # sl
      BY <2>2, ZenonT(30)
    <3>2. Apart(sl.off, sl.alen, s.off, s.alen)
      BY <2>1, <2>2, <3>1 DEF ArenaInv, Disjoint
    <3> QED
      BY <3>2, <1>8
  <2>3. CASE off = offset
    BY <2>1, <2>3, ZenonT(30) DEF ArenaInv, Placed, Apart, Slot
  <2> QED
    BY <1>6, <2>2, <2>3
<1>14. Disjoint'
  <2>1. \A g, k \in Handles : (g # k /\ region'[g] # None /\ region'[k] # None) =>
          Apart(region'[g].off, region'[g].alen, region'[k].off, region'[k].alen)
    <3> SUFFICES ASSUME NEW g \in Handles, NEW k \in Handles, g # k,
                        region'[g] # None, region'[k] # None
                 PROVE  Apart(region'[g].off, region'[g].alen, region'[k].off, region'[k].alen)
      BY ZenonT(30)
    <3>1. CASE g = h
      BY <3>1, <1>4, <1>5, <1>12 DEF Apart
    <3>2. CASE k = h
      <4>1. region'[k].off = off /\ region'[k].alen = n
        BY <3>2, <1>4
      <4>2. g # h /\ region'[g] = region[g]
        BY <3>2, <1>5, ZenonT(30)
      <4> QED
        BY <4>1, <4>2, <1>12, ZenonT(30)
    <3>3. CASE g # h /\ k # h
      BY <3>3, <1>5 DEF ArenaInv, Disjoint
    <3> QED
      BY <3>1, <3>2, <3>3
  <2>2. \A s, t \in free' : s # t => Apart(s.off, s.alen, t.off, t.alen)
    BY <1>6, ZenonT(30) DEF ArenaInv, Disjoint
  <2>3. \A g \in Handles : region'[g] # None =>
          \A s \in free' : Apart(region'[g].off, region'[g].alen, s.off, s.alen)
    <3>1. free' \subseteq free
      BY <1>6, ZenonT(30)
    <3>2. ASSUME NEW g \in Handles, g # h, region'[g] # None, NEW s \in free'
          PROVE  Apart(region'[g].off, region'[g].alen, s.off, s.alen)
      <4>1. region'[g] = region[g]
        BY <1>5, <3>2, ZenonT(30)
      <4> QED
        BY <3>1, <3>2, <4>1, ZenonT(30) DEF ArenaInv, Disjoint
    <3>3. ASSUME NEW s \in free'
          PROVE  Apart(region'[h].off, region'[h].alen, s.off, s.alen)
      BY <1>4, <1>5, <1>13
    <3> QED
      BY <3>2, <3>3, ZenonT(30)
  <2> QED
    BY <2>1, <2>2, <2>3 DEF Disjoint, Apart
<1>15. Covered'
  <2> SUFFICES ASSUME NEW b \in Int, 0 <= b, b < offset'
               PROVE  \/ \E g \in Handles : /\ region'[g] # None
                                            /\ region'[g].off <= b
                                            /\ b < region'[g].off + region'[g].alen
                      \/ \E s \in free' : s.off <= b /\ b < s.off + s.alen
    BY DEF Covered
  <2>1. CASE off <= b /\ b < off + n
    BY <2>1, <1>3, <1>4
  <2>2. CASE ~(off <= b /\ b < off + n)
    <3>1. b < offset
      BY <2>2, <1>1, <1>3, <1>6, <1>7
    <3>2. CASE \E g \in Handles : /\ region[g] # None
                                  /\ region[g].off <= b
                                  /\ b < region[g].off + region[g].alen
      BY <3>2, <1>2, <1>5, ZenonT(30)
    <3>3. CASE \E s \in free : s.off <= b /\ b < s.off + s.alen
      BY <3>3, <2>2, <1>6, <1>8
    <3> QED
      BY <3>1, <3>2, <3>3 DEF ArenaInv, Covered
  <2> QED
    BY <2>1, <2>2, ZenonT(30)
<1>16. Held' = Held \cup {h} /\ h \notin Held
  BY <1>2, <1>3, <1>4, <1>5, ZenonT(30) DEF Held
<1>17. \A b \in Span(off, len) : b \in Bytes /\ mem[b] = Zero
  <2> TAKE b \in Span(off, len)
  <2>1. b \in Int /\ off <= b /\ b < off + n /\ b \in Bytes
    BY <1>1, <1>3, <1>7, <1>9 DEF Span, Bytes
  <2>2. SUFFICES ASSUME mem[b] # Zero PROVE FALSE
    BY <2>1, ZenonT(30)
  <2>3. PICK g \in Held : b \in Span(region[g].off, region[g].len)
    BY <2>1, <2>2 DEF ArenaInv, NoResidue
  <2>4. g \in Handles /\ g # h /\ region[g] # None /\ region[g] \in Region
    BY <1>2, ZenonT(30) DEF Held, ArenaInv, TypeOK
  <2>5. region[g].off <= b /\ b < region[g].off + region[g].alen
    BY <2>1, <2>3, <2>4 DEF Span, ArenaInv, Placed, Region
  <2>6. Apart(region[g].off, region[g].alen, off, n)
    BY <2>4, <1>12, ZenonT(30)
  <2> QED
    BY <2>1, <2>4, <2>5, <2>6, <1>1, <1>3 DEF Apart, Region
<1>18. OwnBytes'
  <2>1. mapped
    BY <1>2, Zenon DEF ArenaInv, MappedInUse
  <2> SUFFICES ASSUME NEW g \in Held'
               PROVE  /\ mapped'
                      /\ Span(region'[g].off, region'[g].len) \subseteq Bytes
                      /\ \A b \in Span(region'[g].off, region'[g].len) :
                            mem'[b] = IF region'[g].filled THEN g ELSE Zero
    BY DEF OwnBytes, Span, Bytes
  <2>2. CASE g = h
    BY <2>1, <2>2, <1>2, <1>4, <1>17, ZenonT(30)
  <2>3. CASE g # h
    <3>1. g \in Held /\ g \in Handles /\ region'[g] = region[g]
      BY <2>3, <1>5, <1>16 DEF Held
    <3> QED
      BY <3>1, <2>1, <1>2, ZenonT(30) DEF ArenaInv, OwnBytes
  <2> QED
    BY <2>2, <2>3
<1>19. NoResidue'
  <2> SUFFICES ASSUME NEW b \in Bytes, mem'[b] # Zero
               PROVE  \E g \in Held' : mem'[b] = g /\ b \in Span(region'[g].off, region'[g].len)
    BY DEF NoResidue, Span, Bytes
  <2>1. PICK g \in Held : mem[b] = g /\ b \in Span(region[g].off, region[g].len)
    BY <1>2 DEF ArenaInv, NoResidue
  <2>2. g \in Held' /\ region'[g] = region[g]
    BY <1>5, <1>16 DEF Held
  <2> QED
    BY <2>1, <2>2, <1>2
<1>20. MappedInUse'
  BY <1>2, Zenon DEF ArenaInv, MappedInUse
<1> QED
  BY <1>10, <1>11, <1>14, <1>15, <1>18, <1>19, <1>20 DEF ArenaInv

\* Writing through a handle, with its secret or with zeros, touches its region
\* only (random_fixed, store_fixed, expose_as_mut_slice, zeroize).
LEMMA WriteStep ==
    ASSUME ArenaInv, NEW h \in Handles, Fill(h) \/ Wipe(h)
    PROVE  ArenaInv'
<1> DEFINE sp == Span(region[h].off, region[h].len)
<1>1. PICK v \in {h, Zero}, f \in BOOLEAN :
        /\ v = IF f THEN h ELSE Zero
        /\ region' = [region EXCEPT ![h].filled = f]
        /\ mem' = [b \in Bytes |-> IF b \in sp THEN v ELSE mem[b]]
  <2>1. CASE Fill(h)
    <3>1. region' = [region EXCEPT ![h].filled = TRUE]
      BY <2>1, Zenon DEF Fill
    <3>2. mem' = [b \in Bytes |-> IF b \in sp THEN h ELSE mem[b]]
      BY <2>1 DEF Fill
    <3> QED
      BY <3>1, <3>2, Zenon
  <2>2. CASE Wipe(h)
    <3>1. region' = [region EXCEPT ![h].filled = FALSE]
      BY <2>2, Zenon DEF Wipe
    <3>2. mem' = [b \in Bytes |-> IF b \in sp THEN Zero ELSE mem[b]]
      BY <2>2 DEF Wipe
    <3> QED
      BY <3>1, <3>2, Zenon
  <2> QED
    BY <2>1, <2>2
<1>2. /\ region[h] # None
      /\ UNCHANGED <<offset, free, shared, mapped>>
  BY DEF Fill, Wipe
<1>3. region[h] \in Region
  BY <1>2 DEF ArenaInv, TypeOK
<1>4. /\ region' \in [Handles -> Region \cup {None}]
      /\ region'[h] \in Region
      /\ region'[h].off = region[h].off
      /\ region'[h].len = region[h].len
      /\ region'[h].alen = region[h].alen
  BY <1>1, <1>3 DEF ArenaInv, TypeOK, Region
<1>5. region'[h] # None
  BY <1>4, ArenaAssumption, Zenon DEF Region
<1>6. \A g \in Handles \ {h} : region'[g] = region[g]
  BY <1>1 DEF ArenaInv, TypeOK
<1>7. region'[h].filled = f
  BY <1>1, <1>3 DEF ArenaInv, TypeOK, Region
<1>8. Held' = Held /\ h \in Held
  BY <1>2, <1>5, <1>6 DEF Held
<1>9. TypeOK'
  <2>1. mem' \in [Bytes -> Handles \cup {Zero}]
    BY <1>1 DEF ArenaInv, TypeOK
  <2>2. (shared \in BOOLEAN /\ mapped \in BOOLEAN)'
    BY <1>2, Zenon DEF ArenaInv, TypeOK
  <2>3. offset' \in 0..Size /\ free' \subseteq Slot
    BY <1>2, ZenonT(30) DEF ArenaInv, TypeOK
  <2> QED
    BY <2>1, <2>2, <2>3, <1>4, Zenon DEF TypeOK, Bytes
<1>10. Placed'
  BY <1>2, <1>4, <1>5, <1>6, ZenonT(30) DEF ArenaInv, Placed
<1>11. Disjoint'
  BY <1>2, <1>4, <1>5, <1>6, ZenonT(30) DEF ArenaInv, Disjoint, Apart
<1>12. Covered'
  BY <1>2, <1>4, <1>5, <1>6 DEF ArenaInv, Covered
<1>13. sp \subseteq Bytes /\ mapped
  BY <1>8 DEF ArenaInv, OwnBytes
\* The other regions have no byte of this one.
<1>14. \A g \in Held : g # h => Span(region[g].off, region[g].len) \cap sp = {}
  <2> SUFFICES ASSUME NEW g \in Held, g # h, NEW b \in Span(region[g].off, region[g].len), b \in sp
               PROVE  FALSE
    OBVIOUS
  <2>1. g \in Handles /\ region[g] # None /\ region[g] \in Region
    BY ZenonT(30) DEF Held, ArenaInv, TypeOK
  <2>2. Apart(region[g].off, region[g].alen, region[h].off, region[h].alen)
    BY <2>1, <1>2, ZenonT(30) DEF ArenaInv, Disjoint
  <2>3. region[g].len <= region[g].alen /\ region[h].len <= region[h].alen
    BY <2>1, <1>2, ZenonT(30) DEF ArenaInv, Placed
  <2> QED
    BY <2>1, <2>2, <2>3, <1>3 DEF Span, Apart, Region
<1>15. OwnBytes'
  <2> SUFFICES ASSUME NEW g \in Held'
               PROVE  /\ mapped'
                      /\ Span(region'[g].off, region'[g].len) \subseteq Bytes
                      /\ \A b \in Span(region'[g].off, region'[g].len) :
                            mem'[b] = IF region'[g].filled THEN g ELSE Zero
    BY DEF OwnBytes, Span, Bytes
  <2>1. CASE g = h
    <3>1. \A b \in sp : mem'[b] = v
      BY <1>1, <1>13, ZenonT(30)
    <3> QED
      BY <2>1, <3>1, <1>1, <1>2, <1>4, <1>7, <1>13
  <2>2. CASE g # h
    <3>1. g \in Held /\ g \in Handles /\ region'[g] = region[g]
      BY <2>2, <1>6, <1>8, ZenonT(30) DEF Held
    <3>2. \A b \in Span(region[g].off, region[g].len) : b \in Bytes /\ b \notin sp
      BY <2>2, <3>1, <1>14 DEF ArenaInv, OwnBytes
    <3>3. \A b \in Span(region[g].off, region[g].len) : mem'[b] = mem[b]
      BY <3>2, <1>1, ZenonT(30)
    <3> QED
      BY <3>1, <3>3, <1>2, <1>13, ZenonT(30) DEF ArenaInv, OwnBytes
  <2> QED
    BY <2>1, <2>2, ZenonT(30)
<1>16. NoResidue'
  <2> SUFFICES ASSUME NEW b \in Bytes, mem'[b] # Zero
               PROVE  \E g \in Held' : mem'[b] = g /\ b \in Span(region'[g].off, region'[g].len)
    BY DEF NoResidue, Span, Bytes
  <2>1. CASE b \in sp
    BY <2>1, <1>1, <1>4, <1>8
  <2>2. CASE b \notin sp
    <3>1. mem'[b] = mem[b]
      BY <2>2, <1>1
    <3>2. PICK g \in Held : mem[b] = g /\ b \in Span(region[g].off, region[g].len)
      BY <3>1 DEF ArenaInv, NoResidue
    <3>3. g \in Handles \ {h}
      BY <3>2, <2>2 DEF Held
    <3> QED
      BY <3>1, <3>2, <3>3, <1>6, <1>8
  <2> QED
    BY <2>1, <2>2
<1>17. MappedInUse'
  BY <1>2, <1>8, Zenon DEF ArenaInv, MappedInUse
<1> QED
  BY <1>9, <1>10, <1>11, <1>12, <1>15, <1>16, <1>17 DEF ArenaInv

\* A dropped region is zeroed and becomes a free slot of the same bytes
\* (Region::drop, dealloc).
LEMMA DropStep ==
    ASSUME ArenaInv, NEW h \in Handles, Drop(h)
    PROVE  ArenaInv'
<1> DEFINE sp == Span(region[h].off, region[h].alen)
<1> DEFINE sl == [off |-> region[h].off, alen |-> region[h].alen]
<1>1. /\ region[h] # None
      /\ region' = [region EXCEPT ![h] = None]
      /\ free' = free \cup {sl}
      /\ UNCHANGED <<offset, shared>>
  BY DEF Drop
<1>2. region[h] \in Region /\ sl \in Slot
  BY <1>1 DEF ArenaInv, TypeOK, Region, Slot
<1>3. sl.off = region[h].off /\ sl.alen = region[h].alen
  OBVIOUS
<1>4. region' \in [Handles -> Region \cup {None}] /\ region'[h] = None
  BY <1>1 DEF ArenaInv, TypeOK
<1>5. \A g \in Handles \ {h} : region'[g] = region[g]
  BY <1>1 DEF ArenaInv, TypeOK
<1>6. Held' = Held \ {h} /\ h \in Held
  BY <1>1, <1>4, <1>5 DEF Held
<1>7. mem' = [b \in Bytes |-> IF Last(Held \ {h}) \/ b \in sp THEN Zero ELSE mem[b]]
  BY DEF Drop
<1>8. mapped' = ~Last(Held \ {h})
  BY Zenon DEF Drop
<1>9. TypeOK'
  <2>1. mem' \in [Bytes -> Handles \cup {Zero}]
    BY <1>7 DEF ArenaInv, TypeOK
  <2>2. (shared \in BOOLEAN /\ mapped \in BOOLEAN)'
    BY <1>1, <1>8, Zenon DEF ArenaInv, TypeOK
  <2>3. offset' \in 0..Size /\ free' \subseteq Slot
    BY <1>1, <1>2, ZenonT(30) DEF ArenaInv, TypeOK
  <2> QED
    BY <2>1, <2>2, <2>3, <1>4, Zenon DEF TypeOK, Bytes
<1>10. Placed'
  BY <1>1, <1>3, <1>4, <1>5, ZenonT(30) DEF ArenaInv, Placed
<1>11. Disjoint'
  <2>1. \A s \in free : Apart(sl.off, sl.alen, s.off, s.alen)
    BY <1>1, <1>3, ZenonT(30) DEF ArenaInv, Disjoint
  <2>2. \A s, t \in free' : s # t => Apart(s.off, s.alen, t.off, t.alen)
    BY <2>1, <1>1, ZenonT(30) DEF ArenaInv, Disjoint, Apart
  <2>3. \A g \in Handles : region'[g] # None =>
          \A s \in free' : Apart(region'[g].off, region'[g].alen, s.off, s.alen)
    BY <1>1, <1>3, <1>4, <1>5, ZenonT(30) DEF ArenaInv, Disjoint
  <2>4. \A g, k \in Handles : (g # k /\ region'[g] # None /\ region'[k] # None) =>
          Apart(region'[g].off, region'[g].alen, region'[k].off, region'[k].alen)
    BY <1>4, <1>5, ZenonT(30) DEF ArenaInv, Disjoint
  <2> QED
    BY <2>2, <2>3, <2>4, ZenonT(30) DEF Disjoint, Apart
<1>12. Covered'
  <2> SUFFICES ASSUME NEW b \in Int, 0 <= b, b < offset
               PROVE  \/ \E g \in Handles : /\ region'[g] # None
                                            /\ region'[g].off <= b
                                            /\ b < region'[g].off + region'[g].alen
                      \/ \E s \in free' : s.off <= b /\ b < s.off + s.alen
    BY <1>1 DEF Covered
  <2>1. CASE \E g \in Handles : /\ region[g] # None
                                /\ region[g].off <= b
                                /\ b < region[g].off + region[g].alen
    BY <2>1, <1>1, <1>3, <1>5, ZenonT(30)
  <2>2. CASE \E s \in free : s.off <= b /\ b < s.off + s.alen
    BY <2>2, <1>1
  <2> QED
    BY <2>1, <2>2, ZenonT(30) DEF ArenaInv, Covered
<1>13. \A g \in Held' : mapped' /\ ~Last(Held \ {h})
  BY <1>6, <1>8, ZenonT(30) DEF Last
<1>14. OwnBytes'
  <2> SUFFICES ASSUME NEW g \in Held'
               PROVE  /\ mapped'
                      /\ Span(region'[g].off, region'[g].len) \subseteq Bytes
                      /\ \A b \in Span(region'[g].off, region'[g].len) :
                            mem'[b] = IF region'[g].filled THEN g ELSE Zero
    BY DEF OwnBytes, Span, Bytes
  <2>1. g \in Held /\ g \in Handles /\ g # h /\ region'[g] = region[g]
    BY <1>5, <1>6 DEF Held
  <2>2. region[g] # None /\ region[g] \in Region
    BY <2>1, ZenonT(30) DEF Held, ArenaInv, TypeOK
  <2>3. Apart(region[g].off, region[g].alen, region[h].off, region[h].alen)
    BY <2>1, <2>2, <1>1 DEF ArenaInv, Disjoint
  <2>4. region[g].len <= region[g].alen
    BY <2>1, <2>2, ZenonT(30) DEF ArenaInv, Placed
  <2>5. \A b \in Span(region[g].off, region[g].len) : b \notin sp
    BY <2>2, <2>3, <2>4, <1>2 DEF Span, Apart, Region
  <2>6. Span(region[g].off, region[g].len) \subseteq Bytes
    BY <2>1, ZenonT(30) DEF ArenaInv, OwnBytes
  <2>7. \A b \in Span(region[g].off, region[g].len) : mem'[b] = mem[b]
    BY <2>5, <2>6, <1>7, <1>13
  <2> QED
    BY <2>1, <2>6, <2>7, <1>13, ZenonT(30) DEF ArenaInv, OwnBytes
<1>15. NoResidue'
  <2> SUFFICES ASSUME NEW b \in Bytes, mem'[b] # Zero
               PROVE  \E g \in Held' : mem'[b] = g /\ b \in Span(region'[g].off, region'[g].len)
    BY DEF NoResidue, Span, Bytes
  <2>1. b \notin sp /\ mem'[b] = mem[b]
    BY <1>7
  <2>2. PICK g \in Held : mem[b] = g /\ b \in Span(region[g].off, region[g].len)
    BY <2>1, ZenonT(30) DEF ArenaInv, NoResidue
  <2>3. g # h
    BY <2>1, <2>2, <1>1, <1>2 DEF Span, Region, ArenaInv, Placed
  <2>4. g \in Held' /\ region'[g] = region[g]
    BY <2>3, <1>5, <1>6 DEF Held
  <2> QED
    BY <2>1, <2>2, <2>4
<1>16. MappedInUse'
  BY <1>6, <1>8, Zenon DEF MappedInUse, Last
<1> QED
  BY <1>9, <1>10, <1>11, <1>12, <1>14, <1>15, <1>16 DEF ArenaInv

\* Dropping the arena keeps the mapping for the regions still held, and zeroes it
\* when there are none (ArenaInner::drop).
LEMMA DropArenaStep ==
    ASSUME ArenaInv, DropArena
    PROVE  ArenaInv'
<1>1. UNCHANGED <<offset, free, region>> /\ Held' = Held
  BY DEF DropArena, Held
<1>2. mapped' = ~Last(Held)
  BY Zenon DEF DropArena
<1>3. shared' = FALSE
  BY Zenon DEF DropArena
<1>4. mem' = IF Last(Held) THEN [b \in Bytes |-> Zero] ELSE mem
  BY DEF DropArena
<1>5. TypeOK'
  <2>1. mem' \in [Bytes -> Handles \cup {Zero}]
    BY <1>4 DEF ArenaInv, TypeOK
  <2>2. (shared \in BOOLEAN /\ mapped \in BOOLEAN)'
    BY <1>2, <1>3, ZenonT(30)
  <2> QED
    BY <1>1, <2>1, <2>2, Zenon DEF ArenaInv, TypeOK, Bytes
<1>6. (Placed /\ Disjoint /\ Covered)'
  BY <1>1 DEF ArenaInv, Placed, Disjoint, Covered
<1>7. OwnBytes'
  <2>1. CASE Held = {}
    BY <2>1, <1>1, ZenonT(30) DEF OwnBytes
  <2>2. CASE Held # {}
    <3>1. ~Last(Held)
      BY <2>2 DEF Last
    <3>2. mapped' /\ mem' = mem
      BY <3>1, <1>2, <1>4, ZenonT(30)
    <3> QED
      BY <3>2, <1>1 DEF ArenaInv, OwnBytes, Bytes, Span
  <2> QED
    BY <2>1, <2>2
<1>8. NoResidue'
  BY <1>1, <1>4 DEF ArenaInv, NoResidue, Bytes, Span
<1>9. MappedInUse'
  BY <1>1, <1>2, <1>3, Zenon DEF MappedInUse, Last
<1> QED
  BY <1>5, <1>6, <1>7, <1>8, <1>9 DEF ArenaInv

\* ArenaInv holds in every reachable state.
THEOREM ArenaInvariant ==
    Spec => []ArenaInv
<1>1. ArenaInv /\ [Next]_vars => ArenaInv'
  <2> SUFFICES ASSUME ArenaInv, [Next]_vars PROVE ArenaInv'
    OBVIOUS
  <2>1. ASSUME NEW h \in Handles, NEW len \in Lens, NEW off \in 0..Size, Claim(h, len, off)
        PROVE  ArenaInv'
    BY <2>1, ClaimStep
  <2>2. ASSUME NEW h \in Handles, Fill(h) \/ Wipe(h)
        PROVE  ArenaInv'
    BY <2>2, WriteStep
  <2>3. ASSUME NEW h \in Handles, Drop(h)
        PROVE  ArenaInv'
    BY <2>3, DropStep
  <2>4. CASE DropArena
    BY <2>4, DropArenaStep, ZenonT(30)
  <2>5. CASE UNCHANGED vars
    BY <2>5, ZenonT(30) DEF vars, ArenaInv, TypeOK, Placed, Disjoint, Covered, OwnBytes, NoResidue,
                MappedInUse, Held, Bytes, Span
  <2> QED
    BY <2>1, <2>2, <2>3, <2>4, <2>5 DEF Next
<1> QED
  BY <1>1, ArenaInit, PTL DEF Spec

\* For every arena size and every mix of lengths, the used part is tiled by the
\* live regions and the free slots: alloc hands out no byte twice and dealloc
\* loses none.
THEOREM RegionsTile ==
    Spec => []Tiled
<1>1. ArenaInv => Tiled
  <2> SUFFICES ASSUME ArenaInv PROVE Tiled
    OBVIOUS
  <2>1. \A h \in Held : h \in Handles /\ region[h] # None /\ region[h] \in Region
    BY DEF Held, ArenaInv, TypeOK
  <2>2. \A s \in free : s \in Slot
    BY ZenonT(30) DEF ArenaInv, TypeOK
  <2>3. \A g, h \in Held : g # h =>
          Span(region[g].off, region[g].alen) \cap Span(region[h].off, region[h].alen) = {}
    BY <2>1 DEF ArenaInv, Disjoint, Apart, Span, Region
  <2>4. \A s, t \in free : s # t => Span(s.off, s.alen) \cap Span(t.off, t.alen) = {}
    BY <2>2 DEF ArenaInv, Disjoint, Apart, Span, Slot
  <2>5. \A h \in Held, s \in free :
          Span(region[h].off, region[h].alen) \cap Span(s.off, s.alen) = {}
    BY <2>1, <2>2 DEF ArenaInv, Disjoint, Apart, Span, Region, Slot
  <2>6. \A b \in 0..(offset - 1) :
          \/ \E h \in Held : b \in Span(region[h].off, region[h].alen)
          \/ \E s \in free : b \in Span(s.off, s.alen)
    <3> TAKE b \in 0..(offset - 1)
    <3>1. b \in Int /\ 0 <= b /\ b < offset
      BY DEF ArenaInv, TypeOK
    <3>2. CASE \E h \in Handles : /\ region[h] # None
                                  /\ region[h].off <= b
                                  /\ b < region[h].off + region[h].alen
      <4>1. PICK h \in Handles : /\ region[h] # None
                                 /\ region[h].off <= b
                                 /\ b < region[h].off + region[h].alen
        BY <3>2
      <4>2. h \in Held
        BY <4>1 DEF Held
      <4> QED
        BY <4>1, <4>2, <3>1, <2>1 DEF Span, Region
    <3>3. CASE \E s \in free : s.off <= b /\ b < s.off + s.alen
      BY <3>1, <3>3, <2>2 DEF Span, Slot
    <3> QED
      BY <3>1, <3>2, <3>3 DEF ArenaInv, Covered
  <2> QED
    BY <2>3, <2>4, <2>5, <2>6, ZenonT(30) DEF Tiled
<1> QED
  BY <1>1, ArenaInvariant, PTL

\* A live handle reads exactly its own secret, in a region of its own.
THEOREM SecretsContained ==
    Spec => []OwnBytes
<1>1. ArenaInv => OwnBytes
  BY DEF ArenaInv
<1> QED
  BY <1>1, ArenaInvariant, PTL

\* No byte outside a live region holds a secret: what dealloc and the drop of
\* the arena leave is zeros.
THEOREM NothingLeft ==
    Spec => []NoResidue
<1>1. ArenaInv => NoResidue
  BY DEF ArenaInv
<1> QED
  BY <1>1, ArenaInvariant, PTL

-----------------------------------------------------------------------------
(***************************************************************************)
(* Growth.  The crowd of a size is all its blocks: alloc makes a new block *)
(* only when none is free, and then all of them are in use; the other      *)
(* steps move a block between the live and the free ones.                  *)
(***************************************************************************)
CrowdIsAll == crowd = [a \in Sizes |-> Blocks(a)]

\* A step that leaves the blocks of a size as they are leaves its crowd.
LEMMA SameBlocks ==
    ASSUME CrowdIsAll, GrowthNext, NEW a \in Sizes, Blocks(a)' = Blocks(a)
    PROVE  crowd'[a] = Blocks(a)'
<1>1. crowd[a] = Blocks(a)
  BY DEF CrowdIsAll
<1>2. crowd'[a] = IF crowd[a] \subseteq Live(a)' THEN Live(a)' ELSE crowd[a]
  BY Zenon DEF GrowthNext
<1>3. Live(a)' \subseteq Blocks(a)'
  BY Zenon DEF Blocks
<1>4. CASE crowd[a] \subseteq Live(a)'
  <2>1. Blocks(a)' \subseteq Live(a)' /\ crowd'[a] = Live(a)'
    BY <1>1, <1>2, <1>4, ZenonT(30)
  <2> QED
    BY <2>1, <1>3, ZenonT(30)
<1>5. CASE ~(crowd[a] \subseteq Live(a)')
  BY <1>1, <1>2, <1>5, ZenonT(30)
<1> QED
  BY <1>4, <1>5, ZenonT(30)

\* A claim takes a free block, or makes one when all of its size are in use
\* (ArenaInner::alloc).
LEMMA ClaimBlocks ==
    ASSUME TypeOK, CrowdIsAll, GrowthNext,
           NEW h \in Handles, NEW len \in Lens, NEW off \in 0..Size, Claim(h, len, off),
           NEW a \in Sizes
    PROVE  crowd'[a] = Blocks(a)'
<1> DEFINE n == RoundUp(len)
           r == [off |-> off, len |-> len, alen |-> n, filled |-> FALSE]
           slot == [off |-> off, alen |-> n]
<1>1. region[h] = None /\ region' = [region EXCEPT ![h] = r]
  BY DEF Claim
<1>2. region'[h] = r /\ r # None
  <2>1. off \in Int /\ len \in Nat
    BY ArenaAssumption
  <2>2. r \in [off : Int, len : Int, alen : Int, filled : BOOLEAN]
    BY <2>1, RoundUpFits
  <2> QED
    BY <1>1, <2>2, ArenaAssumption, ZenonT(30) DEF TypeOK
<1>3. Held' = Held \cup {h} /\ h \notin Held
  BY <1>1, <1>2 DEF Held, TypeOK
<1>4. \A g \in Held : region'[g] = region[g]
  BY <1>1, <1>3, ZenonT(30) DEF Held, TypeOK
<1>5. Live(a)' = IF a = n THEN Live(a) \cup {off} ELSE Live(a)
  <2>1. r.off = off /\ r.alen = n
    OBVIOUS
  <2>2. region'[h].off = off /\ region'[h].alen = n
    BY <1>2, <2>1, ZenonT(30)
  <2> QED
    BY <2>2, <1>3, <1>4, ZenonT(30) DEF Live
<1>6. CASE slot \in free /\ free' = free \ {slot}
  <2>1. {s.off : s \in {t \in free : t.alen = a}} =
          {s.off : s \in {t \in free' : t.alen = a}} \cup (IF n = a THEN {off} ELSE {})
    <3>1. slot.off = off /\ slot.alen = n
      OBVIOUS
    <3>2. free = free' \cup {slot}
      BY <1>6, ZenonT(30)
    <3> QED
      BY <3>1, <3>2, ZenonT(30)
  <2>2. Blocks(a)' = Blocks(a)
    BY <1>5, <2>1, ZenonT(30) DEF Blocks
  <2> QED
    BY <2>2, SameBlocks, ZenonT(30)
<1>7. CASE (\A s \in free : s.alen # n) /\ free' = free
  <2>1. CASE a = n
    <3>1. Blocks(a) = Live(a) /\ Blocks(a)' = Live(a)'
      BY <1>7, <2>1, ZenonT(30) DEF Blocks
    <3>2. crowd[a] = Blocks(a)
      BY DEF CrowdIsAll
    <3>3. crowd'[a] = IF crowd[a] \subseteq Live(a)' THEN Live(a)' ELSE crowd[a]
      BY Zenon DEF GrowthNext
    <3> QED
      BY <3>1, <3>2, <3>3, <1>5, <2>1, ZenonT(30)
  <2>2. CASE a # n
    <3>1. Blocks(a)' = Blocks(a)
      BY <1>5, <1>7, <2>2, ZenonT(30) DEF Blocks
    <3> QED
      BY <3>1, SameBlocks, ZenonT(30)
  <2> QED
    BY <2>1, <2>2, ZenonT(30)
<1> QED
  BY <1>6, <1>7, ZenonT(30) DEF Claim, Alloc

\* Writing moves no block, and dropping puts one on the free list (Region::drop).
LEMMA OtherBlocks ==
    ASSUME TypeOK, NEW a \in Sizes,
           \/ \E h \in Handles : Fill(h) \/ Wipe(h) \/ Drop(h)
           \/ DropArena
    PROVE  Blocks(a)' = Blocks(a)
<1>1. ASSUME NEW h \in Handles, Fill(h) \/ Wipe(h)
      PROVE  Blocks(a)' = Blocks(a)
  <2>1. region[h] # None /\ free' = free
    BY <1>1 DEF Fill, Wipe
  <2>2. PICK v \in BOOLEAN : region' = [region EXCEPT ![h].filled = v]
    BY <1>1, ZenonT(30) DEF Fill, Wipe
  <2>3. region'[h] \in Region /\ region'[h].off = region[h].off /\ region'[h].alen = region[h].alen
    BY <2>1, <2>2 DEF TypeOK, Region
  <2>4. \A g \in Handles : g # h => region'[g] = region[g]
    BY <2>2 DEF TypeOK
  <2>5. Held' = Held
    BY <2>1, <2>3, <2>4, ArenaAssumption, ZenonT(30) DEF Held, Region
  <2>6. \A g \in Held : region'[g].off = region[g].off /\ region'[g].alen = region[g].alen
    BY <2>3, <2>4, ZenonT(30) DEF Held
  <2> QED
    BY <2>1, <2>5, <2>6, ZenonT(30) DEF Blocks, Live
<1>2. ASSUME NEW h \in Handles, Drop(h)
      PROVE  Blocks(a)' = Blocks(a)
  <2> DEFINE slot == [off |-> region[h].off, alen |-> region[h].alen]
  <2>1. /\ region[h] # None
        /\ region' = [region EXCEPT ![h] = None]
        /\ free' = free \cup {slot}
    BY <1>2 DEF Drop
  <2>2. Held = Held' \cup {h} /\ \A g \in Held' : region'[g] = region[g]
    BY <2>1, ZenonT(30) DEF Held, TypeOK
  <2>3. Live(a) = Live(a)' \cup (IF region[h].alen = a THEN {region[h].off} ELSE {})
    BY <2>2, ZenonT(30) DEF Live
  <2>4. {s.off : s \in {t \in free' : t.alen = a}} =
          {s.off : s \in {t \in free : t.alen = a}}
            \cup (IF region[h].alen = a THEN {region[h].off} ELSE {})
    <3>1. slot.off = region[h].off /\ slot.alen = region[h].alen
      OBVIOUS
    <3> QED
      BY <2>1, <3>1, ZenonT(30)
  <2> QED
    BY <2>3, <2>4, ZenonT(30) DEF Blocks
<1>3. CASE DropArena
  BY <1>3, ZenonT(30) DEF DropArena, Blocks, Live, Held
<1> QED
  BY <1>1, <1>2, <1>3, ZenonT(30)

\* However secrets are claimed and dropped, all the blocks of a size were once in
\* use together: for every arena size, set of handles and set of lengths.
THEOREM GrowthIsNeeded ==
    GrowthSpec => []GrowthWasNeeded
<1>1. GrowthInit => CrowdIsAll
  BY DEF GrowthInit, Init, CrowdIsAll, Blocks, Live, Held
<1>2. CrowdIsAll /\ TypeOK /\ [GrowthNext]_growthVars => CrowdIsAll'
  <2> SUFFICES ASSUME CrowdIsAll, TypeOK, [GrowthNext]_growthVars PROVE CrowdIsAll'
    OBVIOUS
  <2>1. CASE GrowthNext
    <3>1. ASSUME NEW a \in Sizes PROVE crowd'[a] = Blocks(a)'
      BY <2>1, <3>1, ClaimBlocks, OtherBlocks, SameBlocks, ZenonT(30) DEF GrowthNext, Next
    <3>2. crowd' = [a \in Sizes |-> crowd'[a]]
      BY <2>1, Zenon DEF GrowthNext
    <3> QED
      BY <3>1, <3>2, ZenonT(30) DEF CrowdIsAll, Sizes
  <2>2. CASE UNCHANGED growthVars
    BY <2>2, ZenonT(30) DEF growthVars, vars, CrowdIsAll, Blocks, Live, Held
  <2> QED
    BY <2>1, <2>2
<1>3. GrowthSpec => Spec
  <2>1. GrowthInit => Init
    BY DEF GrowthInit
  <2>2. [GrowthNext]_growthVars => [Next]_vars
    BY DEF GrowthNext, growthVars
  <2> QED
    BY <2>1, <2>2, PTL DEF GrowthSpec, Spec
<1>4. ArenaInv => TypeOK
  BY DEF ArenaInv
<1>5. CrowdIsAll => GrowthWasNeeded
  BY DEF CrowdIsAll, GrowthWasNeeded
<1> QED
  BY <1>1, <1>2, <1>3, <1>4, <1>5, ArenaInvariant, PTL DEF GrowthSpec
=============================================================================
