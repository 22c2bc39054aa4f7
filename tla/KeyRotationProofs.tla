-------------------------- MODULE KeyRotationProofs -------------------------
(***************************************************************************)
(* Crash safety of KeyRotation, for any number of keyfiles, clients,       *)
(* rotations and faults: the inductive invariant RotationInv, why recovery *)
(* and commit preserve it, then the preparation of a rotation, its commit  *)
(* point, the clients and the remaining steps, and the theorems.           *)
(***************************************************************************)
EXTENDS KeyRotationDirectory

USE DEF Sealed, Rewrapped

(***************************************************************************)
(* The fault classes under which the protocol is crash-safe: anything but  *)
(* a torn removal of a committed .rotate/, a marker whose fsync fails after*)
(* the rename, an error in the recovery a failed commit falls back to, and *)
(* (cached-mk) an error in refresh_current_mk.                             *)
(***************************************************************************)
TameFaults ==
    /\ ~TornClean
    /\ "repair" \notin FailIn
    /\ "repair" \notin LateFailIn
    /\ "mark" \notin LateFailIn
    /\ CachedMk => "refresh" \notin FailIn

\* Which phase a step belongs to, and where a ready marker can be seen.
ControlInv ==
    /\ pc \in {"down", "material"} => phase = "start"
    /\ pc \in Resting \cup {"begin", "saveold", "savenew", "stage"}
          => phase = "rotate"
    /\ pc = "mark" <=> phase = "mark"
    /\ pc = "refresh" <=> phase = "refresh"
    /\ pc = "refresh" => CachedMk
    /\ phase = "commit" => pc \in {"apply", "store", "clean"}
    /\ ready => /\ rdir
                /\ pc \in {"down", "recover", "apply", "store", "clean"}
                /\ phase \in {"start", "commit", "repair"}

\* Every keyfile of S has a staged copy under the new MK with its secret.
Prepared(S, m) ==
    \A f \in S : Opens(staged[f], m) /\ staged[f].val = live[f].val

\* Without the marker the store is whole; with it, the rotation directory holds
\* all that is needed to finish, and the provider switches only at the end.
DiskInv ==
    /\ ~ready => \A f \in Present : Opens(live[f], mk)
    /\ ready =>
         /\ nextOld # None
         /\ nextNew # None
         /\ nextNew.mk = nextNew.val
         /\ nextOld.val = nextNew.val
         /\ mk \in {nextOld.mk, nextNew.mk}
         /\ Prepared(Present, nextNew.val)
         /\ \A f \in Present : Opens(live[f], mk) \/ Opens(live[f], nextNew.val)
         /\ mk = nextNew.val => \A f \in Present : Opens(live[f], mk)

\* What the steps already taken have put on disk.
StepInv ==
    /\ pc = "savenew" => nextOld = [mk |-> mk, val |-> newMk]
    /\ pc \in {"saveold", "savenew", "stage", "mark"} => rdir /\ ~switched
    /\ pc \in {"stage", "mark"} =>
         /\ nextOld = [mk |-> mk, val |-> newMk]
         /\ nextNew = [mk |-> newMk, val |-> newMk]
    /\ pc \in {"stage", "apply"} => todo \subseteq Present
    /\ pc = "stage" => Prepared(Present \ todo, newMk)
    /\ pc = "mark" => Prepared(Present, newMk)
    /\ pc \in {"apply", "store", "clean"} =>
         /\ ready
         /\ newMk = nextNew.val
         /\ switched => mk = newMk
    /\ pc = "apply" => \A f \in Present \ todo : Opens(live[f], newMk)
    /\ pc \in {"store", "clean"} => \A f \in Present : Opens(live[f], newMk)
    /\ pc = "clean" => mk = newMk

\* A call inside the gate holds the provider's MK.
ClientInv ==
    /\ \A c \in Clients : InGate(c) => pc \in Resting /\ cmk[c] = mk
    /\ CachedMk /\ phase \in {"rotate", "mark"} => cached = mk

RotationInv == ControlInv /\ DiskInv /\ StepInv /\ ClientInv

-----------------------------------------------------------------------------
(***************************************************************************)
(* Crash safety under TameFaults: RotationInv is inductive.                *)
(***************************************************************************)
USE DEF RotationInv

\* The disk part depends on the disk alone.
LEMMA DiskFrame ==
    ASSUME DiskInv, UNCHANGED <<live, nextOld, nextNew, staged, ready, mk>>
    PROVE  DiskInv'
BY DEF DiskInv, Prepared, Present, Opens

\* Nobody is inside the gate while the worker works.
LEMMA WorkerAlone ==
    ASSUME ClientInv, pc \notin Resting, UNCHANGED clients
    PROVE  \A c \in Clients : ~InGate(c)'
BY DEF ClientInv, InGate, clients

\* StepInv speaks of the steps between the two MKs only.
LEMMA StepFree ==
    ASSUME pc' \notin {"saveold", "savenew", "stage", "mark", "apply", "store",
                       "clean"}
    PROVE  StepInv'
BY DEF StepInv

\* An Err that is not raised by the fall-back recovery or the cache refresh
\* leaves a state whose disk can be recovered, in a phase that will do so.
LEMMA RaiseKeeps ==
    ASSUME TypeInv, RotationInv, Raise, pc \in Working, phase # "repair",
           CachedMk => phase # "refresh",
           UNCHANGED <<cached, clients>>,
           mk' = mk \/ phase \notin {"rotate", "mark"},
           ready' => ready /\ rdir',
           DiskInv'
    PROVE  RotationInv'
<1>1. ControlInv'
  BY DEF Raise, ControlInv, Resting, Working, TypeInv, TypeOK, Phases
<1>2. StepInv'
  BY StepFree DEF Raise
<1>3. ClientInv'
  <2>1. \A c \in Clients : ~InGate(c)'
    BY WorkerAlone DEF Working, Resting
  <2>2. CachedMk /\ phase' \in {"rotate", "mark"} => cached' = mk'
    BY DEF Raise, ClientInv, ControlInv, TypeInv, TypeOK, Phases
  <2> QED BY <2>1, <2>2 DEF ClientInv
<1> QED BY <1>1, <1>2, <1>3

\* A dead process leaves the disk to the next start-up.
LEMMA DieKeeps ==
    ASSUME Die, DiskInv', ready' => rdir'
    PROVE  RotationInv'
<1>1. ControlInv' /\ StepInv'
  BY DEF Die, ControlInv, StepInv, Resting
<1>2. ClientInv'
  BY DieType, Zenon DEF Die, ClientInv
<1> QED BY <1>1, <1>2

LEMMA RotationInit == Init => RotationInv
<1> SUFFICES ASSUME Init PROVE RotationInv
  OBVIOUS
<1>1. \A f \in Present : Opens(live[f], mk)
  BY DEF Init, Present, Opens
<1> QED
  BY <1>1, ZenonT(30) DEF Init, ControlInv, DiskInv, StepInv, ClientInv, InGate, Resting

LEMMA RecoverKeeps ==
    ASSUME TameFaults, TypeInv, RotationInv, Recover
    PROVE  RotationInv'
<1> pc = "recover" /\ UNCHANGED <<disk, cached, clients>>
  BY DEF Recover, RecoverNothing, RecoverDiscard, RecoverCommitted
<1>1. DiskInv'
  BY DiskFrame DEF disk, rotation
<1>2. \A c \in Clients : ~InGate(c)'
  BY WorkerAlone DEF Resting
<1>3. CASE RecoverNothing
  <2>1. ControlInv'
    BY <1>3 DEF RecoverNothing, NextStep, NextPhase, ControlInv, disk, rotation,
          Resting, TypeInv, TypeOK, Phases
  <2>2. StepInv'
    BY <1>3, StepFree DEF RecoverNothing, NextStep
  <2>3. ClientInv'
    BY <1>3, <1>2 DEF RecoverNothing, NextPhase, ClientInv, disk, TypeInv,
          TypeOK, Phases
  <2> QED BY <1>1, <2>1, <2>2, <2>3
<1>4. CASE RecoverDiscard
  <2>1. ControlInv'
    BY <1>4 DEF RecoverDiscard, ControlInv, disk, rotation, Resting
  <2>2. StepInv'
    BY <1>4, StepFree DEF RecoverDiscard
  <2>3. ClientInv'
    BY <1>4, <1>2 DEF RecoverDiscard, ClientInv, disk
  <2> QED BY <1>1, <2>1, <2>2, <2>3
<1>5. CASE RecoverCommitted
  <2>1. Opens(nextOld, mk) \/ Opens(nextNew, mk)
    BY <1>5 DEF RecoverCommitted, DiskInv, Opens
  <2>2. /\ pc' = "apply"
        /\ UNCHANGED phase
        /\ todo' = Present
        /\ newMk' = nextNew.val
        /\ switched' => mk = newMk'
    BY <1>5, <2>1 DEF RecoverCommitted, DiskInv, Opens
  <2>3. ControlInv' /\ ClientInv'
    <3>1. ready /\ rdir /\ UNCHANGED <<ready, rdir, mk, cached>>
      BY <1>5 DEF RecoverCommitted, disk, rotation
    <3>2. ControlInv'
      BY <2>2, <3>1 DEF ControlInv, Resting
    <3>3. ClientInv'
      BY <1>2, <2>2, <3>1, ZenonT(30) DEF ClientInv
    <3> QED BY <3>2, <3>3
  <2>4. StepInv'
    BY <1>5, <2>2 DEF RecoverCommitted, StepInv, disk, rotation, Present
  <2> QED BY <1>1, <2>3, <2>4
<1> QED BY <1>3, <1>4, <1>5 DEF Recover

LEMMA ApplyKeeps ==
    ASSUME TameFaults, TypeInv, RotationInv, NEW f \in Files, Apply(f)
    PROVE  RotationInv'
<1>1. /\ pc = "apply" /\ f \in todo /\ f \in Present /\ ready /\ rdir
      /\ newMk = nextNew.val
      /\ switched => mk = newMk
      /\ phase \in {"start", "commit", "repair"}
      /\ UNCHANGED <<rotation, mk, newMk, switched, cached, clients>>
  BY DEF Apply, StepInv, ControlInv
<1>2. /\ Opens(staged[f], newMk)
      /\ staged[f].val = live[f].val
  BY <1>1 DEF DiskInv, Prepared
<1>3. /\ live' = [live EXCEPT ![f] = staged[f]]
      /\ todo' = todo \ {f}
      /\ Then(IF todo # {f} THEN "apply"
              ELSE IF switched THEN "clean" ELSE "store", phase)
  BY <1>2 DEF Apply, Opens
<1>4. /\ Present' = Present
      /\ \A g \in Present : g # f => live'[g] = live[g]
      /\ live'[f] = staged[f]
  BY <1>1, <1>2, <1>3, ZenonT(30) DEF Present, Opens, TypeInv, TypeOK
<1>5. DiskInv'
  BY <1>1, <1>2, <1>4 DEF DiskInv, Prepared, Opens, rotation
<1>6. CASE phase \in LateFailIn /\ Raise
  BY <1>1, <1>5, <1>6, RaiseKeeps DEF TameFaults, Working, rotation
<1>7. CASE /\ pc' = IF todo # {f} THEN "apply"
                    ELSE IF switched THEN "clean" ELSE "store"
           /\ phase' = phase
  <2>1. ControlInv'
    BY <1>1, <1>7 DEF ControlInv, rotation, Resting
  <2>2. StepInv'
    <3>1. \A g \in Present \ todo' : Opens(live'[g], newMk)
      BY <1>1, <1>2, <1>3, <1>4 DEF StepInv
    <3>2. todo' \subseteq Present
      BY <1>1, <1>3 DEF StepInv
    <3>3. pc' # "apply" => todo' = {}
      BY <1>1, <1>3, <1>7
    <3>4. pc' = "clean" => mk = newMk
      BY <1>1, <1>7
    <3>5. pc' \in {"apply", "store", "clean"}
      BY <1>7
    <3> QED
      BY <1>1, <1>4, <3>1, <3>2, <3>3, <3>4, <3>5, ZenonT(30) DEF StepInv, rotation, Opens
  <2>3. ClientInv'
    BY <1>1, <1>2, <1>7, WorkerAlone DEF ClientInv, Resting
  <2> QED BY <1>5, <2>1, <2>2, <2>3
<1> QED BY <1>3, <1>6, <1>7, ZenonT(30) DEF Then

LEMMA StoreKeeps ==
    ASSUME TameFaults, TypeInv, RotationInv, Store
    PROVE  RotationInv'
<1>1. /\ pc = "store" /\ ready /\ rdir
      /\ mk' = newMk
      /\ newMk = nextNew.val
      /\ \A f \in Present : Opens(live[f], newMk)
      /\ phase \in {"start", "commit", "repair"}
      /\ UNCHANGED <<live, rotation, todo, newMk, switched, cached, clients>>
  BY ZenonT(30) DEF Store, StepInv, ControlInv
<1>2. DiskInv'
  BY <1>1 DEF DiskInv, Prepared, Present, Opens, rotation
<1>3. CASE phase \in LateFailIn /\ Raise
  BY <1>1, <1>2, <1>3, RaiseKeeps DEF TameFaults, Working, rotation
<1>4. CASE pc' = "clean" /\ phase' = phase
  <2>1. ControlInv'
    BY <1>1, <1>4, ZenonT(30) DEF ControlInv, rotation, Resting
  <2>2. StepInv'
    BY <1>1, <1>4 DEF StepInv, Present, Opens, rotation
  <2>3. ClientInv'
    BY <1>1, <1>4, WorkerAlone DEF ClientInv, Resting
  <2> QED BY <1>2, <2>1, <2>2, <2>3
<1> QED BY <1>3, <1>4, ZenonT(30) DEF Store, Then

LEMMA CleanKeeps ==
    ASSUME TameFaults, TypeInv, RotationInv, Clean
    PROVE  RotationInv'
<1>1. /\ pc \in {"clean", "discard"}
      /\ ~rdir' /\ ~ready'
      /\ phase \notin {"mark", "refresh"}
      /\ UNCHANGED <<live, mk, cached, clients>>
  BY ZenonT(30) DEF Clean, ControlInv
<1>2. DiskInv'
  BY <1>1 DEF DiskInv, StepInv, ControlInv, Present, Opens
<1>3. CASE phase \in LateFailIn /\ Raise
  BY <1>1, <1>2, <1>3, RaiseKeeps DEF TameFaults, Working
<1>4. CASE pc' = NextStep /\ phase' = NextPhase
  <2>1. ControlInv'
    BY <1>1, <1>4, ZenonT(30) DEF ControlInv, NextStep, NextPhase, Resting, TypeInv,
          TypeOK, Phases
  <2>2. StepInv'
    BY <1>4 DEF StepInv, NextStep
  <2>3. ClientInv'
    BY <1>1, <1>4, WorkerAlone DEF ClientInv, NextPhase, Resting, TypeInv,
          TypeOK, Phases
  <2> QED BY <1>2, <2>1, <2>2, <2>3
<1> QED BY <1>3, <1>4 DEF Clean, Then

\* Only a discarded rotation can be removed in part.
LEMMA CleanTornKeeps ==
    ASSUME TameFaults, TypeInv, RotationInv, CleanTorn
    PROVE  RotationInv'
<1>0. /\ pc = "discard" /\ ~ready
      /\ UNCHANGED <<live, rdir, mk>>
      /\ phase \notin {"mark", "refresh"}
  BY ZenonT(30) DEF CleanTorn, ControlInv, TameFaults
<1>1. ~ready'
  BY <1>0, Zenon DEF CleanTorn
<1>2. DiskInv'
  BY <1>0, <1>1 DEF DiskInv, Present, Opens
<1>3. CASE phase \in FailIn /\ Raise /\ UNCHANGED <<cached, clients>>
  BY <1>0, <1>1, <1>2, <1>3, RaiseKeeps DEF TameFaults, Working
<1>4. CASE Die
  BY <1>1, <1>2, <1>4, DieKeeps, ZenonT(30)
<1> QED BY <1>3, <1>4 DEF CleanTorn

-----------------------------------------------------------------------------
USE DEF RotationInv

LEMMA PrepareKeeps ==
    ASSUME TameFaults, TypeInv, RotationInv, Begin \/ SaveOld \/ SaveNew
    PROVE  RotationInv'
<1>1. /\ pc \in {"begin", "saveold", "savenew"}
      /\ phase = "rotate" /\ ~ready
      /\ UNCHANGED <<live, staged, ready, mk, cached, clients>>
  BY ZenonT(30) DEF Begin, SaveOld, SaveNew, ControlInv
<1>2. DiskInv'
  BY <1>1 DEF DiskInv, Present, Opens
<1>3. CASE phase \in LateFailIn /\ Raise
  BY <1>1, <1>2, <1>3, RaiseKeeps DEF Working
<1>4. CASE /\ pc' = IF pc = "begin" THEN "saveold"
                    ELSE IF pc = "saveold" THEN "savenew" ELSE "stage"
           /\ phase' = phase
  <2>1. ControlInv'
    BY <1>1, <1>4, ZenonT(30) DEF ControlInv, Resting
  <2>2. ClientInv'
    BY <1>1, <1>4, WorkerAlone DEF ClientInv, Resting
  <2>3. StepInv'
    <3>1. CASE Begin
      BY <1>4, <3>1, ZenonT(30) DEF Begin, StepInv
    <3>2. CASE SaveOld
      BY <1>4, <3>2, ZenonT(30) DEF SaveOld, StepInv
    <3>3. CASE SaveNew
      <4>1. pc' = "stage" /\ todo' = Present /\ Present' = Present
        BY <1>4, <3>3 DEF SaveNew, Present
      <4>2. Prepared(Present \ todo, newMk)'
        BY <4>1 DEF Prepared
      <4> QED BY <1>4, <3>3, <4>1, <4>2, ZenonT(30) DEF SaveNew, StepInv
    <3> QED BY <3>1, <3>2, <3>3, ZenonT(30)
  <2> QED BY <1>2, <2>1, <2>2, <2>3
<1> QED BY <1>3, <1>4 DEF Begin, SaveOld, SaveNew, Then

LEMMA StageKeeps ==
    ASSUME TameFaults, TypeInv, RotationInv, NEW f \in Files, Stage(f)
    PROVE  RotationInv'
<1>1. /\ pc = "stage" /\ phase = "rotate" /\ ~ready /\ f \in todo
      /\ todo \subseteq Present
      /\ UNCHANGED <<live, rdir, nextOld, nextNew, ready, mk, newMk, switched,
                     cached, clients>>
  BY ZenonT(30) DEF Stage, ControlInv, StepInv
<1>2. DiskInv'
  BY <1>1, ZenonT(30) DEF DiskInv, Present, Opens
<1>3. Opens(live[f], mk)
  BY <1>1, ZenonT(30) DEF DiskInv
<1>4. /\ staged' = [staged EXCEPT ![f] = [mk |-> newMk, val |-> live[f].val]]
      /\ todo' = todo \ {f}
      /\ IF todo = {f} THEN Then("mark", "mark") ELSE Then("stage", phase)
  BY <1>3 DEF Stage
<1>5. CASE phase \in LateFailIn /\ Raise
  BY <1>1, <1>2, <1>5, RaiseKeeps DEF Working
<1>6. CASE \/ pc' = "mark" /\ phase' = "mark" /\ todo = {f}
           \/ pc' = "stage" /\ phase' = phase /\ todo # {f}
  <2>1. ControlInv'
    BY <1>1, <1>6, ZenonT(30) DEF ControlInv, Resting
  <2>2. ClientInv'
    BY <1>1, <1>6, WorkerAlone, ZenonT(30) DEF ClientInv, Resting
  <2>3. StepInv'
    <3>1. Present' = Present
      BY <1>1 DEF Present
    <3>2. Prepared(Present \ todo, newMk)'
      <4>1. [mk |-> newMk, val |-> live[f].val] # None
        <5>1. live[f] \in Keyfile /\ newMk \in Nat
          BY <1>3, ZenonT(30) DEF Opens, TypeInv, TypeOK
        <5> QED BY <5>1, ConstantsAssumption DEF Keyfile
      <4>2. staged'[f] = [mk |-> newMk, val |-> live[f].val]
        BY <1>4 DEF TypeInv, TypeOK
      <4>3. \A g \in Files \ {f} : staged'[g] = staged[g]
        BY <1>4, ZenonT(30) DEF TypeInv, TypeOK
      <4>4. \A g \in Present \ todo :
               staged[g] # None /\ staged[g].mk = newMk /\ staged[g].val = live[g].val
        BY <1>1, ZenonT(30) DEF StepInv, Prepared, Opens
      <4>5. Opens(staged'[f], newMk) /\ staged'[f].val = live[f].val
        BY <4>1, <4>2 DEF Opens
      <4>6. \A g \in Present \ todo' :
               Opens(staged'[g], newMk) /\ staged'[g].val = live[g].val
        <5> SUFFICES ASSUME NEW g \in Present \ todo', g # f
                     PROVE  Opens(staged'[g], newMk) /\ staged'[g].val = live[g].val
          BY <4>5
        <5>1. g \in Files /\ g \in Present \ todo
          BY <1>4 DEF Present
        <5> QED BY <4>3, <4>4, <5>1, ZenonT(30) DEF Opens
      <4>7. live' = live /\ newMk' = newMk
        BY <1>1
      <4> QED
        BY <3>1, <4>6, <4>7 DEF Prepared, Opens
    <3>3. todo' \subseteq Present /\ (pc' = "mark" => todo' = {})
      BY <1>1, <1>4, <1>6
    <3> QED
      BY <1>1, <1>6, <3>1, <3>2, <3>3 DEF StepInv
  <2> QED BY <1>2, <2>1, <2>2, <2>3
<1> QED BY <1>4, <1>5, <1>6, ZenonT(30) DEF Then

\* The commit point: what was prepared becomes what recovery relies on.
LEMMA MarkKeeps ==
    ASSUME TameFaults, TypeInv, RotationInv, Mark
    PROVE  RotationInv'
<1>1. /\ pc = "mark" /\ phase = "mark" /\ rdir /\ ~ready /\ ~switched
      /\ nextOld = [mk |-> mk, val |-> newMk]
      /\ nextNew = [mk |-> newMk, val |-> newMk]
      /\ Prepared(Present, newMk)
      /\ UNCHANGED <<live, rdir, nextOld, nextNew, staged, mk, newMk, switched,
                     cached, clients>>
  BY DEF Mark, ControlInv, StepInv
<1>2. ready' /\ pc' = "apply" /\ phase' = "commit" /\ todo' = Present
  BY <1>1 DEF Mark, Then, TameFaults
<1>3. Present' = Present
  BY <1>1 DEF Present
<1>4. ControlInv'
  BY <1>1, <1>2, ZenonT(30) DEF ControlInv, Resting
<1>5. DiskInv'
  <2>1. nextOld # None /\ nextNew # None
    BY <1>1, ConstantsAssumption DEF TypeInv, TypeOK
  <2>2. Prepared(Present, nextNew.val)'
    BY <1>1, <1>3 DEF Prepared
  <2>3. \A f \in Present : Opens(live[f], mk)
    BY <1>1, ZenonT(30) DEF DiskInv
  <2> QED BY <1>1, <1>2, <1>3, <2>1, <2>2, <2>3, ZenonT(30) DEF DiskInv
<1>6. StepInv'
  BY <1>1, <1>2, <1>3, ZenonT(30) DEF StepInv
<1>7. ClientInv'
  BY <1>1, <1>2, WorkerAlone DEF ClientInv, Resting
<1> QED BY <1>4, <1>5, <1>6, <1>7, ZenonT(30)

\* A call inside the gate: the store is whole, and what it adds fits.
LEMMA ClientKeeps ==
    ASSUME TypeInv, RotationInv, NEW c \in Clients, ClientStep(c)
    PROVE  RotationInv'
<1>1. UNCHANGED <<rotation, mk, worker>>
  <2>1. CASE Link(c) \/ Rename(c) \/ Load(c)
    BY <2>1, ZenonT(30) DEF Link, Rename, Write, Load
  <2> QED
    BY <2>1, ZenonT(30) DEF ClientStep, Call, Enter, Miss, PreCheck, ClientFail, disk
<1>2. ControlInv'
  BY <1>1, ZenonT(30) DEF ControlInv, rotation, worker
<1>3. CASE ~(Link(c) \/ Rename(c))
  <2>1. UNCHANGED live
    BY <1>3 DEF ClientStep, Call, Enter, Load, Miss, PreCheck, ClientFail, disk
  <2>2. DiskInv'
    BY <1>1, <2>1, DiskFrame, ZenonT(30) DEF rotation
  <2>3. StepInv'
    BY <1>1, <2>1, ZenonT(30) DEF StepInv, Prepared, Present, Opens, rotation, worker
  <2>4. ASSUME NEW d \in Clients, InGate(d)'
        PROVE  pc \in Resting /\ cmk'[d] = mk
    <3>1. CASE InGate(d) /\ cmk'[d] = cmk[d]
      BY <3>1, ZenonT(30) DEF ClientInv
    <3>2. CASE Enter(c) /\ d = c
      BY <3>2 DEF Enter, GateOpen, ClientInv, ControlInv, TypeInv, TypeOK
    <3> QED
      BY <1>3, <2>4, <3>1, <3>2, ZenonT(30) DEF ClientStep, Call, Enter, Load, Miss,
           PreCheck, ClientFail, Leave, InGate, TypeInv, TypeOK
  <2> QED BY <1>1, <1>2, <2>2, <2>3, <2>4, ZenonT(30) DEF ClientInv, worker
<1>4. CASE Link(c) \/ Rename(c)
  <2>1. InGate(c) /\ Write(c)
    BY <1>4 DEF Link, Rename, InGate
  <2>2. pc \in Resting /\ cmk[c] = mk /\ ~ready
    BY <2>1, ZenonT(30) DEF ClientInv, ControlInv, Resting
  <2>3. \A f \in Present' : Opens(live'[f], mk)
    <3>1. TAKE f \in Present'
    <3>2. CASE f \in want[c]
      BY <2>1, <2>2, <3>1, <3>2, Zenon DEF Write, Present, Opens
    <3>3. CASE f \notin want[c]
      BY <2>1, <2>2, <3>1, <3>3, ZenonT(30) DEF Write, Present, Opens, DiskInv
    <3> QED BY <3>2, <3>3, ZenonT(30)
  <2>4. DiskInv'
    BY <1>1, <2>2, <2>3, ZenonT(30) DEF DiskInv, rotation
  <2>5. StepInv'
    BY <1>1, <2>2, ZenonT(30) DEF StepInv, Resting, worker
  <2>6. ClientInv'
    BY <1>1, <2>1, ZenonT(30) DEF ClientInv, Write, Leave, InGate, worker, TypeInv, TypeOK
  <2> QED BY <1>2, <2>4, <2>5, <2>6
<1> QED BY <1>3, <1>4, ZenonT(30)

\* The remaining steps leave the disk alone.
LEMMA QuietKeeps ==
    ASSUME TameFaults, TypeInv, RotationInv,
           \/ Start \/ Material \/ RotationDue \/ Refresh \/ HandleError
           \/ Fail \/ Crash \/ Shutdown \/ UNCHANGED vars
    PROVE  RotationInv'
<1>1. UNCHANGED disk
  BY DEF Start, Material, RotationDue, Refresh, HandleError, Fail, Crash,
       Shutdown, vars
<1>2. DiskInv'
  BY <1>1, DiskFrame DEF disk, rotation
<1>3. CASE Start \/ RotationDue
  <2>1. ControlInv' /\ StepInv'
    <3>1. ControlInv'
      BY <1>1, <1>3, ZenonT(30) DEF Start, RotationDue, ControlInv, Resting, disk, rotation
    <3> QED BY <1>3, <3>1, StepFree, ZenonT(30) DEF Start, RotationDue
  <2>2. ClientInv'
    BY <1>1, <1>3, ZenonT(30) DEF Start, RotationDue, ClientInv, InGate, clients, disk,
         Resting
  <2> QED BY <1>2, <2>1, <2>2
<1>4. CASE Material
  <2>1. CASE \A s \in Seeds : Opens(live[s], mk)
    <3>1. ControlInv' /\ StepInv'
      <4>1. ControlInv'
        BY <1>1, <1>4, <2>1 DEF Material, ControlInv, Resting, disk, rotation
      <4> QED BY <1>4, <2>1, <4>1, StepFree, ZenonT(30) DEF Material
    <3>2. ClientInv'
      <4>1. \A c \in Clients : ~InGate(c)'
        BY <1>4, WorkerAlone, ZenonT(30) DEF Material, Resting
      <4> QED BY <1>1, <1>4, <2>1, <4>1, ZenonT(30) DEF Material, ClientInv, disk
    <3> QED BY <1>2, <3>1, <3>2
  <2>2. CASE ~\A s \in Seeds : Opens(live[s], mk)
    <3>1. Raise /\ UNCHANGED <<cached, clients>> /\ phase = "start" /\ ~ready
      BY <1>4, <2>2 DEF Material, ControlInv
    <3>2. ~ready'
      BY <1>1, <3>1 DEF disk, rotation
    <3> QED BY <1>1, <1>2, <1>4, <3>1, <3>2, RaiseKeeps, ZenonT(30) DEF Material, Working, disk
  <2> QED BY <2>1, <2>2
<1>5. CASE Refresh
  <2>1. ControlInv' /\ StepInv'
    <3>1. ControlInv'
      BY <1>1, <1>5 DEF Refresh, ControlInv, Resting, disk, rotation
    <3> QED BY <1>5, <3>1, StepFree, ZenonT(30) DEF Refresh
  <2>2. ClientInv'
    BY <1>1, <1>5, WorkerAlone DEF Refresh, ClientInv, Resting, disk
  <2> QED BY <1>2, <2>1, <2>2
<1>6. CASE HandleError
  <2>1. ControlInv' /\ StepInv'
    <3>1. ControlInv'
      BY <1>1, <1>6 DEF HandleError, ControlInv, Resting, disk, rotation
    <3> QED BY <1>6, <3>1, StepFree, ZenonT(30) DEF HandleError
  <2>2. ClientInv'
    BY <1>1, <1>6, ZenonT(30) DEF HandleError, ClientInv, Resting, InGate, clients, disk
  <2> QED BY <1>2, <2>1, <2>2
<1>7. CASE Fail
  <2>1. ready' => ready /\ rdir'
    BY <1>1 DEF disk, rotation, ControlInv
  <2> QED BY <1>1, <1>2, <1>7, <2>1, RaiseKeeps DEF Fail, TameFaults, disk
<1>8. CASE Crash \/ Shutdown
  <2>1. ready' => rdir'
    BY <1>1, ZenonT(30) DEF disk, rotation, ControlInv
  <2> QED BY <1>2, <1>8, <2>1, DieKeeps DEF Crash, Shutdown
<1>9. CASE UNCHANGED vars
  BY <1>2, <1>9, ZenonT(30) DEF vars, worker, clients, disk, rotation, ControlInv, StepInv,
       ClientInv, InGate, Prepared, Present, Opens
<1> QED BY <1>3, <1>4, <1>5, <1>6, <1>7, <1>8, <1>9, ZenonT(30)

LEMMA RotationStep ==
    ASSUME TameFaults, TypeInv, RotationInv, [Next]_vars
    PROVE  RotationInv'
BY RecoverKeeps, ApplyKeeps, StoreKeeps, CleanKeeps, CleanTornKeeps,
   PrepareKeeps, StageKeeps, MarkKeeps, ClientKeeps, QuietKeeps
DEF Next, Progress

\* RotationInv holds in every reachable state.
LEMMA RotationInvariant ==
    ASSUME TameFaults
    PROVE  Spec => [](TypeInv /\ RotationInv)
<1>1. Init => TypeInv /\ RotationInv
  BY TypeInit, RotationInit
<1>2. TypeInv /\ RotationInv /\ [Next]_vars => (TypeInv /\ RotationInv)'
  BY TypeStep, RotationStep
<1> QED
  BY <1>1, <1>2, PTL DEF Spec

\* At every instant the disk is recoverable by recover_pending_rotation_if_any:
\* RecoveryCompletes, for any store, any number of clients, rotations, crashes
\* and I/O errors of the tame classes.
THEOREM CrashSafety ==
    ASSUME TameFaults
    PROVE  Spec => []RecoveryCompletes
<1>1. RotationInv => RecoveryCompletes
  <2> SUFFICES ASSUME RotationInv, ready PROVE RecoveryCompletes
    BY ZenonT(30) DEF RecoveryCompletes, DiskInv
  <2>1. rdir /\ (Opens(nextNew, mk) \/ Opens(nextOld, mk))
    BY DEF ControlInv, DiskInv, Opens
  <2>2. nextNew.val = IF Opens(nextNew, mk) THEN mk ELSE nextOld.val
    BY ZenonT(30) DEF DiskInv, Opens
  <2> QED BY <2>1, <2>2, ZenonT(30) DEF RecoveryCompletes, DiskInv, Prepared
<1> QED
  BY <1>1, RotationInvariant, PTL

\* A caller inside the read gate never meets a half-rewrapped store, nor an MK
\* other than the store's (GateSeesOneMk), cached-mk included.
THEOREM GateConsistency ==
    ASSUME TameFaults
    PROVE  Spec => []GateSeesOneMk
<1>1. RotationInv => GateSeesOneMk
  BY DEF GateSeesOneMk, ClientInv, ControlInv, DiskInv, Resting
<1> QED
  BY <1>1, RotationInvariant, PTL

\* RotationInv itself: which steps a marker, a staged copy and a lock go with.
THEOREM RotationIsInductive ==
    ASSUME TameFaults
    PROVE  Spec => []RotationInv
BY RotationInvariant, PTL

\* No crash and no tame fault makes a secret unreadable: its keyfile opens under
\* the provider's MK or under the MK next-mk-old.keyf gives.
THEOREM SecretsSurvive ==
    ASSUME TameFaults
    PROVE  Spec => []NoSecretLost
<1>1. RotationInv => NoSecretLost
  <2> SUFFICES ASSUME RotationInv PROVE NoSecretLost
    BY ZenonT(30)
  <2>1. CASE ~ready
    BY <2>1, ZenonT(30) DEF DiskInv, NoSecretLost
  <2>2. CASE ready
    BY <2>2, ZenonT(30) DEF DiskInv, ControlInv, Prepared, NoSecretLost, Present, Opens
  <2> QED BY <2>1, <2>2
<1> QED
  BY <1>1, RotationInvariant, PTL

\* When the write lock is free and the manager serves calls, the store is whole.
THEOREM ServesWholeStores ==
    ASSUME TameFaults
    PROVE  Spec => []MixedStoreFailsClosed
<1>1. RotationInv => MixedStoreFailsClosed
  BY DEF MixedStoreFailsClosed, GateOpen, ControlInv, DiskInv, Resting
<1> QED
  BY <1>1, RotationInvariant, PTL
=============================================================================
