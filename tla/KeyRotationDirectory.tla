------------------------ MODULE KeyRotationDirectory ------------------------
(***************************************************************************)
(* Type correctness of KeyRotation, for any number of keyfiles, clients,   *)
(* rotations and faults.  A keyfile is sealed under a number, so the MK a  *)
(* call holds, and the cached MK it comes from, must be known to be there. *)
(***************************************************************************)
EXTENDS KeyRotation, TLAPS

USE DEF Sealed, Rewrapped

TypeInv ==
    /\ TypeOK
    /\ \A c \in Clients : InGate(c) => cmk[c] \in Nat
    /\ Up /\ CachedMk => cached \in Nat
    /\ pc \in {"begin", "saveold", "savenew", "stage", "mark"} => Up

\* The outcomes of an Err.
LEMMA RaiseType ==
    ASSUME Raise, phase \in Phases, poisoned \in BOOLEAN
    PROVE  /\ pc' \in {"down", "error", "recover"}
           /\ phase' \in Phases
           /\ poisoned' \in BOOLEAN
           /\ Up' = Up
BY Zenon DEF Raise, Phases, Up

\* Going on or failing late.
LEMMA ThenType ==
    ASSUME NEW step, NEW ph, Then(step, ph), ph \in Phases,
           (ph # "start") = Up,
           phase \in Phases, poisoned \in BOOLEAN, faults \in Nat
    PROVE  /\ pc' = step \/ pc' \in {"down", "error", "recover"}
           /\ phase' \in Phases
           /\ poisoned' \in BOOLEAN
           /\ Up' = Up
           /\ faults' \in Nat
BY RaiseType DEF Then, Up

LEMMA NextStepType ==
    ASSUME phase \in Phases
    PROVE  /\ NextStep \in Working \cup Resting
           /\ NextPhase \in Phases
           /\ (NextPhase # "start") = Up
           /\ NextStep = "begin" => Up
           /\ NextStep \in {"material", "begin", "refresh", "idle"}
BY DEF NextStep, NextPhase, Phases, Working, Resting, Up

\* A process that is gone leaves no call behind.
LEMMA DieType ==
    ASSUME Die
    PROVE  /\ pc' = "down" /\ phase' = "start" /\ todo' = {} /\ newMk' = 0
           /\ ~switched' /\ ~poisoned' /\ cached' = None
           /\ switched' \in BOOLEAN /\ poisoned' \in BOOLEAN
           /\ cpc' \in [Clients -> {"idle"}]
           /\ want' \in [Clients -> {{}}]
           /\ cmk' \in [Clients -> {None}]
           /\ \A c \in Clients : ~InGate(c)'
BY Zenon DEF Die, InGate

LEMMA TypeInit == Init => TypeInv
<1> SUFFICES ASSUME Init PROVE TypeInv
  OBVIOUS
<1>1. live \in [Files -> Keyfile \cup {None}]
  BY DEF Init, Keyfile
<1>2. cpc \in [Clients -> {"idle"}] /\ cmk \in [Clients -> {None}]
  BY DEF Init
<1> QED
  BY <1>1, <1>2, Zenon DEF Init, TypeInv, TypeOK, Phases, InGate, Up

\* Every step of KeyRotation keeps the types.
LEMMA TypeStep == TypeInv /\ [Next]_vars => TypeInv'
<1> SUFFICES ASSUME TypeInv, [Next]_vars PROVE TypeInv'
  OBVIOUS
<1> USE ConstantsAssumption DEF TypeInv, TypeOK
<1>1. CASE Start \/ RotationDue
  BY <1>1 DEF Start, RotationDue, disk, rotation, clients, history, Working,
              InGate, Up
<1>2. CASE Material
  <2>1. /\ pc' \in {"idle", "down", "error", "recover"}
        /\ phase' \in Phases
        /\ poisoned' \in BOOLEAN
        /\ cached' \in Nat \cup {None}
    BY <1>2, RaiseType DEF Material, Phases
  <2>2. Up' /\ CachedMk => cached' \in Nat
    BY <1>2, RaiseType, ZenonT(30) DEF Material, Up
  <2> QED
    BY <1>2, <2>1, <2>2 DEF Material, disk, rotation, clients, history,
              Working, Resting, InGate
<1>3. CASE Recover
  <2>1. CASE RecoverNothing
    BY <2>1, NextStepType DEF RecoverNothing, disk, rotation, clients, history,
              InGate, Up
  <2>2. CASE RecoverDiscard
    BY <2>2 DEF RecoverDiscard, disk, rotation, clients, history, Working,
              InGate, Up
  <2>3. CASE RecoverCommitted
    BY <2>3, RaiseType, Zenon DEF RecoverCommitted, disk, rotation, clients, history,
              InGate, Up, Opens, Keyfile, Present, Working, Resting
  <2> QED BY <1>3, <2>1, <2>2, <2>3 DEF Recover
<1>4. ASSUME NEW f \in Files, Apply(f) PROVE TypeInv'
  BY <1>4, RaiseType, ThenType DEF Apply, rotation, clients, history, InGate,
              Working, Resting, Up
<1>5. CASE Store
  BY <1>5, ThenType DEF Store, rotation, clients, history, InGate, Working,
              Resting, Up
<1>6. CASE Clean
  BY <1>6, ThenType, NextStepType, Zenon DEF Clean, clients, history, InGate, Up,
              Working, Resting
<1>7. CASE Begin \/ SaveOld \/ SaveNew \/ Mark
  <2> USE ThenType DEF clients, history, InGate, Up, Working, Resting
  <2>1. CASE Begin
    <3>1. lastMk' \in Nat /\ newMk' \in Nat
      BY <2>1 DEF Begin
    <3>2. rdir' \in BOOLEAN /\ switched' \in BOOLEAN
      BY <2>1, Zenon DEF Begin
    <3>3. /\ pc' \in {"saveold", "down", "error", "recover"}
          /\ phase' \in Phases
          /\ poisoned' \in BOOLEAN
          /\ faults' \in Nat
          /\ Up' = Up
          /\ Up
      BY <2>1 DEF Begin
    <3> QED BY <2>1, <3>1, <3>2, <3>3 DEF Begin
  <2>2. CASE SaveOld
    BY <2>2 DEF SaveOld, Keyfile
  <2>3. CASE SaveNew
    BY <2>3 DEF SaveNew, Keyfile, Present
  <2>4. CASE Mark
    <3> "commit" \in Phases
      BY DEF Phases
    <3> QED BY <2>4 DEF Mark, Present
  <2> QED BY <1>7, <2>1, <2>2, <2>3, <2>4, ZenonT(30)
<1>8. ASSUME NEW f \in Files, Stage(f) PROVE TypeInv'
  <2>1. /\ staged' \in [Files -> Keyfile \cup {None}]
        /\ todo' \subseteq Files
    BY <1>8 DEF Stage, Opens, Keyfile
  <2>2. /\ pc' \in {"mark", "stage", "down", "error", "recover"}
        /\ phase' \in Phases
        /\ poisoned' \in BOOLEAN
        /\ faults' \in Nat
        /\ Up' = Up
    <3>1. CASE Raise /\ UNCHANGED faults
      BY <3>1, RaiseType
    <3>2. CASE Then("mark", "mark")
      BY <1>8, <3>2, ThenType DEF Stage, Up, Phases
    <3>3. CASE Then("stage", phase)
      BY <3>3, ThenType DEF Up
    <3> QED BY <1>8, <3>1, <3>2, <3>3, Zenon DEF Stage
  <2> QED
    BY <1>8, <2>1, <2>2 DEF Stage, clients, history, InGate, Working, Resting
<1>9. CASE Refresh \/ HandleError
  <2> "rotate" \in Phases
    BY DEF Phases
  <2> QED
    BY <1>9, Zenon DEF Refresh, HandleError, disk, rotation, clients, history,
              Resting, InGate, Up
<1>10. CASE Fail
  BY <1>10, RaiseType DEF Fail, disk, rotation, clients, history, InGate,
              Working, Resting, Up
<1>11. CASE CleanTorn
  <2>1. PICK kept \in SUBSET Files :
          staged' = [f \in Files |-> IF f \in kept THEN staged[f] ELSE None]
    BY <1>11, Zenon DEF CleanTorn
  <2>2. /\ staged' \in [Files -> Keyfile \cup {None}]
        /\ nextOld' \in Keyfile \cup {None}
        /\ nextNew' \in Keyfile \cup {None}
        /\ faults' \in Nat
    BY <1>11, <2>1 DEF CleanTorn
  <2>3. ready' \in BOOLEAN
    BY <1>11, Zenon DEF CleanTorn
  <2>4. UNCHANGED <<live, rdir, mk, given, lastMk, drawn>>
    BY <1>11, ZenonT(30) DEF CleanTorn, history
  <2> QED
    <3>1. CASE Die
      BY <2>2, <2>3, <2>4, <3>1, DieType DEF Up, Phases
    <3>2. CASE Raise /\ UNCHANGED <<todo, newMk, switched, cached, clients>>
      BY <2>2, <2>3, <2>4, <3>2, RaiseType DEF clients, InGate, Working, Resting
    <3> QED BY <1>11, <3>1, <3>2 DEF CleanTorn
<1>12. CASE Crash \/ Shutdown
  BY <1>12, DieType DEF Crash, Shutdown, disk, rotation, history, Up, Phases
<1>13. ASSUME NEW c \in Clients, ClientStep(c) PROVE TypeInv'
  <2> USE DEF disk, rotation, worker, history, InGate, Up
  <2>1. ASSUME NEW files \in SUBSET Files, Call(c, files) PROVE TypeInv'
    BY <2>1 DEF Call
  <2>2. CASE Enter(c)
    BY <2>2, ZenonT(30) DEF Enter, GateOpen
  <2>3. CASE Load(c)
    BY <2>3 DEF Load, Leave, Give, Opens, Keyfile
  <2>4. CASE Miss(c) \/ PreCheck(c)
    BY <2>4, ZenonT(30) DEF Miss, PreCheck
  <2>5. CASE Link(c) \/ Rename(c)
    <3>1. Write(c) /\ InGate(c)
      BY <2>5, Zenon DEF Link, Rename
    <3>2. cmk[c] \in Nat /\ drawn + 1 \in Nat
      BY <3>1
    <3>3. live' \in [Files -> Keyfile \cup {None}] /\ drawn' \in Nat
      BY <3>1, <3>2 DEF Write, Keyfile
    <3>4. given' \in [Files -> SUBSET Nat]
      <4>1. \A f \in want[c] : f \in Files /\ live'[f].val = drawn + 1
        BY <3>1, <3>2 DEF Write, Keyfile
      <4> QED
        BY <3>1, <3>2, <4>1 DEF Write, Give
    <3>5. /\ cpc' = [cpc EXCEPT ![c] = "idle"]
          /\ want' = [want EXCEPT ![c] = {}]
          /\ cmk' = [cmk EXCEPT ![c] = None]
      BY <3>1, Zenon DEF Write, Leave
    <3>6. UNCHANGED <<rotation, mk, worker, lastMk, faults>>
      BY <3>1, Zenon DEF Write
    <3> QED
      BY <3>3, <3>4, <3>5, <3>6
  <2>6. CASE ClientFail(c)
    BY <2>6 DEF ClientFail, Leave
  <2> QED
    BY <1>13, <2>1, <2>2, <2>3, <2>4, <2>5, <2>6, Zenon DEF ClientStep, Files
<1>14. CASE UNCHANGED vars
  BY <1>14 DEF vars, disk, rotation, worker, clients, history, InGate, Up
<1> QED
  BY <1>1, <1>2, <1>3, <1>4, <1>5, <1>6, <1>7, <1>8, <1>9, <1>10, <1>11,
     <1>12, <1>13, <1>14, Zenon DEF Next, Progress

\* Every reachable state is well typed: in particular no keyfile is ever written
\* under an MK that with_current_mk did not have.
THEOREM TypeCorrect == Spec => []TypeOK
<1>1. Spec => []TypeInv
  BY TypeInit, TypeStep, PTL DEF Spec
<1> QED
  BY <1>1, PTL DEF TypeInv

-----------------------------------------------------------------------------
(***************************************************************************)
(* One secret per file, when files are created by hard_link: whatever      *)
(* fails and wherever the process crashes, callers see a directory of      *)
(* secrets.  A re-wrapped copy always carries the secret of its live file, *)
(* stale copies in an abandoned .rotate/ included.                         *)
(***************************************************************************)
StagedCopies ==
    \A f \in Files :
        staged[f] # None => live[f] # None /\ staged[f].val = live[f].val

\* Calls ask for one label or for the seeds, and create only labels.
Requests ==
    \A c \in Clients :
        /\ cpc[c] # "idle" => want[c] = Seeds \/ \E l \in Labels : want[c] = {l}
        /\ cpc[c] = "creating" => \E l \in Labels : want[c] = {l}
        /\ cpc[c] # "renaming"

CopyInv == StagedCopies /\ Requests

\* The secret behind each name, as SecretDirectory sees it.
DirMap == [f \in Files |-> IF live[f] = None THEN None ELSE live[f].val]

LEMMA CopyInit == Init => CopyInv
BY ZenonT(30) DEF Init, CopyInv, StagedCopies, Requests

LEMMA CopyStep ==
    ASSUME CreateMode = "link", TypeInv, CopyInv, [Next]_vars
    PROVE  CopyInv'
<1> USE ConstantsAssumption DEF CopyInv
<1>1. CASE Start \/ RotationDue \/ Material \/ Recover \/ Store \/ Refresh
              \/ HandleError \/ Fail \/ Begin \/ SaveOld \/ SaveNew \/ Mark
              \/ UNCHANGED vars
  <2>1. UNCHANGED <<live, staged, cpc, want>>
    BY <1>1, ZenonT(30) DEF Start, RotationDue, Material, Recover, RecoverNothing,
         RecoverDiscard, RecoverCommitted, Store, Refresh, HandleError, Fail,
         Begin, SaveOld, SaveNew, Mark, vars, disk, rotation, clients
  <2> QED BY <2>1, ZenonT(30) DEF StagedCopies, Requests
<1>2. ASSUME NEW f \in Files, Apply(f) PROVE CopyInv'
  <2>1. UNCHANGED <<staged, cpc, want>>
    BY <1>2, ZenonT(30) DEF Apply, rotation, clients
  <2>2. live' = live \/ (staged[f] # None /\ live' = [live EXCEPT ![f] = staged[f]])
    BY <1>2 DEF Apply
  <2> QED BY <2>1, <2>2, ZenonT(30) DEF StagedCopies, Requests, TypeInv, TypeOK
<1>3. ASSUME NEW f \in Files, Stage(f) PROVE CopyInv'
  <2>1. UNCHANGED <<live, cpc, want>>
    BY <1>3, ZenonT(30) DEF Stage, clients
  <2>2. \/ staged' = staged
        \/ /\ live[f] # None
           /\ staged' = [staged EXCEPT ![f] = [mk |-> newMk, val |-> live[f].val]]
    BY <1>3, ZenonT(30) DEF Stage, Opens
  <2> QED BY <2>1, <2>2 DEF StagedCopies, Requests, TypeInv, TypeOK
<1>4. CASE Clean
  BY <1>4 DEF Clean, clients, StagedCopies, Requests
<1>5. CASE CleanTorn \/ Crash \/ Shutdown
  <2>1. /\ UNCHANGED live
        /\ \A f \in Files : staged'[f] \in {staged[f], None}
    BY <1>5, Zenon DEF CleanTorn, Crash, Shutdown, disk, rotation
  <2>2. UNCHANGED <<cpc, want>> \/ cpc' = [c \in Clients |-> "idle"]
    BY <1>5, Zenon DEF CleanTorn, Crash, Shutdown, Die, clients
  <2> QED BY <2>1, <2>2 DEF StagedCopies, Requests
<1>6. ASSUME NEW c \in Clients, ClientStep(c) PROVE CopyInv'
  <2> USE DEF TypeInv, TypeOK, disk, rotation, StagedCopies, Requests
  <2>1. ASSUME NEW files, Call(c, files),
               files = Seeds \/ \E l \in Labels : files = {l}
        PROVE  CopyInv'
    BY <2>1, ZenonT(30) DEF Call
  <2>2. CASE Enter(c)
    BY <2>2, ZenonT(30) DEF Enter
  <2>3. CASE Load(c) \/ ClientFail(c)
    BY <2>3 DEF Load, ClientFail, Leave
  <2>4. CASE Miss(c)
    BY <2>4, ZenonT(30) DEF Miss
  <2>5. CASE Link(c)
    BY <2>5, ZenonT(30) DEF Link, Write, Leave
  <2>6. CASE PreCheck(c) \/ Rename(c)
    BY <2>6, ZenonT(30) DEF PreCheck, Rename
  <2> QED
    BY <1>6, <2>1, <2>2, <2>3, <2>4, <2>5, <2>6, Zenon DEF ClientStep
<1> QED
  BY <1>1, <1>2, <1>3, <1>4, <1>5, <1>6 DEF Next, Progress

\* Only two kinds of step show in the directory: a Link creates a label's secret
\* and a Load reads secrets that are there.
LEMMA DirectoryStep ==
    ASSUME CreateMode = "link", TypeInv, CopyInv, [Next]_vars
    PROVE  [Directory!Next]_<<DirMap, given>>
<1> USE ConstantsAssumption DEF CopyInv
<1>1. CASE Start \/ RotationDue \/ Material \/ Recover \/ Store \/ Refresh
              \/ HandleError \/ Fail \/ Begin \/ SaveOld \/ SaveNew \/ Mark
              \/ Clean \/ CleanTorn \/ Crash \/ Shutdown \/ UNCHANGED vars
              \/ (\E f \in Files : Stage(f))
  <2>1. UNCHANGED <<live, given>>
    BY <1>1, Zenon DEF Start, RotationDue, Material, Recover, RecoverNothing,
         RecoverDiscard, RecoverCommitted, Store, Refresh, HandleError, Fail,
         Begin, SaveOld, SaveNew, Mark, Clean, CleanTorn, Crash, Shutdown,
         Stage, vars, disk, history
  <2> QED BY <2>1 DEF DirMap
<1>2. ASSUME NEW f \in Files, Apply(f) PROVE UNCHANGED <<DirMap, given>>
  <2>1. UNCHANGED given
    BY <1>2, ZenonT(30) DEF Apply, history
  <2>2. live' = live \/ (staged[f] # None /\ live' = [live EXCEPT ![f] = staged[f]])
    BY <1>2 DEF Apply
  <2> QED BY <2>1, <2>2 DEF StagedCopies, DirMap, TypeInv, TypeOK
<1>3. ASSUME NEW c \in Clients, ClientStep(c)
      PROVE  [Directory!Next]_<<DirMap, given>>
  <2>1. CASE \/ \E l \in Labels : Call(c, {l})
             \/ Call(c, Seeds)
             \/ Enter(c) \/ Miss(c) \/ PreCheck(c) \/ ClientFail(c)
    <3>1. UNCHANGED <<live, given>>
      BY <2>1, ZenonT(30) DEF Call, Enter, Miss, PreCheck, ClientFail, disk, history
    <3> QED BY <3>1 DEF DirMap
  <2>2. CASE Load(c)
    <3>1. UNCHANGED live /\ want[c] \in SUBSET Files
      BY <2>2 DEF Load, TypeInv, TypeOK
    <3>2. CASE UNCHANGED given
      BY <3>1, <3>2, ZenonT(30) DEF DirMap
    <3>3. CASE Give(want[c])
      <4>1. \A f \in want[c] : live[f] # None
        BY <2>2 DEF Load
      <4>2. Directory!Read(want[c])
        BY <3>1, <3>3, <4>1, Zenon DEF Directory!Read, Directory!Names, Give, Files,
              DirMap, TypeInv, TypeOK, Keyfile
      <4> QED BY <3>1, <4>2 DEF Directory!Next, Directory!Names, Files
    <3> QED BY <2>2, <3>2, <3>3, ZenonT(30) DEF Load
  <2>3. CASE Link(c)
    <3>1. PICK l \in Labels : want[c] = {l}
      BY <2>3 DEF Link, Requests
    <3>2. Directory!Create(l)
      <4>1. /\ l \in Files
            /\ live[l] = None
            /\ drawn + 1 \in Nat
            /\ live' = [f \in Files |->
                 IF f = l THEN [mk |-> cmk[c], val |-> drawn + 1] ELSE live[f]]
        BY <2>3, <3>1 DEF Link, Write, Files, TypeInv, TypeOK
      <4>2. live'[l].val = drawn + 1 /\ live'[l] # None
        <5>1. cmk[c] \in Nat
          BY <2>3 DEF Link, InGate, TypeInv
        <5> QED BY <4>1, <5>1
      <4>3. given' = [given EXCEPT ![l] = @ \cup {drawn + 1}]
        BY <2>3, <3>1, <4>1, <4>2, Zenon DEF Link, Write, Give, TypeInv, TypeOK
      <4>4. DirMap' = [DirMap EXCEPT ![l] = drawn + 1]
        BY <4>1, <4>2, Zenon DEF DirMap
      <4>5. DirMap[l] = None /\ DirMap'[l] = drawn + 1
        BY <4>1, <4>2 DEF DirMap
      <4> QED BY <4>1, <4>3, <4>4, <4>5, Zenon DEF Directory!Create, DirMap
    <3> QED BY <3>2 DEF Directory!Next
  <2>4. CASE Rename(c)
    BY <2>4, ZenonT(30) DEF Rename, Requests
  <2> QED BY <1>3, <2>1, <2>2, <2>3, <2>4, ZenonT(30) DEF ClientStep
<1> QED
  BY <1>1, <1>2, <1>3, ZenonT(30) DEF Next, Progress

LEMMA DirectoryInit == Init => Directory!Init
<1> SUFFICES ASSUME Init PROVE Directory!Init
  OBVIOUS
<1>1. [mk |-> 0, val |-> 0] # None
  BY ConstantsAssumption
<1>2. \A f \in Files : (IF live[f] = None THEN None ELSE live[f].val)
                         = IF f \in Seeds THEN 0 ELSE None
  BY <1>1 DEF Init
<1> QED
  BY <1>2, ZenonT(30) DEF Init, Directory!Init, Directory!Names, Files

\* With hard_link creation the key manager is a directory of secrets to its
\* callers, whatever I/O errors, crashes, torn clean-ups and MK cache it meets:
\* ImplementsDirectory for any numbers of labels, seeds, clients and rotations.
THEOREM DirectoryRefinement ==
    ASSUME CreateMode = "link"
    PROVE  Spec => ImplementsDirectory
<1>1. Init => TypeInv /\ CopyInv
  BY TypeInit, CopyInit
<1>2. TypeInv /\ CopyInv /\ [Next]_vars => (TypeInv /\ CopyInv)'
  BY TypeStep, CopyStep
<1>3. TypeInv /\ CopyInv /\ [Next]_vars => [Directory!Next]_<<DirMap, given>>
  BY DirectoryStep
<1> QED
  BY <1>1, <1>2, <1>3, DirectoryInit, PTL
  DEF Spec, ImplementsDirectory, Directory!Spec, DirMap

\* Racing creators agree and no secret somebody was given is ever replaced or
\* dropped: OneSecretPerFile, from the refinement.
THEOREM OneSecret ==
    ASSUME CreateMode = "link"
    PROVE  Spec => []OneSecretPerFile
<1>1. Init => TypeInv /\ CopyInv /\ OneSecretPerFile
  BY TypeInit, CopyInit DEF Init, OneSecretPerFile
<1>2. TypeInv /\ CopyInv /\ OneSecretPerFile /\ [Next]_vars
        => (TypeInv /\ CopyInv /\ OneSecretPerFile)'
  <2> SUFFICES ASSUME TypeInv, CopyInv, OneSecretPerFile, [Next]_vars
               PROVE  (TypeInv /\ CopyInv /\ OneSecretPerFile)'
    OBVIOUS
  <2>1. TypeInv' /\ CopyInv'
    BY TypeStep, CopyStep
  <2> DEFINE Agree == \A f \in Files : \A v \in given[f] : DirMap[f] = v
  <2>2. Agree
    BY DEF OneSecretPerFile, DirMap
  <2>3. Agree'
    <3>1. CASE UNCHANGED <<DirMap, given>>
      BY <2>2, <3>1
    <3>2. ASSUME NEW l \in Labels, Directory!Create(l) PROVE Agree'
      <4> l \in Files
        BY DEF Files
      <4>1. given[l] = {}
        BY <2>2, <3>2, ConstantsAssumption DEF Directory!Create, DirMap, TypeInv, TypeOK
      <4> QED BY <2>2, <3>2, <4>1, Zenon DEF Directory!Create, DirMap, TypeInv, TypeOK
    <3>3. ASSUME NEW names \in SUBSET Directory!Names, Directory!Read(names)
          PROVE  Agree'
      BY <2>2, <3>3, Zenon DEF Directory!Read, Directory!Names, DirMap, Files
    <3> QED BY <3>1, <3>2, <3>3, DirectoryStep DEF Directory!Next
  <2>4. OneSecretPerFile'
    <3> SUFFICES ASSUME NEW f \in Files, NEW v \in given'[f]
                 PROVE  live'[f] # None /\ live'[f].val = v
      BY ZenonT(30) DEF OneSecretPerFile
    <3>1. v \in Nat
      BY <2>1 DEF TypeInv, TypeOK
    <3>2. v = IF live'[f] = None THEN None ELSE live'[f].val
      BY <2>3 DEF DirMap
    <3> QED BY <3>1, <3>2, ConstantsAssumption
  <2> QED BY <2>1, <2>4
<1> QED
  BY <1>1, <1>2, PTL DEF Spec
=============================================================================
