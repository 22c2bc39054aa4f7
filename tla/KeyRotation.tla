---------------------------- MODULE KeyRotation ----------------------------
(***************************************************************************)
(* The key manager of lithium-core (src/keys/manager.rs): a directory of   *)
(* keyfiles, each sealed under the master key (MK) of an external provider,*)
(* a background thread that replaces the MK by re-wrapping every keyfile,  *)
(* and clients that load or create label secrets while it runs.            *)
(*                                                                         *)
(* Every change of the disk is a step of its own, so a process crash can   *)
(* fall between any two.  A keyfile is abstracted to the MK that seals it  *)
(* and the secret it carries: it opens under that MK and no other (AEAD).  *)
(*                                                                         *)
(* Simplifications:                                                        *)
(*   - a crash kills the process; what a completed system call wrote is    *)
(*     kept (power loss with unsynced directories is not modelled);        *)
(*   - loops over keyfiles visit them in any order (the code sorts paths); *)
(*   - time is left out: a rotation may become due whenever the worker is  *)
(*     idle;                                                               *)
(*   - a call refused by check_live, or with a malformed label, changes    *)
(*     nothing and is left out.                                            *)
(* Provisioning an empty store is the subject of KeyProvisioning.          *)
(***************************************************************************)
EXTENDS Integers, FiniteSets

CONSTANTS
    Labels,       \* label secrets, the files secrets/<label>.keyf
    Seeds,        \* the signing seeds, the files priv/*.keyf
    Clients,      \* threads that share the KeyManager handle
    None,         \* an absent file or value
    Policy,       \* RotationErrorPolicy: "Strict" or "Callback"
    CreateMode,   \* CreateNewMode: "link" or "rename"
    CachedMk,     \* is the cached-mk feature compiled in?
    FailIn,       \* phases whose I/O calls may fail before they take effect
    LateFailIn,   \* phases whose I/O calls may fail after they took effect
    TornClean,    \* can the removal of a finished rotation be cut short?
    MaxMk,        \* bound: rotations started in a behaviour
    MaxFaults     \* bound: crashes and I/O errors in a behaviour

Files == Labels \cup Seeds

(***************************************************************************)
(* A phase names the function whose Err is being propagated: start_with_   *)
(* config; rotate_now before its ready marker; write_marker; the commit    *)
(* attempt; the recovery commit_rotation falls back to; refresh_current_mk.*)
(***************************************************************************)
Phases == {"start", "rotate", "mark", "commit", "repair", "refresh"}

\* The worker is between rotations and does not hold the write lock.
Resting == {"idle", "error", "stopped"}

Working == {"recover", "discard", "apply", "store", "clean", "material",
            "begin", "saveold", "savenew", "stage", "mark", "refresh"}

ASSUME ConstantsAssumption ==
    /\ Labels \cap Seeds = {}
    /\ Seeds # {}
    /\ None \notin Nat
    /\ None \notin [mk : Nat, val : Nat]
    /\ Policy \in {"Strict", "Callback"}
    /\ CreateMode \in {"link", "rename"}
    /\ CachedMk \in BOOLEAN
    /\ TornClean \in BOOLEAN
    /\ FailIn \subseteq Phases
    /\ LateFailIn \subseteq Phases
    /\ MaxMk \in Nat
    /\ MaxFaults \in Nat

VARIABLES
    \* what is on disk
    live,       \* the keyfiles in priv/ and secrets/
    rdir,       \* does .rotate/ exist?
    nextOld,    \* .rotate/next-mk-old.keyf: the next MK under the old one
    nextNew,    \* .rotate/next-mk-new.keyf: the next MK under itself
    staged,     \* .rotate/staged/: the re-wrapped keyfiles
    ready,      \* .rotate/ready
    mk,         \* the MK the provider holds
    \* the process: start-up, then the rotation worker
    pc,         \* its next step
    phase,      \* the function that step belongs to
    todo,       \* keyfiles the current loop has yet to visit
    newMk,      \* the new_mk of this rotation or recovery
    switched,   \* provider_already_switched
    poisoned,   \* Shared::poisoned
    cached,     \* Shared::current_mk (cached-mk)
    \* the clients
    cpc,        \* where each call is
    want,       \* the keyfiles it reads
    cmk,        \* the MK with_current_mk gave it
    \* history and bounds
    given,      \* secrets returned to callers, per keyfile
    lastMk,     \* MKs drawn so far
    drawn,      \* secrets drawn and written so far
    faults      \* crashes and I/O errors so far

rotation == <<rdir, nextOld, nextNew, staged, ready>>
disk     == <<live, rotation, mk>>
worker   == <<pc, phase, todo, newMk, switched, poisoned, cached>>
clients  == <<cpc, want, cmk>>
history  == <<given, lastMk, drawn>>
vars     == <<disk, worker, clients, history, faults>>

Keyfile == [mk : Nat, val : Nat]

Present == {f \in Files : live[f] # None}

\* encode_encrypted: a fresh DEK, wrapped under the MK, seals the secret.
Sealed(m, v) == [mk |-> m, val |-> v]

\* rewrap_keyfile_dek_to_bytes: the DEK's wrapping changes, the payload does not.
Rewrapped(k, m) == [mk |-> m, val |-> k.val]

\* The keyfile opens under the MK: its AEAD tag verifies.
Opens(k, m) == k # None /\ k.mk = m

Up == phase # "start"

\* No thread holds the write side of Shared::keys.
GateOpen == Up /\ pc \in Resting

\* The client holds the read side of Shared::keys.
InGate(c) == cpc[c] \in {"inside", "creating", "renaming"}

-----------------------------------------------------------------------------
(***************************************************************************)
(* Errors.  Raise is the propagation of an Err by `?` to whoever handles   *)
(* it; Then is the rest of a step: go on, or fail after the change was     *)
(* made (a sync_dir that fails, or a provider that stores and then errs).  *)
(***************************************************************************)
CanFault == faults < MaxFaults

\* Mutant of Raise: a failed repair does not poison the manager.
RaiseWithoutPoison ==
    /\ \/ phase = "start" /\ pc' = "down" /\ UNCHANGED phase
       \/ phase = "commit" /\ pc' = "recover" /\ phase' = "repair"
       \/ phase \notin {"start", "commit"} /\ pc' = "error" /\ phase' = "rotate"
    /\ UNCHANGED poisoned

Raise ==
    \/ /\ phase = "start"
       /\ pc' = "down"
       /\ UNCHANGED <<phase, poisoned>>
    \/ /\ phase \in {"rotate", "mark"}
       /\ pc' = "error"
       /\ phase' = "rotate"
       /\ UNCHANGED poisoned
    \/ /\ phase = "commit"
       /\ pc' = "recover"
       /\ phase' = "repair"
       /\ UNCHANGED poisoned
    \/ /\ phase \in {"repair", "refresh"}
       /\ pc' = "error"
       /\ phase' = "rotate"
       /\ poisoned' = TRUE

Then(step, ph) ==
    \/ /\ pc' = step
       /\ phase' = ph
       /\ UNCHANGED <<poisoned, faults>>
    \/ /\ phase \in LateFailIn
       /\ CanFault
       /\ faults' = faults + 1
       /\ Raise

\* The process is gone: its memory and its calls with it.
Die ==
    /\ pc' = "down"
    /\ phase' = "start"
    /\ todo' = {}
    /\ newMk' = 0
    /\ switched' = FALSE
    /\ poisoned' = FALSE
    /\ cached' = None
    /\ cpc' = [c \in Clients |-> "idle"]
    /\ want' = [c \in Clients |-> {}]
    /\ cmk' = [c \in Clients |-> None]

\* An I/O call of the current step fails and has changed nothing.
Fail ==
    /\ pc \in Working
    /\ phase \in FailIn
    /\ CanFault
    /\ faults' = faults + 1
    /\ Raise
    /\ UNCHANGED <<disk, todo, newMk, switched, cached, clients, history>>

-----------------------------------------------------------------------------
(***************************************************************************)
(* recover_pending_rotation_if_any, run by start-up, by every rotation     *)
(* before it begins, and by a commit that failed.                          *)
(***************************************************************************)

\* Where control goes once .rotate/ is gone: the next step and its phase.
NextStep ==
    IF phase = "start" THEN "material"
    ELSE IF phase = "rotate" THEN "begin"
    ELSE IF CachedMk THEN "refresh" ELSE "idle"

NextPhase ==
    IF phase = "start" THEN "start"
    ELSE IF phase # "rotate" /\ CachedMk THEN "refresh" ELSE "rotate"

\* No .rotate/: nothing is pending.
RecoverNothing ==
    /\ pc = "recover"
    /\ ~rdir
    /\ pc' = NextStep
    /\ phase' = NextPhase
    /\ UNCHANGED <<disk, todo, newMk, switched, poisoned, cached, clients,
                   history, faults>>

\* Mutant of RecoverDiscard: the marker is not looked at.
RecoverDiscardsAll ==
    /\ pc = "recover"
    /\ rdir
    /\ pc' = "discard"
    /\ UNCHANGED <<disk, phase, todo, newMk, switched, poisoned, cached,
                   clients, history, faults>>

\* .rotate/ without its marker: the rotation never committed.
RecoverDiscard ==
    /\ pc = "recover"
    /\ rdir
    /\ ~ready
    /\ pc' = "discard"
    /\ UNCHANGED <<disk, phase, todo, newMk, switched, poisoned, cached,
                   clients, history, faults>>

\* Mutant of RecoverCommitted: a provider that has switched is not recognised.
RecoverWithOldOnly ==
    /\ pc = "recover"
    /\ rdir
    /\ ready
    /\ IF Opens(nextOld, mk)
       THEN /\ newMk' = nextOld.val
            /\ switched' = FALSE
            /\ todo' = Present
            /\ pc' = "apply"
            /\ UNCHANGED <<phase, poisoned>>
       ELSE Raise /\ UNCHANGED <<newMk, switched, todo>>
    /\ UNCHANGED <<disk, cached, clients, history, faults>>

\* A committed rotation: its MK is read from the file the provider's MK opens
\* (which tells whether the provider holds it already), then every live keyfile
\* is a target of apply_staged_files again.
RecoverCommitted ==
    /\ pc = "recover"
    /\ rdir
    /\ ready
    /\ \/ /\ Opens(nextNew, mk)
          /\ newMk' = nextNew.val
          /\ switched' = TRUE
          /\ todo' = Present
          /\ pc' = "apply"
          /\ UNCHANGED <<phase, poisoned>>
       \/ /\ ~Opens(nextNew, mk)
          /\ Opens(nextOld, mk)
          /\ newMk' = nextOld.val
          /\ switched' = FALSE
          /\ todo' = Present
          /\ pc' = "apply"
          /\ UNCHANGED <<phase, poisoned>>
       \/ /\ ~Opens(nextNew, mk)
          /\ ~Opens(nextOld, mk)
          /\ Raise
          /\ UNCHANGED <<newMk, switched, todo>>
    /\ UNCHANGED <<disk, cached, clients, history, faults>>

\* apply_staged_files, one target: replace the live file by its staged copy.
Apply(f) ==
    /\ pc = "apply"
    /\ f \in todo
    /\ \/ /\ staged[f] # None
          /\ live' = [live EXCEPT ![f] = staged[f]]
          /\ todo' = todo \ {f}
          /\ Then(IF todo # {f} THEN "apply"
                  ELSE IF switched THEN "clean" ELSE "store", phase)
       \/ /\ staged[f] = None
          /\ Raise
          /\ UNCHANGED <<live, todo, faults>>
    /\ UNCHANGED <<rotation, mk, newMk, switched, cached, clients, history>>

\* MkProvider::store_mk.
Store ==
    /\ pc = "store"
    /\ mk' = newMk
    /\ Then("clean", phase)
    /\ UNCHANGED <<live, rotation, todo, newMk, switched, cached, clients,
                   history>>

\* cleanup_rotation_dir: remove_dir_all, then fsync of the parent.
Clean ==
    /\ pc \in {"clean", "discard"}
    /\ rdir' = FALSE
    /\ nextOld' = None
    /\ nextNew' = None
    /\ staged' = [f \in Files |-> None]
    /\ ready' = FALSE
    /\ Then(NextStep, NextPhase)
    /\ UNCHANGED <<live, mk, todo, newMk, switched, cached, clients, history>>

\* remove_dir_all deletes entry by entry, in no order the code fixes: cut
\* short by an error or a crash, it leaves any of them behind.
CleanTorn ==
    /\ pc = "discard" \/ (pc = "clean" /\ TornClean)
    /\ CanFault
    /\ faults' = faults + 1
    /\ nextOld' \in {nextOld, None}
    /\ nextNew' \in {nextNew, None}
    /\ ready' \in {ready, FALSE}
    /\ \E kept \in SUBSET Files :
          staged' = [f \in Files |-> IF f \in kept THEN staged[f] ELSE None]
    /\ \/ /\ phase \in FailIn
          /\ Raise
          /\ UNCHANGED <<todo, newMk, switched, cached, clients>>
       \/ Die
    /\ UNCHANGED <<live, rdir, mk, history>>

-----------------------------------------------------------------------------
(***************************************************************************)
(* Life of the process: start_with_config around the recovery, the drop of *)
(* the last handle, a crash.                                               *)
(***************************************************************************)
Init ==
    /\ live = [f \in Files |-> IF f \in Seeds THEN Sealed(0, 0)
                                              ELSE None]
    /\ rdir = FALSE
    /\ nextOld = None
    /\ nextNew = None
    /\ staged = [f \in Files |-> None]
    /\ ready = FALSE
    /\ mk = 0
    /\ pc = "down"
    /\ phase = "start"
    /\ todo = {}
    /\ newMk = 0
    /\ switched = FALSE
    /\ poisoned = FALSE
    /\ cached = None
    /\ cpc = [c \in Clients |-> "idle"]
    /\ want = [c \in Clients |-> {}]
    /\ cmk = [c \in Clients |-> None]
    /\ given = [f \in Files |-> {}]
    /\ lastMk = 0
    /\ drawn = 0
    /\ faults = 0

Start ==
    /\ pc = "down"
    /\ pc' = "recover"
    /\ UNCHANGED <<disk, phase, todo, newMk, switched, poisoned, cached,
                   clients, history, faults>>

\* ensure_asymmetric_material: both seeds must open under the provider's MK.
Material ==
    /\ pc = "material"
    /\ IF \A s \in Seeds : Opens(live[s], mk)
       THEN /\ pc' = "idle"
            /\ phase' = "rotate"
            /\ cached' = IF CachedMk THEN mk ELSE None
            /\ UNCHANGED poisoned
       ELSE Raise /\ UNCHANGED cached
    /\ UNCHANGED <<disk, todo, newMk, switched, clients, history, faults>>

\* RotationGuard::drop: no call is running and the worker has been joined.
Shutdown ==
    /\ pc \in {"idle", "stopped"}
    /\ \A c \in Clients : cpc[c] = "idle"
    /\ Die
    /\ UNCHANGED <<disk, history, faults>>

Crash ==
    /\ pc # "down"
    /\ CanFault
    /\ faults' = faults + 1
    /\ Die
    /\ UNCHANGED <<disk, history>>

-----------------------------------------------------------------------------
(***************************************************************************)
(* rotate_now and the worker loop around it.                               *)
(***************************************************************************)

\* Mutant of RotationDue: readers are not waited for.
RotationDueUnlocked ==
    /\ pc = "idle"
    /\ lastMk < MaxMk
    /\ pc' = "recover"
    /\ UNCHANGED <<disk, phase, todo, newMk, switched, poisoned, cached,
                   clients, history, faults>>

\* The interval elapsed and keys.write() was granted: no reader is inside.
RotationDue ==
    /\ pc = "idle"
    /\ lastMk < MaxMk
    /\ \A c \in Clients : ~InGate(c)
    /\ pc' = "recover"
    /\ UNCHANGED <<disk, phase, todo, newMk, switched, poisoned, cached,
                   clients, history, faults>>

\* Create .rotate/ and draw the new MK.
Begin ==
    /\ pc = "begin"
    /\ rdir' = TRUE
    /\ lastMk' = lastMk + 1
    /\ newMk' = lastMk + 1
    /\ switched' = FALSE
    /\ Then("saveold", phase)
    /\ UNCHANGED <<live, nextOld, nextNew, staged, ready, mk, todo, cached,
                   clients, given, drawn>>

SaveOld ==
    /\ pc = "saveold"
    /\ nextOld' = Sealed(mk, newMk)
    /\ Then("savenew", phase)
    /\ UNCHANGED <<live, rdir, nextNew, staged, ready, mk, todo, newMk,
                   switched, cached, clients, history>>

\* Mutant of SaveNew: the targets are the seeds only.
SaveNewSeedsOnly ==
    /\ pc = "savenew"
    /\ nextNew' = Sealed(newMk, newMk)
    /\ todo' = Present \cap Seeds
    /\ Then("stage", phase)
    /\ UNCHANGED <<live, rdir, nextOld, staged, ready, mk, newMk, switched,
                   cached, clients, history>>

SaveNew ==
    /\ pc = "savenew"
    /\ nextNew' = Sealed(newMk, newMk)
    /\ todo' = Present
    /\ Then("stage", phase)
    /\ UNCHANGED <<live, rdir, nextOld, staged, ready, mk, newMk, switched,
                   cached, clients, history>>

\* prepare_staged_files, one target: unwrap the DEK under the old MK, wrap it
\* under the new one, leave the payload alone.
Stage(f) ==
    /\ pc = "stage"
    /\ f \in todo
    /\ \/ /\ Opens(live[f], mk)
          /\ staged' = [staged EXCEPT ![f] = Rewrapped(live[f], newMk)]
          /\ todo' = todo \ {f}
          /\ IF todo = {f} THEN Then("mark", "mark") ELSE Then("stage", phase)
       \/ /\ ~Opens(live[f], mk)
          /\ Raise
          /\ UNCHANGED <<staged, todo, faults>>
    /\ UNCHANGED <<live, rdir, nextOld, nextNew, ready, mk, newMk, switched,
                   cached, clients, history>>

\* write_marker: from here on the rotation is committed.
Mark ==
    /\ pc = "mark"
    /\ ready' = TRUE
    /\ todo' = Present
    /\ Then("apply", "commit")
    /\ UNCHANGED <<live, rdir, nextOld, nextNew, staged, mk, newMk, switched,
                   cached, clients, history>>

\* refresh_current_mk, after the commit and still under the write lock.
Refresh ==
    /\ pc = "refresh"
    /\ cached' = mk
    /\ pc' = "idle"
    /\ phase' = "rotate"
    /\ UNCHANGED <<disk, todo, newMk, switched, poisoned, clients, history,
                   faults>>

\* handle_rotation_error, called once rotate_now has released the lock.
HandleError ==
    /\ pc = "error"
    /\ \/ /\ Policy = "Strict"
          /\ poisoned' = TRUE
          /\ pc' = "stopped"
       \/ /\ Policy = "Callback"
          /\ pc' = "idle"
          /\ UNCHANGED poisoned
    /\ UNCHANGED <<disk, phase, todo, newMk, switched, cached, clients,
                   history, faults>>

-----------------------------------------------------------------------------
(***************************************************************************)
(* The calls of the clients: get_or_create_secret32 (and load_or_create_   *)
(* sealed_blob, encrypt_/decrypt_with_label, which go through the same     *)
(* path) on one label; signing_seeds on the two seeds.                     *)
(***************************************************************************)

\* read_gate, first half: check_live.
Call(c, files) ==
    /\ Up
    /\ cpc[c] = "idle"
    /\ ~poisoned
    /\ cpc' = [cpc EXCEPT ![c] = "checked"]
    /\ want' = [want EXCEPT ![c] = files]
    /\ UNCHANGED <<disk, worker, cmk, history, faults>>

\* read_gate, second half, and with_current_mk: keys.read() may have waited
\* for a rotation, and `poisoned` is not looked at again.
Enter(c) ==
    /\ cpc[c] = "checked"
    /\ GateOpen
    /\ cpc' = [cpc EXCEPT ![c] = "inside"]
    /\ cmk' = [cmk EXCEPT ![c] = IF CachedMk THEN cached ELSE mk]
    /\ UNCHANGED <<disk, worker, want, history, faults>>

\* Leaving drops the read guard.
Leave(c) ==
    /\ cpc' = [cpc EXCEPT ![c] = "idle"]
    /\ want' = [want EXCEPT ![c] = {}]
    /\ cmk' = [cmk EXCEPT ![c] = None]

Give(files) ==
    given' = [f \in Files |-> IF f \in files
                              THEN given[f] \cup {live'[f].val} ELSE given[f]]

\* Mutant of Load: after AlreadyExists the secret just drawn is returned.
LoadReturnsDrawn(c) ==
    /\ cpc[c] \in {"inside", "creating"}
    /\ \A f \in want[c] : live[f] # None
    /\ given' = [f \in Files |-> IF f \notin want[c] THEN given[f]
                                 ELSE given[f] \cup {IF cpc[c] = "creating"
                                                     THEN drawn + 1
                                                     ELSE live[f].val}]
    /\ Leave(c)
    /\ UNCHANGED <<disk, worker, lastMk, drawn, faults>>

\* The files exist, at the first look or after AlreadyExists: load them.
Load(c) ==
    /\ cpc[c] \in {"inside", "creating"}
    /\ \A f \in want[c] : live[f] # None
    /\ UNCHANGED live
    /\ IF \A f \in want[c] : Opens(live[f], cmk[c])
       THEN Give(want[c]) ELSE UNCHANGED given
    /\ Leave(c)
    /\ UNCHANGED <<rotation, mk, worker, lastMk, drawn, faults>>

\* path.exists() is false: a fresh secret is drawn, to be saved.
Miss(c) ==
    /\ cpc[c] = "inside"
    /\ want[c] \subseteq Labels
    /\ \E f \in want[c] : live[f] = None
    /\ cpc' = [cpc EXCEPT ![c] = "creating"]
    /\ UNCHANGED <<disk, worker, want, cmk, history, faults>>

\* The new keyfile appears under its name.
Write(c) ==
    /\ live' = [f \in Files |-> IF f \in want[c]
                                THEN Sealed(cmk[c], drawn + 1)
                                ELSE live[f]]
    /\ drawn' = drawn + 1
    /\ Give(want[c])
    /\ Leave(c)
    /\ UNCHANGED <<rotation, mk, worker, lastMk, faults>>

\* write_secure_new: hard_link refuses to replace a file.
Link(c) ==
    /\ CreateMode = "link"
    /\ cpc[c] = "creating"
    /\ \A f \in want[c] : live[f] = None
    /\ Write(c)

\* write_secure_new_best_effort: try_exists, and later a rename that replaces.
PreCheck(c) ==
    /\ CreateMode = "rename"
    /\ cpc[c] = "creating"
    /\ \A f \in want[c] : live[f] = None
    /\ cpc' = [cpc EXCEPT ![c] = "renaming"]
    /\ UNCHANGED <<disk, worker, want, cmk, history, faults>>

Rename(c) ==
    /\ cpc[c] = "renaming"
    /\ Write(c)

\* An I/O error inside the gate: the caller gets Err.
ClientFail(c) ==
    /\ InGate(c)
    /\ CanFault
    /\ faults' = faults + 1
    /\ Leave(c)
    /\ UNCHANGED <<disk, worker, history>>

-----------------------------------------------------------------------------
Recover == RecoverNothing \/ RecoverDiscard \/ RecoverCommitted

\* What the process does by itself, faults aside.
Progress ==
    \/ Start \/ Material
    \/ Recover \/ (\E f \in Files : Apply(f)) \/ Store \/ Clean
    \/ Begin \/ SaveOld \/ SaveNew \/ (\E f \in Files : Stage(f)) \/ Mark
    \/ Refresh \/ HandleError

ClientStep(c) ==
    \/ \E l \in Labels : Call(c, {l})
    \/ Call(c, Seeds)
    \/ Enter(c) \/ Load(c) \/ Miss(c) \/ Link(c) \/ PreCheck(c) \/ Rename(c)
    \/ ClientFail(c)

Next ==
    \/ Progress
    \/ RotationDue
    \/ \E c \in Clients : ClientStep(c)
    \/ Fail \/ CleanTorn \/ Crash \/ Shutdown

Spec == Init /\ [][Next]_vars

\* The process keeps running while it can, and is started again when it is down.
FairSpec == Spec /\ WF_vars(Progress)

-----------------------------------------------------------------------------
(***************************************************************************)
(* Properties.                                                             *)
(***************************************************************************)

\* Every variable keeps its type.
TypeOK ==
    /\ live \in [Files -> Keyfile \cup {None}]
    /\ rdir \in BOOLEAN
    /\ nextOld \in Keyfile \cup {None}
    /\ nextNew \in Keyfile \cup {None}
    /\ staged \in [Files -> Keyfile \cup {None}]
    /\ ready \in BOOLEAN
    /\ mk \in Nat
    /\ pc \in Working \cup Resting \cup {"down"}
    /\ phase \in Phases
    /\ todo \subseteq Files
    /\ newMk \in Nat
    /\ switched \in BOOLEAN
    /\ poisoned \in BOOLEAN
    /\ cached \in Nat \cup {None}
    /\ cpc \in [Clients -> {"idle", "checked", "inside", "creating", "renaming"}]
    /\ want \in [Clients -> SUBSET Files]
    /\ cmk \in [Clients -> Nat \cup {None}]
    /\ given \in [Files -> SUBSET Nat]
    /\ lastMk \in Nat
    /\ drawn \in Nat
    /\ faults \in Nat

\* What a caller was ever given for a label (or signed with) is the secret that
\* is on disk now: racing creators agree, and no rotation, recovery or crash
\* replaces or drops a secret somebody holds (get_or_create_secret32).
OneSecretPerFile ==
    \A f \in Files : \A v \in given[f] : live[f] # None /\ live[f].val = v

\* Whatever the instant, the disk alone is enough for
\* recover_pending_rotation_if_any to finish or discard the rotation and leave
\* every keyfile with its secret, under the MK the provider then holds.
RecoveryCompletes ==
    \/ /\ ~ready
       /\ \A f \in Present : Opens(live[f], mk)
    \/ /\ ready
       /\ rdir
       /\ Opens(nextNew, mk) \/ Opens(nextOld, mk)
       /\ LET m == IF Opens(nextNew, mk) THEN mk ELSE nextOld.val
          IN  \A f \in Present : Opens(staged[f], m) /\ staged[f].val = live[f].val

\* A call that holds the read gate sees a store wrapped under one MK, the one
\* it was given: it never observes a half-rewrapped store.
GateSeesOneMk ==
    \A c \in Clients :
        InGate(c) => \A f \in Present : Opens(live[f], cmk[c])

\* When the worker lets go of the write lock, either every keyfile opens under
\* the provider's MK or the manager is disabled (commit_rotation: finish it or
\* fail closed).
MixedStoreFailsClosed ==
    GateOpen /\ ~poisoned => \A f \in Present : Opens(live[f], mk)

\* Even when recovery is stuck no secret is lost: each keyfile opens under the
\* provider's MK or under an MK that can be read from .rotate/ with it.
NoSecretLost ==
    \A f \in Present :
        \/ Opens(live[f], mk)
        \/ Opens(nextOld, mk) /\ Opens(live[f], nextOld.val)

\* A process that is down comes back to serving calls: start-up finishes or
\* rolls back whatever rotation it finds (checked with finitely many faults).
StartupRecovers == pc = "down" ~> pc = "idle"

\* The store refines a directory of secrets in which a secret, once there,
\* never changes and every reader gets it: rotation, recovery and crashes are
\* invisible to callers.
Directory == INSTANCE SecretDirectory WITH
    dir <- [f \in Files |-> IF live[f] = None THEN None ELSE live[f].val]

ImplementsDirectory == Directory!Spec
=============================================================================
