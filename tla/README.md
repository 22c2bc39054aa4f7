# A TLA+ model of lithium-core

lithium-core is a Rust library for keeping and using cryptographic keys: a key
manager with a rotating master key, a store for short-lived secrets, an arena of
locked memory, HPKE sessions, keyfiles, and hybrid encryption and signatures
around them. This directory holds TLA+ modules for these parts, TLC runs that check
them on small instances, and TLAPS proofs of the main results for every instance.
Paths below are relative to the repository (`PROJECT.json` maps each definition to
its lines).

## 1. The system, part by part

| Part | Code | What it does | Here |
|---|---|---|---|
| Key manager: rotation | `src/keys/manager.rs` | Re-wraps every keyfile under a new master key (MK): stage, `ready` marker, apply, `store_mk`, clean up; recovery at start-up and after failures | `KeyRotation`, `SecretDirectory` |
| Key manager: calls | `src/keys/manager.rs` | Load or create label secrets, load signing seeds, behind a read gate | `KeyRotation`, `SecretDirectory` |
| Key manager: provisioning | `src/keys/manager.rs` | File lock, first MK, two signing pairs, public-key cache, reload | `KeyProvisioning` |
| Key manager: worker thread | `src/keys/manager.rs` | Waits for the next rotation; interval changes; join on drop | `RotationWorker` |
| Keyfiles | `src/keys/keyfile.rs` | Record layout; replacing and create-only writes that survive power loss; wrap and rewrap | `KeyfileWrites`, `AtomicFile`, `KeyfileRecord`, `KeyfileAccess`; `Envelope` |
| MK providers | `src/keys/manager.rs` | `load_mk` / `store_mk` of a back end | environment of `KeyRotation`, `KeyProvisioning` |
| Ephemeral store | `src/utils/store.rs` | Map with TTLs, expiry heap, cleanup thread | `EphemeralStore` |
| Secret arena | `src/secrets/arena.rs` | Regions of one locked mapping | `SecretArena`, `ArenaGrowth` |
| HPKE sessions | `src/hpke/session.rs`, `schedule.rs`, `kem.rs` | Sequenced seal and open | `HpkeSession` |
| Contexts | `src/crypto/context.rs` | Paths that keep the uses of a key apart | `Contexts` |
| AEAD, KDF, key generation | `src/crypto/aead.rs`, `kdf.rs`, `keys.rs` | Wrappers that bind a context | `Primitives` |
| KyberBox | `src/crypto/kyberbox.rs` | X25519 and ML-KEM in one box, with a reply key in the Dual variant | `KyberBox`, `Envelope` |
| HPKE single-shot, export, derive | `src/hpke/*` | KEM, key schedule, one-message sealing | `HpkeSuite`, `Envelope` |
| Double signatures | `src/crypto/sign.rs` | Ed25519 and ML-DSA-87 of one message | `Envelope` |
| Wire formats, hex | `src/hpke/types.rs`, `src/hexcodec.rs`, and the above | Encoding and strict decoding | `WireFormats`, `ByteCodec` |
| OPAQUE | `src/opaque/*` | Wraps keys under the export key; converts messages of the external `opaque-ke` crate | wrapping in `Envelope`, its text in `WireFormats`; conversions not modelled |
| Secret containers, JSON, passwords, errors | `src/secrets/*`, `src/passwords`, `src/error.rs` | Owned values, no shared state | not modelled |

**How the parts interact.** Dropping aside, four kinds of threads meet in a key
manager: the thread that starts it, the rotation worker, callers, and other
processes that open the same directory. The worker decides *when* to rotate
(`RotationWorker`), a rotation takes the write side of `Shared::keys` and changes
the directory (`KeyRotation`), callers hold the read side (`KeyRotation`), and
start-up composes lock, recovery and key pairs (`KeyProvisioning` around the
recovery of `KeyRotation`). The interfaces are narrow: a rotation only takes time
and succeeds or fails for the worker; recovery leaves the seeds as they are for
provisioning. `KeyRotation` already composes start-up recovery, worker and clients
on one disk; the three are otherwise checked separately.

Below the manager, `KeyfileWrites` justifies what `KeyRotation` assumes of one write:
that it is one step of an atomic file (`ImplementsAtomicFile`). `KeyfileAccess` puts
the write path and the record layout together, and `Envelope` composes contexts,
AEAD, box, HPKE, OPAQUE wrapping, keyfile encryption and signatures, which share keys
and contexts in an application.

## 2. Modules

Each component module has the constants, the variables (named after the fields),
one action per operation or step, `Init`, `Next`, `Spec` (`SessionInit`, `WorkerInit` and
so on in `HpkeSession` and `RotationWorker`, which share a proof module with another
component), and its properties. An operator
headed "Mutant of X" is a plausible slip in X; replacing X by it must break a
property. `*Proofs` modules, `KeyRotationDirectory` and `KeyfileWritesSteps` hold
theorems, `MC*` modules the constants for TLC.

### KeyRotation, SecretDirectory

State: the disk (`live`, the directory `.rotate/` as `rdir`, `nextOld`, `nextNew`,
`staged`, `ready`, and the provider's `mk`), the process (`pc`, `phase`, loop
targets `todo`, `newMk`, `switched`, `poisoned`, `cached`), and each client's
call. A keyfile is `[mk, val]`: it opens under that MK only, and re-wrapping
changes `mk` and keeps `val`. Every disk change is a step, so crashes fall between
any two. `phase` names the function whose `?` propagates an error; `Raise` is
what its caller does with it; `Then` is the rest of a step that may fail after
its effect (a failed directory sync, a provider that stores and then errs).

| Code | Actions |
|---|---|
| `recover_pending_rotation_if_any` | `RecoverNothing`, `RecoverDiscard`, `RecoverCommitted`, then `Apply`, `Store`, `Clean` |
| `rotate_now` | `RotationDue`, recovery, `Begin`, `SaveOld`, `SaveNew`, `Stage`, `Mark` |
| `commit_rotation`, `apply_staged_files` | `Apply`, `Store`, `Clean`; on error, recovery in phase `repair` |
| `cleanup_rotation_dir` | `Clean`, `CleanTorn` |
| `refresh_current_mk`, `handle_rotation_error` | `Refresh`, `HandleError` |
| `start_with_config` | `Start`, recovery, `Material` |
| `read_gate`, `with_current_mk` | `Call` (the check of `poisoned`), `Enter` |
| `get_or_create_secret32`, `load_or_create_sealed_blob`, `signing_seeds` | `Load`, `Miss`, `Link` or `PreCheck` and `Rename` |

`SecretDirectory` is what a caller may rely on: names map to secrets, a secret
once there never changes, and every reader gets it. `ImplementsDirectory` says
that `KeyRotation` refines it, so rotation, recovery and crashes are invisible.

### KeyProvisioning

The lock, the MK, `priv/` and `pub/`, and where each instance is in its start or
reload. `Lock`, `LoadMk`, `StoreMk`, `OpenStore`, `CheckPriv`, `Probe`, `Save`,
`Publish`, `Reconcile`, `Reload` are the steps in code order; `Refuse` collects
the errors for what is on disk, `IoError` and `Stop` are failures and ends at any
step, `Harm` is loss or replacement of files from outside.

### RotationWorker, EphemeralStore

Both are a thread on a mutex and a condition variable. A critical section is one
step; reading the clock before the mutex is a separate, earlier step, so times may
be stale when used; waits may end for no reason. Setting `stop` and notifying in a
drop are one step: the thread looks at `stop` only under the mutex.

### SecretArena, ArenaGrowth

`offset`, the free lists, the regions and every byte, by whose secret it holds.
Claiming is separate from filling, as in the code. The mapping goes when the last `Arc`
does, which is how the model states it (`Last`), not a result. `ArenaGrowth` adds a
history variable that no step reads: `crowd`, for each size a set of blocks that were
once in use at the same time.

### HpkeSession

Senders and a receiver per encapsulation, over a set of all messages ever sent:
`Open` may be handed any of them, any number of times, or a damaged one. External
cryptography is ideal. `MaxSeq` stands for `u64::MAX`, and `seq_nonce` is a parameter
that must be injective (in the run, XOR with a base nonce).

### KeyfileWrites, AtomicFile

Threads in `write_secure`, `write_secure_new` and `write_secure_new_best_effort` on one
path. Files are inodes (the file found at the start, and one per call) with bytes
written (`got`) and bytes synced (`safe`); a path names an inode (`entry`) and has the set
of inodes power loss may bring back (`maybe`), which a directory sync reduces to the
current one. `dir` tells a directory that is on disk from one just created. The rest is
history: each call's result, when each file was published, the newest durable one.

| Code | Actions |
|---|---|
| `ensure_private_dir` | part of `Begin` |
| `try_exists` of the best-effort variant | `PreCheck` |
| `create_private_tmp` | `CreateTmp`, once per drawn name |
| `write_all`, `sync_all` | `WriteAll` (in pieces), `SyncFile` |
| `rename`; `hard_link`, `remove_file` | `RenameTmp`; `Link`, `Unlink` |
| error path with `remove_file` | `Abandon` |
| directory `sync_all`, errors ignored | `SyncDir` |
| the environment | `Kill`, `PowerLoss` |

`AtomicFile` is the promise: a value that changes in one step, and that power loss may
only take back to one since the last durable moment.

### KeyfileRecord, KeyfileAccess, ByteCodec

`build_record`, `take` and `parse_keyfile` over digits below `Radix`, with the field
lengths as constants. `KeyfileAccess` gives each inode of `KeyfileWrites` the record its
call encoded, cut at the bytes written, and reads it as `load_bytes_decrypted` does.

### Contexts, Primitives, KyberBox, HpkeSuite, Envelope

`Contexts` is a state machine that builds contexts from segments, and the byte strings
`label` and `bind_aad` make of them. `Primitives` has the external cryptography as terms (equal
exactly when made by the same primitive from the same inputs; a low-order X25519 key
and ML-KEM's implicit rejection included) and the wrappers of `aead.rs` and `kdf.rs`.
`KyberBox` and `HpkeSuite` translate their files function by function, errors of
`Context::add` included.

In `Envelope` a call that seals is an action. A call that opens has no effect, so in every
state every opening call is applied to every message that the parts of the sealed ones
make up: mixed, misdelivered, opened by another function, in another context. A user
has one X25519/ML-KEM pair for box and HPKE and one symmetric key for AEAD, OPAQUE and
keyfiles, so that nothing but the code's own separation keeps them apart.

### WireFormats

Every `to_wire` and `from_wire`, the AEAD and DEK blobs, and hex, on bytes. Checked over
every buffer up to a bound. One value has one form on the wire and in hex, with one
exception: `unwrap_dek_under_export_key` trims the text it is given (`opaque/dek.rs:51`),
so a wrapped key may have white space around it. `OneEncodingPerValue` states the
exception: every spelling that is accepted is the one `wrap_dek_under_export_key` returns
with white space before and after, tried on all texts one edit away from a padded one.

## 3. Runs

| Run | Question | Bounds |
|---|---|---|
| `rotation_tame` | Outside the fault classes of section 5, does the disk always suffice to finish (`RecoveryCompletes`), do callers see one MK (`GateSeesOneMk`), does a process that is down come back (`StartupRecovers`)? | 2 labels, 1 seed, 2 clients, 2 rotations, 2 faults, cached-mk, Strict, `RenameBestEffort` |
| `rotation_wild` | Under every fault but the one of `marker_sync`: every secret readable from disk (`NoSecretLost`), refinement (`ImplementsDirectory`, which gives one secret per name), whole store or disabled manager when the lock is released (`MixedStoreFailsClosed`)? | the same, no cache, Callback, link mode |
| `store` | `EntryPlanned`, `WakesInTime`, `TakenIsGone`, `OnlyExpiredDropped`, `Scrubbed`, `DropReturns` | 1 key, 2 callers, TTLs 1 and 2, clock to 2, version limit 2 |
| `arena` | `Tiled`, `OwnBytes`, `NoResidue`; does the used part grow only when it has to (`GrowthWasNeeded`)? | 3 handles, 64 bytes, sizes 0, 1, 16, 17 |
| `hpke` | `DeliveredPrefix`, `NonceOnce`, `StrayIsFinal`, `AllOpened` | 2 sessions, 2 infos, 2 aads, limit 3 |
| `provision` | `KeysMatchStore`, `IdentityKept`, `StartsInTheEnd`, in three settings: two instances that lock, with lost public files or with all damage, and one without file locks under the Strict cache policy | 3 stops, 2 damages, 6 draws |
| `worker` | `SleepsNoLonger`, `PlannedWithinInterval`, `DueRotates`, `DropReturns` | 2 callers, intervals 1 and 2, clock to 3 |
| `keyfile` | `SyncedWritesSurvive`, `ResultsAreTrue`, `TmpsAreAccountedFor`, `CreateNeverReplaces`, `ImplementsAtomicFile`; does the path always load (`ThePathLoads`)? `ParseInvertsBuild` | 2 threads, 2 tmp names, 3 calls, 2 faults, a record of 28 bytes that can be cut at 9, bytes below 4 |
| `envelope` | `BindingIsUnique`, `OpensExactlyAsSealed`, `BothSignaturesNeeded`; `OneEncodingPerValue` | 3 contexts from 7 segments, 2 users, 2 infos, 2 aads, 2 sealed messages; buffers of 8 bytes below 4, hex strings of 4 characters, wrapped keys of 5 and 6 bytes |
| `torn_cleanup`, `marker_sync`, `rename_race` | The disagreements of section 4 | 1 label, 1 seed, 2 clients, at most 1 fault |

`TypeOK` (`WorkerTypeOK`) is checked in `worker` and `provision` and proved for every
component that states one (section 6). Deadlock is not checked where the system
may stop: the arena at its end, sessions at the sequence limit, an instance that
refuses its store, a worker at the end of the clock, writers and sealers that have made
their calls. The layouts (`ParseInvertsBuild`, `OneEncodingPerValue`) do not depend on
the state: they are evaluated at the start, over all bounded inputs.

**Why the bounds are enough to be interesting.** Two rotations let a second one
start from what a failed first one left; two faults let a repair fail after a commit or a
restart fail again. Two labels
and a seed give a mixed store next to a file created meanwhile. Two clients race to create one label. In the store, the
version limit is reached, entries are overwritten while their heap entries remain,
and a caller's clock lags the sweep. One key suffices for these races, since keys meet
only in the heap; the theorems cover any number. The arena is full, is reused, and has
slots of two sizes. The HPKE limit is met on both sides.
Three writes by two threads have two in flight while a third file is at the path; two
faults are an I/O error and then power loss, or two power losses. Names run
out, so `create_private_tmp` gives up. Two sealed messages are enough to mix parts; the
contexts include `app` and `app/hpke`, which HPKE derives from the first, and the longest
derived ones exceed the length limit. Every length prefix in the layouts can be too small,
too large and zero.

**Fairness.** Threads that can run are scheduled, calls return, and a process that
is down is started again (`WF` of the worker's, the cleanup thread's and start-up's own
steps). Faults, client calls, interval changes and the clock have no fairness, and faults are
finitely many. For HPKE, the caller keeps offering what arrives. Nothing fair
depends on the environment being kind: `StartupRecovers` and `StartsInTheEnd`
fail when a start can find a disk it cannot finish.

Liveness under bounds: the clock and faults run out, so "eventually" is after the
last fault. `StartsInTheEnd` is claimed for `RepairMissingOnly` only: `Strict`
refuses a missing public key by design.

## 4. Where code and text disagree

* **torn_cleanup** (`manager.rs:572`). `remove_dir_all` of a finished `.rotate/`
  fixes no order. Cut short with `ready` left but a file recovery needs gone, every
  later start fails; `docs/reference.md:1072-1073` says an unfinished rotation is
  finished or rolled back on start-up. No secret is lost (`rotation_wild`).
* **marker_sync** (`manager.rs:761`). If the directory sync after the marker's
  rename fails, the rotation is committed on disk and failed in memory. Under
  Callback, a label created before the next rotation has no staged copy; that
  rotation's recovery stops half-way, in a mixed store, without the fail-closed
  handling that the comment at `manager.rs:784` requires.
* **rename_race** (`keyfile.rs:251`). With `RenameBestEffort`, two threads of one manager
  pass the existence check together and return different secrets for one label. The
  comment at `keyfile.rs:219-221` relies on the single-writer lock, which both
  threads are under; the test at `tests/keymanager_rotation_tests.rs:262` states the
  opposite for racing callers (in link mode, where it holds).

## 5. Limits of the guarantees

`RecoveryCompletes`, `GateSeesOneMk` and the proved forms of `NoSecretLost` and
`MixedStoreFailsClosed` hold outside four fault classes, named
`TameFaults`: a torn removal of a committed `.rotate/`; a marker whose sync fails
late; an error in the recovery a failed commit falls back to; and, with cached-mk,
an error in `refresh_current_mk`. What lies beyond, from reading the code and the model:

* `read_gate` looks at `poisoned` before it waits for the lock (`manager.rs:688`); a call
  that waited out a rotation whose commit and repair failed still gets in.
* A failed refresh leaves the old MK cached (`manager.rs:765`); such a waiting
  call may then seal a new secret under it.
* Where locks are unsupported and best effort is chosen, every instance gets
  `Ok(None)` (`manager.rs:275`); the model then has one instance.
* An interval set during a rotation is overwritten for one round by the one
  the rotation began with (`manager.rs:823`, `836`); `PlannedWithinInterval` says so.
* `SyncedWritesSurvive` is about writes whose directory sync worked, in a directory that
  is on disk. The code ignores an error of that sync (`keyfile.rs:177`) and does not
  sync the parent of a directory it creates (`keyfile.rs:103`), so an `Ok` alone does not say
  that power loss will keep the file.
* A failed `rename` of `write_secure` leaves its temporary file (`keyfile.rs:172`), unlike the
  other two routes; `TmpsAreAccountedFor` lists it among the exceptions.
* Records stay within `MAX_KEYFILE_SIZE` (`AccessAssumption`). `load_or_create_sealed_blob`
  does not bound what the application's closure returns: a larger blob is written,
  and refused when it is next read (`keyfile.rs:60`), by a load or by a rotation.
* `KeyRotation` takes a completed write to stay, as a crash of the process does. That it also
  stays under power loss is what `keyfile` checks for one file at a time; a rotation across
  power loss that undoes an unsynced rename is not composed.

## 6. Proofs

For every value of the constants that satisfies the modules' named assumptions.

| Module | Theorem | Statement |
|---|---|---|
| `KeyRotationDirectory` | `TypeCorrect` | `Spec => []TypeOK`, under every fault |
| | `DirectoryRefinement` | in link mode, `Spec => Directory!Spec`, under every fault |
| | `OneSecret` | in link mode, `OneSecretPerFile`, under every fault |
| `KeyRotationProofs` | `CrashSafety`, `GateConsistency`, `SecretsSurvive`, `ServesWholeStores` | under `TameFaults`: `RecoveryCompletes`, `GateSeesOneMk`, `NoSecretLost`, `MixedStoreFailsClosed` |
| `EphemeralStoreProofs` | `PlannedRemoval`, `NoOversleep`, `TakenStaysTaken`, `LiveEntriesStay` | `EntryPlanned`; `WakesInTime`; `TakenIsGone`; `OnlyExpiredDropped` |
| `SessionArenaProofs` | `StreamPrefix`, `NonceUniqueness`, `StrayEndsStream` | `DeliveredPrefix`; `NonceOnce`; `StrayIsFinal` |
| | `RegionsTile`, `SecretsContained`, `NothingLeft`, `GrowthIsNeeded` | `Tiled`; `OwnBytes`; `NoResidue`; `GrowthWasNeeded` |
| `ManagerProofs` | `ProvisioningTypes`, `PublicKeysMatchSeeds`, `StoreIdentityKept` | `TypeOK`; `KeysMatchStore`; `IdentityKept`, for any instances, stops, losses and swaps |
| | `WorkerTypes`, `NoChangeSleptThrough`, `RotationsStayPlanned` | `WorkerTypeOK`; `SleepsNoLonger`; `PlannedWithinInterval` |
| `KeyfileWritesSteps`, `KeyfileWritesProofs` | `DurableWrites`, `TrueResults`, `AccountedTmps`, `CreateIsCreate` | `SyncedWritesSurvive`; `ResultsAreTrue`; `TmpsAreAccountedFor`; `CreateNeverReplaces` |
| | `WritesAreAtomic` | `Spec => Atomic!Spec`, under I/O errors, kills and power loss |
| `EnvelopeProofs` | `ContextsAreUnambiguous`, `BindingsAreUnambiguous` | `TextTellsSegments`; `BindingIsUnique`, for any alphabet, segments and length limit |
| | `DoubleSignatures` | `BothSignaturesNeeded`, for any users, contexts, messages and number of calls |
| | `SealedMessagesOpen` | `OpensExactlyAsSealed`, likewise: an opening call succeeds exactly on the parts of one sealing call, with its key, context, aad and info |

`SessionArenaProofs` and `ManagerProofs` hold the theorems of two components each, which
have nothing in common; they are kept together only to have few proof modules.

**Rotation.** `RecoveryCompletes` is not inductive: that a marker guarantees
staged copies depends on what earlier steps wrote. `RotationInv` adds which phase a
step belongs to and where a marker can be seen (`ControlInv`), that without a
marker all opens under `mk` and with it `.rotate/` holds everything and the
provider switches last (`DiskInv`), what the steps so far have produced
(`StepInv`), and that a caller in the gate holds `mk` (`ClientInv`). One lemma per group
of actions. The refinement needs only
`CopyInv`: a staged copy carries the secret of its live file, and only labels are
created. It holds under every fault because
every write of a live file comes from a staged copy or from a create that cannot replace.

**Store.** `StoreInv` adds that versions in the map, heap and `taken` are unique and
below `nextVersion`, and that a pending call's clock is not in the future.
**Arena.** `ArenaInv` adds that regions and slots are aligned within `offset`, disjoint,
and cover it. `GrowthWasNeeded` follows from `CrowdIsAll`: a crowd is exactly the blocks
of its size, because a new block is made only when no other is free. With `Tiled` it
bounds the used part by what the program once held of each size.
**HPKE.** `Sent` and `Received` tie every message to its
number and nonce, and a receiver's sequence number to what it returned; by
injectivity of `seq_nonce`, all a receiver can decrypt is the next message, so a
stray one poisons it.

**Keyfile writes.** None of the five results is inductive. The invariant (`Inv` in
`KeyfileWritesSteps`) adds: calls in progress have distinct numbers and no result yet, and
one that has not created its file is nowhere on disk (`CallsInv`); a call that owns a tmp finds
it under exactly one name (`TmpsInv`); what the path names, or may name after power loss,
was published, a failed call published nothing, and after a publication the path holds
that file or a newer one (`RanksInv`); nothing power loss may bring back is older
than `floor` (`FloorInv`); and a file that is, or may be, at the path has all its bytes
written and synced (`BytesInv`). The steps module proves that each action
preserves it. The refinement follows, because a publication is the only step that
changes what the path names, and it happens after `SyncFile`.

**Contexts.** Texts grow only by `base` and `add`, so each built context is a root or
extends a built one by `/` and a segment without `/`. The last `/` of a text then
determines the last segment (lemma `LastSlash`), and induction along the behaviour, not over
the data, gives the whole path. Texts hold no 0 byte, so the first one in a binding is the
separator (lemma `FirstNul`).

**Signatures.** `EnvelopeInv` says of everything sealed that a part which can pass for a
signature is one, made by the call recorded with it, in a context that was built
(`SignedHalves`). A half that verifies is then such a part; the signer's key tells who
signed it, and what a binding tells (lemma `BindingTells`) gives the context and the
message. This uses that `Aads` are sequences of bytes (`EnvelopeAssumption`).

**Opening.** `OpensExactlyAsSealed` quantifies over every opening call and every way to put
parts of sealed messages together. `OpenInv` adds to `EnvelopeInv` that each message on
record consists of the terms its own call made, with the randomness of that call
(`Recorded`). An opening call that succeeds then meets a ciphertext on record. Its key says
which function made it, because no two of them derive keys from the same inputs (`KeysApart`,
`KeyTells`), and within the box and HPKE the key schedule is injective in secrets,
context and info (`BoxKeyTells`, `ScheduleTells`). The binding says which context and aad,
the frame which variant. What remains is that the other parts are those of the same call:
they enter the key, or, in a keyfile, the wrapped DEK does (`KeyfileForward`). The converse, that
a message opens as it was sealed, is computed function by function (the `*Back` lemmas). This
uses that users have different key paths and that no application aad begins like a fresh public
key (`EnvelopeAssumption`, `KeysAssumption`).

**Provisioning.** Neither `KeysMatchStore` nor `IdentityKept` is inductive: both depend on
what an instance read before it acts. `ProvisionInv` adds that at most one instance is at
work, by the lock or because nobody else uses the store (lemmas `Alone`, `OthersRest`); what
each stage has found out and may still rely on (`StagesInv`: there is no master key when one
is about to be stored, and no trace of a pair that is about to be made); and, as long as
only the public cache suffers, that every seed on disk is wrapped under the master key, that
an instance at work holds that key and the seeds it is done with, and that a live
manager answers for the seeds (`SealsInv`). One
lemma per action; the actions of one instance share `MemStep`, `GoesOn` and `SealsKept`.

**Worker.** `WorkerInv` adds that what a caller is about to set was computed from a time
that has been, so that it is no further ahead than its interval, and that a rotation
that runs has copied an interval that was set.

**Only model-checked.** All liveness (`StartupRecovers`, `StartsInTheEnd`, `Scrubbed`,
`DropReturns`, `DueRotates`, `AllOpened`), which is beyond TLAPS 1.4.5, as are `ENABLED`,
induction over data and `RECURSIVE` operators; the layouts and wire formats, whose
general form is induction over data; `ThePathLoads`, which rests on them; and
`NoSecretLost` and `MixedStoreFailsClosed` beyond `TameFaults`.

## 7. Not modelled

* Cryptography is ideal, and output lengths of HKDF are not told apart. Argon2, `hkdf_extract` and
  the hash wrapper are single external calls.
* The OPAQUE client and server: the protocol's state is inside the external `opaque-ke`
  crate, and each function here converts one message.
* `SecretJson`, secret and public buffers, passwords, errors: values of one owner, with
  no state that two callers share.
* Symlinks, directory modes and the non-Unix branches of `keyfile.rs`: a path is a
  regular file, and a refused directory is an error of `Begin`.
* Poisoned mutexes (no critical section panics). Loops visit files in any order,
  where the code sorts. Refused calls that change nothing.
* The system calls that map and lock pages.
* Callbacks and closures of the application, which may deadlock if they call back
  into the manager.

## 8. Possible extensions

1. Rotation over files that power loss may take back: `KeyRotation` on top of `AtomicFile`.
2. Worker, rotation and provisioning in one instance.
