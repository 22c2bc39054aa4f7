--------------------------- MODULE KeyProvisioning ---------------------------
(***************************************************************************)
(* How a key store comes into being and is opened again: the part of       *)
(* KeyManager::start_with_config around the recovery that KeyRotation      *)
(* models (the file lock, the first master key, the two signing key pairs  *)
(* and their public cache), and reload_public_keys.  Several instances may *)
(* try to open the store, each may stop at any step (a crash, an I/O       *)
(* error, an orderly end), and files may get lost or public keys swapped.  *)
(*                                                                         *)
(* Random values (master keys and seeds) are numbers, drawn in turn; a     *)
(* public key is the number of its seed.  Files are written by a temporary *)
(* file and a rename, so a write is one step.                              *)
(***************************************************************************)
EXTENDS Integers, Sequences

CONSTANTS
    Instances,      \* managers that open the store
    BestEffort,     \* FileLockPolicy::BestEffort?
    Environments,   \* the settings under which the store is used
    MaxDraws,       \* bound on random values
    MaxStops,       \* bound on instances stopping
    MaxLosses,      \* bound on damage to the files
    None

Damages == {"losepub", "swappub", "losepriv", "losemk"}

ASSUME ProvisioningAssumption ==
    /\ BestEffort \in BOOLEAN
    /\ Environments \subseteq [users  : SUBSET Instances,  \* who opens the store
                              locks  : BOOLEAN,            \* are file locks supported?
                              strict : BOOLEAN,            \* PublicCachePolicy::Strict?
                              damage : SUBSET Damages]     \* what may happen to the files
    /\ \A e \in Environments : e.locks \/ \E i \in Instances : e.users \subseteq {i}
    /\ {MaxDraws, MaxStops, MaxLosses} \subseteq Nat
    /\ None \notin Instances \cup [seed : Nat, mk : Nat]

VARIABLES
    env,     \* the settings, chosen once
    lock,    \* the holder of the lock file's lock, or None
    mk,      \* the provider's master key, 0 if it has none
    priv,    \* priv/: each pair's seed and the MK it is wrapped under, or None
    pub,     \* pub/: each pair's public key, 0 if missing
    pc,      \* where each instance is
    imk,     \* the master key each instance loaded
    seed,    \* the seed each instance is at work with
    made,    \* the public keys ensure_asymmetric_material has so far
    keys,    \* Shared::keys of each instance that is up, otherwise empty
    drawn, stops, losses

diskVars == <<env, mk, priv, pub>>
procVars == <<pc, imk, seed, made, keys>>
boundVars == <<drawn, stops, losses>>
vars == <<lock, diskVars, procVars, boundVars>>

\* ed25519 and dilithium, in the order they are ensured.
Pairs == 1..2
Stages == {"down", "load", "store", "open", "check", "probe", "reconcile", "save",
           "publish", "up"}
AtPairs == {"check", "probe", "reconcile", "save", "publish"}

\* The pair an instance is at work on.
Cur(i) == Len(made[i]) + 1

\* Has the instance's start returned?  Then it is at most reloading.
Live(i) == keys[i] # << >>
Goto(i, stage) == pc' = [pc EXCEPT ![i] = stage]

-----------------------------------------------------------------------------
\* Mutant of Lock: a lock held by another instance is ignored.
LockIgnored(i) ==
    /\ pc[i] = "down" /\ i \in env.users
    /\ Goto(i, "load")
    /\ UNCHANGED <<lock, diskVars, imk, seed, made, keys, boundVars>>

\* acquire_exclusive_lock; when it refuses, start returns and nothing changes.
Lock(i) ==
    /\ pc[i] = "down" /\ i \in env.users
    /\ \/ env.locks /\ lock = None /\ lock' = i
       \/ ~env.locks /\ BestEffort /\ UNCHANGED lock
    /\ Goto(i, "load")
    /\ UNCHANGED <<diskVars, imk, seed, made, keys, boundVars>>

\* The first load_mk of a start.
LoadMk(i) ==
    /\ pc[i] = "load"
    /\ Goto(i, IF mk = 0 THEN "store" ELSE "open")
    /\ UNCHANGED <<lock, diskVars, imk, seed, made, keys, boundVars>>

\* store_mk of a new master key.
StoreMk(i) ==
    /\ pc[i] = "store"
    /\ drawn < MaxDraws
    /\ drawn' = drawn + 1
    /\ mk' = drawn + 1
    /\ Goto(i, "open")
    /\ UNCHANGED <<env, lock, priv, pub, imk, seed, made, keys, stops, losses>>

\* Mutant of OpenStore: the master key is not loaded again.
OpenUnloaded(i) ==
    /\ pc[i] = "open"
    /\ mk # 0
    /\ made' = [made EXCEPT ![i] = << >>]
    /\ Goto(i, "check")
    /\ UNCHANGED <<lock, diskVars, imk, seed, keys, boundVars>>

\* After the recovery, load_mk again; then ensure_asymmetric_material begins.
OpenStore(i) ==
    /\ pc[i] = "open"
    /\ mk # 0
    /\ imk' = [imk EXCEPT ![i] = mk]
    /\ made' = [made EXCEPT ![i] = << >>]
    /\ Goto(i, "check")
    /\ UNCHANGED <<lock, diskVars, seed, keys, boundVars>>

\* reload_public_keys takes the write gate and does the same.
Reload(i) ==
    /\ pc[i] = "up"
    /\ mk # 0
    /\ imk' = [imk EXCEPT ![i] = mk]
    /\ made' = [made EXCEPT ![i] = << >>]
    /\ Goto(i, "check")
    /\ UNCHANGED <<lock, diskVars, seed, keys, boundVars>>

\* Mutant of CheckPriv: a pair without its public key is made again.
CheckBoth(i) ==
    /\ pc[i] = "check"
    /\ \/ /\ priv[Cur(i)] # None /\ pub[Cur(i)] # 0
          /\ priv[Cur(i)].mk = imk[i]
          /\ seed' = [seed EXCEPT ![i] = priv[Cur(i)].seed]
          /\ Goto(i, "reconcile")
       \/ /\ priv[Cur(i)] = None \/ pub[Cur(i)] = 0
          /\ Goto(i, "probe")
          /\ UNCHANGED seed
    /\ UNCHANGED <<lock, diskVars, imk, made, keys, boundVars>>

\* ensure_seed_keypair: is there a private file, and does the MK open it?
CheckPriv(i) ==
    /\ pc[i] = "check"
    /\ \/ /\ priv[Cur(i)] # None
          /\ priv[Cur(i)].mk = imk[i]
          /\ seed' = [seed EXCEPT ![i] = priv[Cur(i)].seed]
          /\ Goto(i, "reconcile")
       \/ /\ priv[Cur(i)] = None
          /\ Goto(i, "probe")
          /\ UNCHANGED seed
    /\ UNCHANGED <<lock, diskVars, imk, made, keys, boundVars>>

\* A pair is done; after the last one, the public keys take effect.
Done(i) ==
    LET pks == Append(made[i], seed[i]) IN
    /\ made' = [made EXCEPT ![i] = pks]
    /\ IF Len(pks) = 2
       THEN Goto(i, "up") /\ keys' = [keys EXCEPT ![i] = pks]
       ELSE Goto(i, "check") /\ UNCHANGED keys

\* reconcile_public_cache: equal, or missing and to be repaired.
Reconcile(i) ==
    /\ pc[i] = "reconcile"
    /\ \/ pub[Cur(i)] = seed[i] /\ Done(i)
       \/ /\ pub[Cur(i)] = 0 /\ ~env.strict
          /\ Goto(i, "publish")
          /\ UNCHANGED <<made, keys>>
    /\ UNCHANGED <<lock, diskVars, imk, seed, boundVars>>

\* There is no private file: there must be no public one; draw a seed.
Probe(i) ==
    /\ pc[i] = "probe"
    /\ pub[Cur(i)] = 0
    /\ drawn < MaxDraws
    /\ drawn' = drawn + 1
    /\ seed' = [seed EXCEPT ![i] = drawn + 1]
    /\ Goto(i, "save")
    /\ UNCHANGED <<lock, diskVars, imk, made, keys, stops, losses>>

\* Mutant of Save: the public key is written first.
SaveAfter(i) ==
    /\ pc[i] = "save"
    /\ \/ /\ pub[Cur(i)] # seed[i]
          /\ pub' = [pub EXCEPT ![Cur(i)] = seed[i]]
          /\ UNCHANGED <<priv, pc>>
       \/ /\ pub[Cur(i)] = seed[i]
          /\ priv' = [priv EXCEPT ![Cur(i)] = [seed |-> seed[i], mk |-> imk[i]]]
          /\ Goto(i, "publish")
          /\ UNCHANGED pub
    /\ UNCHANGED <<env, lock, mk, imk, seed, made, keys, boundVars>>

\* save_bytes_encrypted of the seed
Save(i) ==
    /\ pc[i] = "save"
    /\ priv' = [priv EXCEPT ![Cur(i)] = [seed |-> seed[i], mk |-> imk[i]]]
    /\ Goto(i, "publish")
    /\ UNCHANGED <<env, lock, mk, pub, imk, seed, made, keys, boundVars>>

\* write_secure of the public key
Publish(i) ==
    /\ pc[i] = "publish"
    /\ pub' = [pub EXCEPT ![Cur(i)] = seed[i]]
    /\ Done(i)
    /\ UNCHANGED <<env, lock, mk, priv, imk, seed, boundVars>>

-----------------------------------------------------------------------------
\* The instance is gone, and its lock with it.
End(i) ==
    /\ lock' = IF lock = i THEN None ELSE lock
    /\ Goto(i, "down")
    /\ keys' = [keys EXCEPT ![i] = << >>]

\* An error returns from start, or from reload_public_keys with the old keys.
GiveUp(i) ==
    IF Live(i) THEN Goto(i, "up") /\ UNCHANGED <<lock, keys>> ELSE End(i)

\* What is on disk is refused: no master key any more, a seed the MK does not
\* open, a public key without its secret, a wrong one, or (Strict) a missing one.
Refuse(i) ==
    /\ \/ pc[i] = "open" /\ mk = 0
       \/ pc[i] = "check" /\ priv[Cur(i)] # None /\ priv[Cur(i)].mk # imk[i]
       \/ pc[i] = "probe" /\ pub[Cur(i)] # 0
       \/ pc[i] = "reconcile" /\ pub[Cur(i)] \notin {0, seed[i]}
       \/ pc[i] = "reconcile" /\ pub[Cur(i)] = 0 /\ env.strict
    /\ GiveUp(i)
    /\ UNCHANGED <<diskVars, imk, seed, made, boundVars>>

CanStop == stops < MaxStops /\ stops' = stops + 1

\* A call fails: a read, a write, the arena, or the sync after a public key.
IoError(i) ==
    /\ pc[i] \notin {"down", "up"}
    /\ CanStop
    /\ \/ UNCHANGED pub
       \/ pc[i] = "publish" /\ pub' = [pub EXCEPT ![Cur(i)] = seed[i]]
    /\ GiveUp(i)
    /\ UNCHANGED <<env, mk, priv, imk, seed, made, drawn, losses>>

\* The process dies, or the last handle is dropped.
Stop(i) ==
    /\ pc[i] # "down"
    /\ CanStop
    /\ End(i)
    /\ UNCHANGED <<diskVars, imk, seed, made, drawn, losses>>

\* A public key that belongs to no seed.
Wrong == MaxDraws + 1

\* Somebody removes a file of pub/ or puts another in its place, removes a file of
\* priv/, or the provider loses the master key.
Harm ==
    /\ losses < MaxLosses
    /\ losses' = losses + 1
    /\ \/ /\ "losepub" \in env.damage
          /\ \E k \in Pairs : pub[k] # 0 /\ pub' = [pub EXCEPT ![k] = 0]
          /\ UNCHANGED <<mk, priv>>
       \/ /\ "swappub" \in env.damage
          /\ \E k \in Pairs : pub[k] # 0 /\ pub' = [pub EXCEPT ![k] = Wrong]
          /\ UNCHANGED <<mk, priv>>
       \/ /\ "losepriv" \in env.damage
          /\ \E k \in Pairs : priv[k] # None /\ priv' = [priv EXCEPT ![k] = None]
          /\ UNCHANGED <<mk, pub>>
       \/ /\ "losemk" \in env.damage
          /\ mk # 0 /\ mk' = 0
          /\ UNCHANGED <<priv, pub>>
    /\ UNCHANGED <<env, lock, procVars, drawn, stops>>

-----------------------------------------------------------------------------
Init ==
    /\ env \in Environments
    /\ lock = None
    /\ mk = 0
    /\ priv = [k \in Pairs |-> None]
    /\ pub = [k \in Pairs |-> 0]
    /\ pc = [i \in Instances |-> "down"]
    /\ imk = [i \in Instances |-> 0]
    /\ seed = [i \in Instances |-> 0]
    /\ made = [i \in Instances |-> << >>]
    /\ keys = [i \in Instances |-> << >>]
    /\ drawn = 0 /\ stops = 0 /\ losses = 0

\* The steps of a start or a reload that has begun.
Work(i) ==
    \/ LoadMk(i) \/ StoreMk(i) \/ OpenStore(i)
    \/ CheckPriv(i) \/ Reconcile(i) \/ Probe(i) \/ Save(i) \/ Publish(i)
    \/ Refuse(i)

Next ==
    \/ \E i \in Instances :
          Lock(i) \/ Work(i) \/ Reload(i) \/ IoError(i) \/ Stop(i)
    \/ Harm

Spec == Init /\ [][Next]_vars

\* A start or reload that has begun goes on, and the store is opened again.
FairSpec ==
    /\ Spec
    /\ \A i \in Instances : WF_vars(Work(i))
    /\ WF_vars(\E i \in Instances : Lock(i))

-----------------------------------------------------------------------------
(***************************************************************************)
(* Properties.                                                             *)
(***************************************************************************)

\* Every variable keeps its type, and an instance at work on the pairs has a
\* master key.
TypeOK ==
    /\ env \in Environments
    /\ lock \in Instances \cup {None}
    /\ mk \in 0..MaxDraws
    /\ priv \in [Pairs -> [seed : 1..MaxDraws, mk : 1..MaxDraws] \cup {None}]
    /\ pub \in [Pairs -> 0..Wrong]
    /\ pc \in [Instances -> Stages]
    /\ imk \in [Instances -> 0..MaxDraws]
    /\ seed \in [Instances -> 0..MaxDraws]
    /\ \A i \in Instances : /\ Len(made[i]) \in 0..2
                            /\ Len(keys[i]) \in {0, 2}
                            /\ pc[i] \in AtPairs => imk[i] # 0
    /\ drawn \in 0..MaxDraws /\ stops \in 0..MaxStops /\ losses \in 0..MaxLosses

\* Nothing but files of the public cache gets lost.
CacheLossOnly == env.damage \subseteq {"losepub"}

\* As long as only the public cache suffers, the public keys an instance answers
\* with belong to the seeds it will sign with, and those open under the provider's
\* master key, whatever other instances tried and wherever they stopped
\* (start_with_config, ensure_seed_keypair).
KeysMatchStore ==
    CacheLossOnly => \A i \in Instances : Live(i) =>
        \A k \in Pairs : priv[k] = [seed |-> keys[i][k], mk |-> mk]

\* A store's identity is for good: no start, reload or crash replaces a seed or
\* the master key that wraps it; and while a pair leaves a trace on disk, its seed
\* is never made anew, whatever was lost or swapped: a start or reload accepts it
\* or refuses (start_with_config, ensure_seed_keypair, reconcile_public_cache).
IdentityKept ==
    [][/\ CacheLossOnly =>
              /\ mk # 0 => mk' = mk
              /\ \A k \in Pairs : priv[k] # None => priv'[k] = priv[k]
       /\ \A k \in Pairs :
              (priv[k] # None \/ pub[k] # 0) => priv'[k] \in {priv[k], None}]_vars

\* Wherever a first start, a repair or a reload stopped, a later start succeeds
\* under RepairMissingOnly (the order of the writes in ensure_seed_keypair).
StartsInTheEnd ==
    (CacheLossOnly /\ ~env.strict /\ \A i \in Instances : pc[i] = "down")
        ~> (\E i \in Instances : Live(i))
=============================================================================
