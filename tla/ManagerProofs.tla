--------------------------- MODULE ManagerProofs ---------------------------
(***************************************************************************)
(* Theorems about the two ends of a key manager's life: the opening of its *)
(* key store (KeyProvisioning), for any number of instances, draws, stops  *)
(* and losses, and the thread that rotates its master key (RotationWorker),*)
(* for any callers and intervals.                                          *)
(***************************************************************************)
EXTENDS KeyProvisioning, RotationWorker, TLAPS

-----------------------------------------------------------------------------
(***************************************************************************)
(* The rotation worker.  The plan a caller is about to set was computed    *)
(* from a time that has been, so it is no further ahead than its interval; *)
(* a rotation that runs has copied an interval that was set.               *)
(***************************************************************************)
WorkerInv ==
    /\ WorkerTypeOK
    /\ nextAt \in Nat /\ deadline \in Nat
    /\ stop \in BOOLEAN /\ woken \in BOOLEAN
    /\ call \in [Callers -> {Idle} \cup [every : Intervals, at : Nat]]
    /\ \A c \in Callers : call[c] # Idle => call[c].at <= now + call[c].every
    /\ wpc = "rotate" => every \in Intervals
    /\ SleepsNoLonger
    /\ PlannedWithinInterval

LEMMA WorkerInitInv == WorkerInit => WorkerInv
<1> SUFFICES ASSUME WorkerInit
             PROVE  WorkerInv
    OBVIOUS
<1>1. rotateEvery \in Intervals /\ rotateEvery \in Nat /\ MaxTime \in Nat
    BY WorkerAssumption DEF WorkerInit
<1>2. \E d \in Intervals : nextAt <= now + d /\ deadline <= now + d
    BY <1>1 DEF WorkerInit
<1>3. WorkerTypeOK
  <2>1. {stop, woken} \subseteq BOOLEAN /\ applied = {} /\ \A c \in Callers : call[c] = Idle
      BY Zenon DEF WorkerInit
  <2>2. now \in 0 .. MaxTime /\ since \in 0 .. now
      BY <1>1 DEF WorkerInit
  <2> QED
      BY <1>1, <1>2, <2>1, <2>2, Zenon DEF WorkerInit, WorkerTypeOK
<1>4. SleepsNoLonger /\ PlannedWithinInterval
    BY <1>1 DEF WorkerInit, SleepsNoLonger, PlannedWithinInterval
<1> QED
    BY <1>1, <1>3, <1>4, ZenonT(30) DEF WorkerInit, WorkerInv

\* Two plans, each within an interval of now, are within the longer of the two.
LEMMA OneHorizon ==
    ASSUME WorkerInv, NEW t \in Nat, NEW d \in Intervals, t <= now + d
    PROVE  \E e \in Intervals : t <= now + e /\ deadline <= now + e
<1>1. PICK e \in Intervals : deadline <= now + e
    BY DEF WorkerInv, WorkerTypeOK
<1>2. now \in Nat /\ d \in Nat /\ e \in Nat /\ deadline \in Nat
    BY WorkerAssumption DEF WorkerInv, WorkerTypeOK
<1>3. CASE d <= e
    BY <1>1, <1>2, <1>3
<1>4. CASE e < d
    BY <1>1, <1>2, <1>4
<1> QED
    BY <1>2, <1>3, <1>4

LEMMA WorkerNextInv == WorkerInv /\ [WorkerNext]_workerVars => WorkerInv'
<1> SUFFICES ASSUME WorkerInv, [WorkerNext]_workerVars
             PROVE  WorkerInv'
    OBVIOUS
<1> USE WorkerAssumption
<1>1. CASE Loop
  <2>1. /\ UNCHANGED <<now, rotateEvery, nextAt, stop, call, applied, drop, since>>
        /\ wpc' \in {"gone", "rotate", "wait"}
        /\ every' \in {every, rotateEvery} /\ deadline' \in {deadline, nextAt}
        /\ woken' \in BOOLEAN
        /\ wpc' = "rotate" => every' = rotateEvery
        /\ wpc' = "wait" => every' = every /\ deadline' = nextAt /\ ~stop /\ wpc = "loop"
      BY <1>1, ZenonT(30) DEF Loop, ctlVars, WorkerInv
  <2>2. \E d \in Intervals : nextAt' <= now' + d /\ deadline' <= now' + d
      BY <2>1, ZenonT(30) DEF WorkerInv, WorkerTypeOK
  <2>3. WorkerTypeOK'
      BY <2>1, <2>2 DEF WorkerInv, WorkerTypeOK
  <2>4. SleepsNoLonger'
    <3>1. nextAt <= nextAt
        BY DEF WorkerInv
    <3> QED
        BY <2>1, <3>1, Zenon DEF SleepsNoLonger
  <2>5. PlannedWithinInterval'
      BY <2>1, Zenon DEF WorkerInv, PlannedWithinInterval
  <2> QED
      BY <2>1, <2>3, <2>4, <2>5 DEF WorkerInv, WorkerTypeOK
<1>2. CASE WakeDue \/ WakeSpurious
    BY <1>2 DEF WakeDue, WakeSpurious, ctlVars, WorkerInv, WorkerTypeOK, SleepsNoLonger,
                PlannedWithinInterval
<1>3. ASSUME NEW ok \in BOOLEAN, Rotated(ok)
      PROVE  WorkerInv'
  <2>1. CASE wpc' = "gone"
    BY <1>3, <2>1, ZenonT(30) DEF Rotated, WorkerInv, WorkerTypeOK, SleepsNoLonger, PlannedWithinInterval
  <2>2. CASE wpc' = "loop"
    <3>1. every \in Intervals /\ now + every \in Nat /\ nextAt' = now + every /\ since' = now
        BY <1>3, <2>2 DEF Rotated, WorkerInv, WorkerTypeOK
    <3>a. now \in Nat /\ now <= now /\ now \in 0 .. now /\ now + every <= now + every
        BY <3>1 DEF WorkerInv, WorkerTypeOK
    <3>2. \E e \in Intervals : now + every <= now + e /\ deadline <= now + e
        BY <3>1, <3>a, OneHorizon, ZenonT(30)
    <3>b. UNCHANGED <<now, every, deadline, rotateEvery, stop, woken, call, applied, drop>>
        BY <1>3 DEF Rotated
    <3>3. WorkerTypeOK'
        BY <2>2, <3>1, <3>a, <3>b, <3>2, ZenonT(30) DEF WorkerInv, WorkerTypeOK
    <3> QED
        BY <1>3, <2>2, <3>1, <3>3
           DEF Rotated, WorkerInv, WorkerTypeOK, SleepsNoLonger, PlannedWithinInterval
  <2> QED
    BY <1>3, <2>1, <2>2, ZenonT(30) DEF Rotated
<1>4. ASSUME NEW c \in Callers, NEW d \in Intervals, SetBegin(c, d)
      PROVE  WorkerInv'
    BY <1>4 DEF SetBegin, ctlVars, WorkerInv, WorkerTypeOK, SleepsNoLonger, PlannedWithinInterval
<1>5. ASSUME NEW c \in Callers, SetApply(c)
      PROVE  WorkerInv'
  <2>1. /\ call[c].every \in Intervals /\ call[c].at \in Nat
        /\ call[c].at <= now + call[c].every
        /\ nextAt' = call[c].at /\ rotateEvery' = call[c].every /\ since' = now
      BY <1>5 DEF SetApply, WorkerInv
  <2>2. \E e \in Intervals : call[c].at <= now + e /\ deadline <= now + e
      BY <2>1, OneHorizon, ZenonT(30)
  <2>a. now \in 0 .. now
      BY DEF WorkerInv, WorkerTypeOK
  <2>b. /\ call[c] # Idle /\ applied' = applied \cup {c}
        /\ UNCHANGED <<now, wpc, every, deadline, stop, woken, call, drop>>
      BY <1>5 DEF SetApply
  <2>3. WorkerTypeOK'
      BY <2>1, <2>2, <2>a, <2>b, ZenonT(30) DEF WorkerInv, WorkerTypeOK
  <2>4. SleepsNoLonger' /\ PlannedWithinInterval'
      BY <1>5, <2>1 DEF SetApply, WorkerInv, WorkerTypeOK, SleepsNoLonger, PlannedWithinInterval
  <2> QED
      BY <1>5, <2>1, <2>3, <2>4, ZenonT(30) DEF SetApply, WorkerInv
<1>6. ASSUME NEW c \in Callers, SetSignal(c)
      PROVE  WorkerInv'
    BY <1>6, ZenonT(30) DEF SetSignal, ctlVars, WorkerInv, WorkerTypeOK, SleepsNoLonger, PlannedWithinInterval
<1>7. CASE DropManager
    BY <1>7, ZenonT(30) DEF DropManager, WorkerInv, WorkerTypeOK, SleepsNoLonger, PlannedWithinInterval
<1>8. CASE Joined
    BY <1>8, ZenonT(30) DEF Joined, ctlVars, WorkerInv, WorkerTypeOK, SleepsNoLonger, PlannedWithinInterval
<1>9. CASE Tick
  <2>1. /\ now' = now + 1 /\ now \in Nat /\ now' \in 0 .. MaxTime /\ Intervals \subseteq Nat
        /\ UNCHANGED <<wpc, every, deadline, rotateEvery, nextAt, stop, woken, call, applied, drop,
                       since>>
      BY <1>9 DEF Tick, ctlVars, WorkerInv, WorkerTypeOK
  <2>2. \E d \in Intervals : nextAt' <= now' + d /\ deadline' <= now' + d
    <3>1. PICK d \in Intervals : nextAt <= now + d /\ deadline <= now + d
        BY ZenonT(30) DEF WorkerInv, WorkerTypeOK
    <3>2. now \in Nat /\ d \in Nat /\ nextAt \in Nat /\ deadline \in Nat
        BY <2>1, ZenonT(30) DEF WorkerInv
    <3>3. nextAt <= (now + 1) + d /\ deadline <= (now + 1) + d
        BY <3>1, <3>2
    <3> QED
        BY <2>1, <3>3, ZenonT(30)
  <2>a. since' \in 0 .. now'
    <3>1. since \in 0 .. now
        BY DEF WorkerInv, WorkerTypeOK
    <3> QED
        BY <2>1, <3>1
  <2>3. WorkerTypeOK'
      BY <2>1, <2>2, <2>a, ZenonT(30) DEF WorkerInv, WorkerTypeOK
  <2>4. \A c \in Callers : call'[c] # Idle => call'[c].at <= now' + call'[c].every
    <3>1. TAKE c \in Callers
    <3>2. HAVE call'[c] # Idle
    <3>3. call'[c] = call[c] /\ call[c] \in [every : Nat, at : Nat]
          /\ call[c].at <= now + call[c].every
        BY <2>1, <3>2, ZenonT(30) DEF WorkerInv
    <3>4. call[c].at \in Nat /\ call[c].every \in Nat
        BY <3>3, ZenonT(30)
    <3> QED
        BY <2>1, <3>3, <3>4
  <2>5. SleepsNoLonger' /\ PlannedWithinInterval'
      BY <2>1, ZenonT(30) DEF WorkerInv, SleepsNoLonger, PlannedWithinInterval
  <2> QED
      BY <2>1, <2>3, <2>4, <2>5, ZenonT(30) DEF WorkerInv
<1>10. CASE UNCHANGED workerVars
    BY <1>10 DEF workerVars, ctlVars, WorkerInv, WorkerTypeOK, SleepsNoLonger,
                 PlannedWithinInterval
<1> QED
    BY <1>1, <1>2, <1>3, <1>4, <1>5, <1>6, <1>7, <1>8, <1>9, <1>10, ZenonT(30) DEF WorkerNext

LEMMA WorkerInvariant == WorkerSpec => []WorkerInv
<1>1. WorkerInit => WorkerInv
    BY WorkerInitInv
<1>2. WorkerInv /\ [WorkerNext]_workerVars => WorkerInv'
    BY WorkerNextInv
<1> QED
    BY <1>1, <1>2, PTL DEF WorkerSpec

\* The types hold, and nothing is ever planned further ahead than the longest
\* interval (rotate_loop, set_rotate_interval).
THEOREM WorkerTypes == WorkerSpec => []WorkerTypeOK
<1>1. WorkerInv => WorkerTypeOK
    BY DEF WorkerInv
<1> QED
    BY <1>1, WorkerInvariant, PTL

\* No change of the interval and no drop of the last handle is slept through,
\* however many callers there are and whatever they ask for
\* (set_rotate_interval, RotationGuard::drop).
THEOREM NoChangeSleptThrough == WorkerSpec => []SleepsNoLonger
<1>1. WorkerInv => SleepsNoLonger
    BY DEF WorkerInv
<1> QED
    BY <1>1, WorkerInvariant, PTL

\* The next rotation is at most an interval from the last change or the last
\* rotation (rotate_loop, set_rotate_interval).
THEOREM RotationsStayPlanned == WorkerSpec => []PlannedWithinInterval
<1>1. WorkerInv => PlannedWithinInterval
    BY DEF WorkerInv
<1> QED
    BY <1>1, WorkerInvariant, PTL

-----------------------------------------------------------------------------
(***************************************************************************)
(* Provisioning.  At most one instance is at work at a time: it holds the  *)
(* lock, or nobody else uses the store.  So what it found on disk is still *)
(* there when it acts on it, except for what somebody removed.             *)
(***************************************************************************)
DiskTyped ==
    /\ env \in Environments
    /\ lock \in Instances \cup {None}
    /\ mk \in 0 .. MaxDraws
    /\ priv \in [Pairs -> [seed : 1 .. MaxDraws, mk : 1 .. MaxDraws] \cup {None}]
    /\ pub \in [Pairs -> 0 .. Wrong]
    /\ drawn \in 0 .. MaxDraws /\ stops \in 0 .. MaxStops /\ losses \in 0 .. MaxLosses

MemTyped ==
    /\ pc \in [Instances -> Stages]
    /\ imk \in [Instances -> 0 .. MaxDraws]
    /\ seed \in [Instances -> 0 .. MaxDraws]
    /\ made \in [Instances -> Seq(Nat)]
    /\ keys \in [Instances -> Seq(Nat)]
    /\ \A i \in Instances : /\ Len(made[i]) \in 0 .. 2
                            /\ Len(keys[i]) \in {0, 2}
                            /\ pc[i] \in AtPairs => imk[i] # 0

Typed == DiskTyped /\ MemTyped

\* What an instance's stage says about its memory, the lock and the disk.
StageOf(i) ==
    /\ pc[i] \in {"down", "load", "store", "open"} => keys[i] = << >>
    /\ pc[i] = "up" => keys[i] # << >>
    /\ pc[i] # "down" => i \in env.users /\ (env.locks => lock = i)
    /\ pc[i] \in AtPairs => Len(made[i]) < 2
    /\ pc[i] \in {"reconcile", "save", "publish"} => seed[i] # 0
    /\ pc[i] = "store" => mk = 0
    /\ pc[i] \in {"probe", "save"} => priv[Cur(i)] = None
    /\ pc[i] = "save" => pub[Cur(i)] = 0

StagesInv == \A i \in Instances : StageOf(i)

\* While only the public cache suffers: every seed is wrapped under the provider's
\* master key, and an instance has it and the seeds of the pairs it is done with.
Wrapped == \A k \in Pairs : priv[k] # None => priv[k].mk = mk

HoldsSeeds(i) ==
    pc[i] \in AtPairs =>
        /\ imk[i] = mk
        /\ \A k \in 1 .. Len(made[i]) : priv[k] = [seed |-> made[i][k], mk |-> mk]
        /\ pc[i] \in {"reconcile", "publish"} =>
              priv[Cur(i)] = [seed |-> seed[i], mk |-> mk]

Answers(i) == Live(i) => \A k \in Pairs : priv[k] = [seed |-> keys[i][k], mk |-> mk]

SealsInv ==
    CacheLossOnly => Wrapped /\ \A i \in Instances : HoldsSeeds(i) /\ Answers(i)

ProvisionInv == Typed /\ StagesInv /\ SealsInv

\* Counting to two: n pairs are done, pair n + 1 is next.
LEMMA PairsInOrder ==
    /\ \A n \in 0 .. 1 : n + 1 \in 1 .. 2 /\ \A k \in 1 .. n : k \in 1 .. 2 /\ k # n + 1
    /\ \A n \in 0 .. 2 : n < 2 => n \in 0 .. 1
    /\ \A n \in 0 .. 2 : n # 2 => n < 2
    /\ \A n \in 0 .. 1 : \A k \in 1 .. n + 1 : k = n + 1 \/ k \in 1 .. n
    /\ 1 .. 2 \subseteq 0 .. 2
    OBVIOUS

LEMMA ProvisionInit == Init => ProvisionInv
<1> SUFFICES ASSUME Init
             PROVE  ProvisionInv
    OBVIOUS
<1> USE ProvisioningAssumption
<1>1. DiskTyped
    BY DEF Init, DiskTyped, Wrong, Pairs
<1>2. MemTyped
    BY DEF Init, MemTyped, Stages, AtPairs
<1>3. StagesInv
    BY ZenonT(30) DEF Init, StagesInv, StageOf, AtPairs
<1>4. SealsInv
    BY DEF Init, SealsInv, Wrapped, HoldsSeeds, Answers, Live, AtPairs
<1> QED
    BY <1>1, <1>2, <1>3, <1>4 DEF ProvisionInv, Typed

\* An instance that is not down is alone.
LEMMA Alone ==
    ASSUME Typed, StagesInv, NEW i \in Instances, NEW j \in Instances,
           pc[i] # "down", pc[j] # "down"
    PROVE  i = j
<1>1. i \in env.users /\ j \in env.users /\ (env.locks => lock = i /\ lock = j)
    BY DEF StagesInv, StageOf
<1>2. env.locks \/ \E h \in Instances : env.users \subseteq {h}
    BY ProvisioningAssumption DEF Typed, DiskTyped
<1> QED
    BY <1>1, <1>2

\* When one instance acts and the others rest, it is enough to look at that one.
LEMMA OthersRest ==
    ASSUME StagesInv, NEW i \in Instances,
           \A j \in Instances : j # i => pc'[j] = "down" /\ pc[j] = "down" /\ keys'[j] = keys[j]
    PROVE  /\ StageOf(i)' => StagesInv'
           /\ (CacheLossOnly' => Wrapped' /\ HoldsSeeds(i)' /\ Answers(i)') => SealsInv'
<1>1. \A j \in Instances : j # i => pc'[j] = "down" /\ keys'[j] = << >>
    BY DEF StagesInv, StageOf
<1>2. \A j \in Instances : j # i => StageOf(j)' /\ HoldsSeeds(j)' /\ Answers(j)'
    BY <1>1 DEF StageOf, HoldsSeeds, Answers, Live, AtPairs
<1> QED
    BY <1>2 DEF StagesInv, SealsInv


\* The steps below change the memory of one instance, i.
LEMMA MemStep ==
    ASSUME MemTyped, NEW i \in Instances, NEW stage \in Stages, pc' = [pc EXCEPT ![i] = stage],
           /\ imk' \in [Instances -> 0 .. MaxDraws] /\ seed' \in [Instances -> 0 .. MaxDraws]
           /\ made' \in [Instances -> Seq(Nat)] /\ keys' \in [Instances -> Seq(Nat)],
           \A j \in Instances : j # i =>
               imk'[j] = imk[j] /\ made'[j] = made[j] /\ keys'[j] = keys[j],
           stage \in AtPairs => imk'[i] # 0, Len(made'[i]) \in 0 .. 2, Len(keys'[i]) \in {0, 2}
    PROVE  MemTyped'
<1>1. /\ pc' \in [Instances -> Stages] /\ pc'[i] = stage
      /\ \A j \in Instances : j # i => pc'[j] = pc[j]
    BY DEF MemTyped
<1> QED
    BY <1>1, ZenonT(30) DEF MemTyped

\* A step that only goes on to another stage.
LEMMA GoesOn ==
    ASSUME MemTyped, NEW i \in Instances, NEW stage \in Stages, pc' = [pc EXCEPT ![i] = stage],
           UNCHANGED <<imk, seed, made, keys>>, stage \in AtPairs => imk[i] # 0
    PROVE  MemTyped'
BY MemStep DEF MemTyped

\* What stays true of the disk when no seed and no master key is written.
LEMMA SealsKept ==
    ASSUME ProvisionInv, UNCHANGED <<env, mk, priv>>, CacheLossOnly', NEW i \in Instances
    PROVE  /\ CacheLossOnly /\ Wrapped /\ Wrapped' /\ HoldsSeeds(i) /\ Answers(i)
           /\ keys'[i] \in {keys[i], << >>} => Answers(i)'
<1>1. CacheLossOnly /\ Wrapped /\ HoldsSeeds(i) /\ Answers(i)
    BY DEF ProvisionInv, SealsInv, CacheLossOnly
<1>2. Wrapped'
    BY <1>1 DEF Wrapped
<1>3. keys'[i] \in {keys[i], << >>} => Answers(i)'
    BY <1>1 DEF Answers, Live
<1> QED
    BY <1>1, <1>2, <1>3

\* The instances other than the one at work, in a step that leaves them alone.
LEMMA OthersDown ==
    ASSUME ProvisionInv, NEW i \in Instances, pc[i] # "down",
           NEW stage, Goto(i, stage)
    PROVE  /\ \A j \in Instances : j # i => pc'[j] = "down" /\ pc[j] = "down"
           /\ pc'[i] = stage
<1>1. pc \in [Instances -> Stages] /\ Typed /\ StagesInv
    BY DEF ProvisionInv, Typed, MemTyped
<1>2. \A j \in Instances : j # i => pc[j] = "down"
    BY <1>1, Alone, ZenonT(30)
<1> QED
    BY <1>1, <1>2 DEF Goto

LEMMA LockStep == ASSUME ProvisionInv, NEW i \in Instances, Lock(i) PROVE ProvisionInv'
<1>0. DiskTyped /\ MemTyped /\ StageOf(i)
    BY DEF ProvisionInv, Typed, StagesInv
<1>1. /\ pc[i] = "down" /\ i \in env.users /\ pc' = [pc EXCEPT ![i] = "load"]
      /\ UNCHANGED <<env, mk, priv, pub, imk, seed, made, keys, drawn, stops, losses>>
      /\ \/ env.locks /\ lock = None /\ lock' = i
         \/ ~env.locks /\ lock' = lock
    BY DEF Lock, Goto, diskVars, boundVars
<1>2. DiskTyped'
    BY <1>0, <1>1 DEF DiskTyped
<1>3. /\ MemTyped' /\ pc'[i] = "load"
      /\ \A j \in Instances : j # i => pc'[j] = pc[j]
  <2>1. "load" \in Stages /\ "load" \notin AtPairs
      BY DEF Stages, AtPairs
  <2> QED
      BY <1>0, <1>1, <2>1, GoesOn DEF MemTyped
<1>4. \A j \in Instances : j # i => pc[j] = "down"
  <2>1. \A j \in Instances : pc[j] # "down" => j \in env.users /\ (env.locks => lock = j)
      BY DEF ProvisionInv, StagesInv, StageOf
  <2>2. env.locks \/ \E h \in Instances : env.users \subseteq {h}
      BY <1>0, ProvisioningAssumption DEF DiskTyped
  <2> QED
      BY <1>1, <2>1, <2>2, ProvisioningAssumption
<1>5. StageOf(i)'
    BY <1>0, <1>1, <1>3 DEF StageOf, AtPairs
<1>6. CacheLossOnly' => Wrapped' /\ HoldsSeeds(i)' /\ Answers(i)'
    BY <1>1, <1>3, SealsKept, Zenon DEF HoldsSeeds, AtPairs
<1> QED
    BY <1>1, <1>2, <1>3, <1>4, <1>5, <1>6, OthersRest DEF ProvisionInv, Typed

LEMMA LoadMkStep == ASSUME ProvisionInv, NEW i \in Instances, LoadMk(i) PROVE ProvisionInv'
<1> DEFINE stage == IF mk = 0 THEN "store" ELSE "open"
<1>0. DiskTyped /\ MemTyped /\ StageOf(i)
    BY DEF ProvisionInv, Typed, StagesInv
<1>1. /\ pc[i] = "load" /\ pc' = [pc EXCEPT ![i] = stage] /\ Goto(i, stage)
      /\ UNCHANGED <<lock, env, mk, priv, pub, imk, seed, made, keys, drawn, stops, losses>>
    BY DEF LoadMk, Goto, diskVars, boundVars
<1>2. DiskTyped'
    BY <1>0, <1>1 DEF DiskTyped
<1>3. stage \in Stages /\ stage \notin AtPairs
    BY DEF Stages, AtPairs
<1> HIDE DEF stage
<1>4. MemTyped'
    BY <1>0, <1>1, <1>3, GoesOn, ZenonT(30)
<1>5. (\A j \in Instances : j # i => pc'[j] = "down" /\ pc[j] = "down") /\ pc'[i] = stage
    BY <1>1, OthersDown
<1>6. StageOf(i)'
    BY <1>0, <1>1, <1>5 DEF StageOf, AtPairs, stage
<1>7. CacheLossOnly' => Wrapped' /\ HoldsSeeds(i)' /\ Answers(i)'
    BY <1>1, <1>3, <1>5, SealsKept, Zenon DEF HoldsSeeds
<1> QED
    BY <1>1, <1>2, <1>4, <1>5, <1>6, <1>7, OthersRest DEF ProvisionInv, Typed

LEMMA StoreMkStep == ASSUME ProvisionInv, NEW i \in Instances, StoreMk(i) PROVE ProvisionInv'
<1>0. DiskTyped /\ MemTyped /\ StageOf(i)
    BY DEF ProvisionInv, Typed, StagesInv
<1>1. /\ pc[i] = "store" /\ pc' = [pc EXCEPT ![i] = "open"] /\ Goto(i, "open")
      /\ drawn < MaxDraws /\ drawn' = drawn + 1 /\ mk' = drawn + 1
      /\ UNCHANGED <<lock, env, priv, pub, imk, seed, made, keys, stops, losses>>
    BY DEF StoreMk, Goto
<1>2. DiskTyped'
    BY <1>0, <1>1, ProvisioningAssumption DEF DiskTyped
<1>3. MemTyped'
  <2>1. "open" \in Stages /\ "open" \notin AtPairs
      BY DEF Stages, AtPairs
  <2> QED
      BY <1>0, <1>1, <2>1, GoesOn, ZenonT(30)
<1>4. (\A j \in Instances : j # i => pc'[j] = "down" /\ pc[j] = "down") /\ pc'[i] = "open"
    BY <1>1, OthersDown
<1>5. keys[i] = << >> /\ mk = 0
    BY <1>0, <1>1 DEF StageOf
<1>6. StageOf(i)'
    BY <1>0, <1>1, <1>4, ZenonT(30) DEF StageOf, AtPairs
<1>7. ASSUME CacheLossOnly' PROVE Wrapped' /\ HoldsSeeds(i)' /\ Answers(i)'
  <2>1. CacheLossOnly
      BY <1>1, <1>7, ZenonT(30) DEF CacheLossOnly
  <2>2. \A k \in Pairs : priv[k] = None
      BY <1>0, <1>5, <2>1 DEF ProvisionInv, SealsInv, Wrapped, DiskTyped
  <2> QED
      BY <1>1, <1>4, <1>5, <2>2 DEF Wrapped, HoldsSeeds, Answers, Live, AtPairs
<1> QED
    BY <1>1, <1>2, <1>3, <1>4, <1>6, <1>7, OthersRest DEF ProvisionInv, Typed

\* OpenStore and Reload: the master key is loaded and the pairs are looked at anew.
LEMMA BeginStep ==
    ASSUME ProvisionInv, NEW i \in Instances, OpenStore(i) \/ Reload(i)
    PROVE  ProvisionInv'
<1>0. DiskTyped /\ MemTyped /\ StageOf(i)
    BY DEF ProvisionInv, Typed, StagesInv
<1>1. /\ pc[i] \in {"open", "up"} /\ pc' = [pc EXCEPT ![i] = "check"] /\ Goto(i, "check")
      /\ mk # 0 /\ imk' = [imk EXCEPT ![i] = mk] /\ made' = [made EXCEPT ![i] = << >>]
      /\ UNCHANGED <<lock, env, mk, priv, pub, seed, keys, drawn, stops, losses>>
    BY DEF OpenStore, Reload, Goto, diskVars, boundVars
<1>2. DiskTyped'
    BY <1>0, <1>1 DEF DiskTyped
<1>3. /\ imk' \in [Instances -> 0 .. MaxDraws] /\ made' \in [Instances -> Seq(Nat)]
      /\ imk'[i] = mk /\ made'[i] = << >> /\ Len(made'[i]) = 0
      /\ \A j \in Instances : j # i => imk'[j] = imk[j] /\ made'[j] = made[j]
    BY <1>0, <1>1 DEF DiskTyped, MemTyped
<1>4. MemTyped'
  <2>1. "check" \in Stages
      BY DEF Stages
  <2>2. /\ seed' \in [Instances -> 0 .. MaxDraws] /\ keys' \in [Instances -> Seq(Nat)]
        /\ Len(keys'[i]) \in {0, 2} /\ \A j \in Instances : j # i => keys'[j] = keys[j]
        /\ imk'[i] # 0 /\ Len(made'[i]) \in 0 .. 2
      BY <1>0, <1>1, <1>3 DEF MemTyped
  <2> QED
      BY <1>0, <1>1, <1>3, <2>1, <2>2, MemStep, ZenonT(30)
<1>5. (\A j \in Instances : j # i => pc'[j] = "down" /\ pc[j] = "down") /\ pc'[i] = "check"
    BY <1>1, OthersDown, ZenonT(30)
<1>6. StageOf(i)'
    BY <1>0, <1>1, <1>3, <1>5 DEF StageOf, AtPairs
<1>7. CacheLossOnly' => Wrapped' /\ HoldsSeeds(i)' /\ Answers(i)'
  <2>1. HoldsSeeds(i)'
      BY <1>1, <1>3, <1>5 DEF HoldsSeeds
  <2> QED
      BY <1>1, <2>1, SealsKept, Zenon
<1> QED
    BY <1>1, <1>2, <1>4, <1>5, <1>6, <1>7, OthersRest DEF ProvisionInv, Typed

LEMMA CheckPrivStep == ASSUME ProvisionInv, NEW i \in Instances, CheckPriv(i) PROVE ProvisionInv'
<1> DEFINE stage == IF priv[Cur(i)] = None THEN "probe" ELSE "reconcile"
<1>0. DiskTyped /\ MemTyped /\ StageOf(i) /\ None \notin [seed : Nat, mk : Nat]
    BY ProvisioningAssumption DEF ProvisionInv, Typed, StagesInv
<1>1. /\ pc[i] = "check" /\ pc' = [pc EXCEPT ![i] = stage] /\ Goto(i, stage)
      /\ UNCHANGED <<lock, env, mk, priv, pub, imk, made, keys, drawn, stops, losses>>
      /\ \/ /\ priv[Cur(i)] # None /\ priv[Cur(i)].mk = imk[i]
            /\ seed' = [seed EXCEPT ![i] = priv[Cur(i)].seed]
         \/ priv[Cur(i)] = None /\ seed' = seed
    BY DEF CheckPriv, Goto, diskVars, boundVars
<1>2. DiskTyped'
    BY <1>0, <1>1 DEF DiskTyped
<1>3. stage \in Stages /\ stage \in AtPairs /\ stage \in {"probe", "reconcile"}
    BY DEF Stages, AtPairs
<1>4. Cur(i) \in Pairs /\ Cur(i)' = Cur(i) /\ imk[i] # 0
  <2>1. Len(made[i]) \in 0 .. 2 /\ imk[i] # 0
      BY <1>0, <1>1, ZenonT(30) DEF MemTyped, AtPairs
  <2>2. Len(made[i]) < 2 /\ made' = made
      BY <1>0, <1>1, ZenonT(30) DEF StageOf, AtPairs
  <2> QED
      BY <2>1, <2>2, PairsInOrder, ZenonT(30) DEF Cur, Pairs
<1>5. /\ priv[Cur(i)] = None => seed' = seed
      /\ priv[Cur(i)] # None => /\ priv[Cur(i)] \in [seed : 1 .. MaxDraws, mk : 1 .. MaxDraws]
                                /\ priv[Cur(i)].mk = imk[i]
                                /\ seed' = [seed EXCEPT ![i] = priv[Cur(i)].seed]
    BY <1>0, <1>1, <1>4 DEF DiskTyped
<1>6. /\ seed' \in [Instances -> 0 .. MaxDraws]
      /\ priv[Cur(i)] # None => seed'[i] = priv[Cur(i)].seed /\ seed'[i] # 0
  <2>1. MaxDraws \in Nat /\ seed \in [Instances -> 0 .. MaxDraws]
      BY <1>0, ProvisioningAssumption DEF MemTyped
  <2>2. CASE priv[Cur(i)] = None
      BY <1>5, <2>1, <2>2
  <2>3. CASE priv[Cur(i)] # None
    <3>1. PICK s \in 1 .. MaxDraws : s = priv[Cur(i)].seed /\ seed' = [seed EXCEPT ![i] = s]
        BY <1>5, <2>3
    <3>2. s \in 0 .. MaxDraws /\ s # 0
        BY <2>1, <3>1
    <3>3. seed' \in [Instances -> 0 .. MaxDraws] /\ seed'[i] = s
        BY <2>1, <3>1, <3>2
    <3> QED
        BY <3>1, <3>2, <3>3
  <2> QED
      BY <2>2, <2>3
<1>7. stage = "reconcile" => priv[Cur(i)] # None
    OBVIOUS
<1>8. stage = "probe" => priv[Cur(i)] = None
    OBVIOUS
<1> HIDE DEF stage
<1>9. MemTyped'
  <2>1. /\ imk' \in [Instances -> 0 .. MaxDraws] /\ made' \in [Instances -> Seq(Nat)]
        /\ keys' \in [Instances -> Seq(Nat)] /\ imk'[i] # 0
        /\ Len(made'[i]) \in 0 .. 2 /\ Len(keys'[i]) \in {0, 2}
        /\ \A j \in Instances : j # i =>
               imk'[j] = imk[j] /\ made'[j] = made[j] /\ keys'[j] = keys[j]
      BY <1>0, <1>1, <1>4, ZenonT(30) DEF MemTyped
  <2> QED
      BY <1>0, <1>1, <1>3, <1>6, <2>1, MemStep, ZenonT(30)
<1>10. (\A j \in Instances : j # i => pc'[j] = "down" /\ pc[j] = "down") /\ pc'[i] = stage
    BY <1>1, OthersDown, ZenonT(30)
<1>11. StageOf(i)'
  <2>1. pc'[i] \in {"probe", "reconcile"} /\ Len(made'[i]) < 2
      BY <1>0, <1>1, <1>3, <1>10, ZenonT(30) DEF StageOf, AtPairs
  <2> QED
      BY <1>0, <1>1, <1>4, <1>6, <1>7, <1>8, <1>10, <2>1, ZenonT(30) DEF StageOf, AtPairs
<1>12. ASSUME CacheLossOnly' PROVE Wrapped' /\ HoldsSeeds(i)' /\ Answers(i)'
  <2>1. Wrapped /\ HoldsSeeds(i) /\ Wrapped' /\ Answers(i)'
      BY <1>1, <1>12, SealsKept, Zenon
  <2>2. /\ imk'[i] = mk'
        /\ \A k \in 1 .. Len(made'[i]) : priv'[k] = [seed |-> made'[i][k], mk |-> mk']
      BY <1>1, <2>1, ZenonT(30) DEF HoldsSeeds, AtPairs
  <2>3. pc'[i] = "reconcile" => priv'[Cur(i)'] = [seed |-> seed'[i], mk |-> mk']
      BY <1>1, <1>4, <1>5, <1>6, <1>7, <1>10, <2>1, ZenonT(30) DEF Wrapped
  <2>4. pc'[i] # "publish"
      BY <1>3, <1>10
  <2> QED
      BY <2>1, <2>2, <2>3, <2>4 DEF HoldsSeeds
<1> QED
    BY <1>1, <1>2, <1>9, <1>10, <1>11, <1>12, OthersRest DEF ProvisionInv, Typed

LEMMA ProbeStep == ASSUME ProvisionInv, NEW i \in Instances, Probe(i) PROVE ProvisionInv'
<1>0. DiskTyped /\ MemTyped /\ StageOf(i)
    BY DEF ProvisionInv, Typed, StagesInv
<1>1. /\ pc[i] = "probe" /\ pc' = [pc EXCEPT ![i] = "save"] /\ Goto(i, "save")
      /\ pub[Cur(i)] = 0 /\ drawn < MaxDraws /\ drawn' = drawn + 1
      /\ seed' = [seed EXCEPT ![i] = drawn + 1]
      /\ UNCHANGED <<lock, env, mk, priv, pub, imk, made, keys, stops, losses>>
    BY DEF Probe, Goto, diskVars
<1>2. DiskTyped' /\ drawn + 1 \in 1 .. MaxDraws
    BY <1>0, <1>1, ProvisioningAssumption DEF DiskTyped
<1>3. /\ seed' \in [Instances -> 0 .. MaxDraws] /\ seed'[i] # 0
      /\ imk' \in [Instances -> 0 .. MaxDraws] /\ made' \in [Instances -> Seq(Nat)]
      /\ keys' \in [Instances -> Seq(Nat)] /\ imk'[i] # 0
      /\ Len(made'[i]) \in 0 .. 2 /\ Len(keys'[i]) \in {0, 2}
      /\ \A j \in Instances : j # i =>
             imk'[j] = imk[j] /\ made'[j] = made[j] /\ keys'[j] = keys[j]
    BY <1>0, <1>1, <1>2 DEF MemTyped, AtPairs
<1>4. MemTyped'
  <2>1. "save" \in Stages
      BY DEF Stages
  <2> QED
      BY <1>0, <1>1, <1>3, <2>1, MemStep, ZenonT(30)
<1>5. (\A j \in Instances : j # i => pc'[j] = "down" /\ pc[j] = "down") /\ pc'[i] = "save"
    BY <1>1, OthersDown, ZenonT(30)
<1>6. StageOf(i)'
    BY <1>0, <1>1, <1>3, <1>5 DEF StageOf, AtPairs, Cur
<1>7. ASSUME CacheLossOnly' PROVE Wrapped' /\ HoldsSeeds(i)' /\ Answers(i)'
  <2>1. HoldsSeeds(i) /\ Wrapped' /\ Answers(i)'
      BY <1>1, <1>7, SealsKept, Zenon
  <2>2. HoldsSeeds(i)'
      BY <1>1, <1>5, <2>1 DEF HoldsSeeds, AtPairs
  <2> QED
      BY <2>1, <2>2
<1> QED
    BY <1>1, <1>2, <1>4, <1>5, <1>6, <1>7, OthersRest DEF ProvisionInv, Typed

LEMMA SaveStep == ASSUME ProvisionInv, NEW i \in Instances, Save(i) PROVE ProvisionInv'
<1> DEFINE file == [seed |-> seed[i], mk |-> imk[i]]
<1>0. DiskTyped /\ MemTyped /\ StageOf(i) /\ None \notin [seed : Nat, mk : Nat]
    BY ProvisioningAssumption DEF ProvisionInv, Typed, StagesInv
<1>1. /\ pc[i] = "save" /\ pc' = [pc EXCEPT ![i] = "publish"] /\ Goto(i, "publish")
      /\ priv' = [priv EXCEPT ![Cur(i)] = file]
      /\ UNCHANGED <<lock, env, mk, pub, imk, seed, made, keys, drawn, stops, losses>>
    BY DEF Save, Goto, boundVars
<1>2. /\ Cur(i) \in Pairs /\ imk[i] # 0 /\ seed[i] # 0 /\ Len(made[i]) \in 0 .. 1
      /\ priv[Cur(i)] = None
  <2>1. imk[i] # 0 /\ Len(made[i]) \in 0 .. 2
      BY <1>0, <1>1, ZenonT(30) DEF MemTyped, AtPairs
  <2>2. Len(made[i]) < 2 /\ seed[i] # 0 /\ priv[Cur(i)] = None
      BY <1>0, <1>1, ZenonT(30) DEF StageOf, AtPairs
  <2>3. Len(made[i]) \in 0 .. 1
      BY <2>1, <2>2, PairsInOrder, ZenonT(30)
  <2> QED
      BY <2>1, <2>2, <2>3, PairsInOrder, ZenonT(30) DEF Cur, Pairs
<1>3. file \in [seed : 1 .. MaxDraws, mk : 1 .. MaxDraws]
    BY <1>0, <1>2, ProvisioningAssumption DEF MemTyped
<1> HIDE DEF file
<1>4. /\ priv' \in [Pairs -> [seed : 1 .. MaxDraws, mk : 1 .. MaxDraws] \cup {None}]
      /\ priv'[Cur(i)] = file /\ \A k \in Pairs : k # Cur(i) => priv'[k] = priv[k]
    BY <1>0, <1>1, <1>2, <1>3 DEF DiskTyped
<1>5. DiskTyped'
    BY <1>0, <1>1, <1>4 DEF DiskTyped
<1>6. MemTyped'
  <2>1. "publish" \in Stages
      BY DEF Stages
  <2> QED
      BY <1>0, <1>1, <1>2, <2>1, GoesOn, ZenonT(30)
<1>7. (\A j \in Instances : j # i => pc'[j] = "down" /\ pc[j] = "down") /\ pc'[i] = "publish"
    BY <1>1, OthersDown, ZenonT(30)
<1>8. StageOf(i)'
    BY <1>0, <1>1, <1>2, <1>7 DEF StageOf, AtPairs
<1>9. ASSUME CacheLossOnly' PROVE Wrapped' /\ HoldsSeeds(i)' /\ Answers(i)'
  <2>1. CacheLossOnly
      BY <1>1, <1>9 DEF CacheLossOnly
  <2>2. Wrapped /\ HoldsSeeds(i) /\ Answers(i)
      BY <2>1 DEF ProvisionInv, SealsInv
  <2>3. imk[i] = mk /\ \A k \in 1 .. Len(made[i]) : priv[k] = [seed |-> made[i][k], mk |-> mk]
      BY <1>1, <2>2, ZenonT(30) DEF HoldsSeeds, AtPairs
  <2>4. file.mk = mk /\ file = [seed |-> seed[i], mk |-> mk]
      BY <2>3, ZenonT(30) DEF file
  <2>5. Wrapped'
      BY <1>1, <1>4, <2>2, <2>4, ZenonT(30) DEF Wrapped
  <2>6. \A k \in 1 .. Len(made[i]) : k \in Pairs /\ k # Cur(i)
      BY <1>2, PairsInOrder, ZenonT(30) DEF Cur, Pairs
  <2>7. HoldsSeeds(i)'
    <3>1. Cur(i)' = Cur(i)
        BY <1>1 DEF Cur
    <3> QED
        BY <1>1, <1>4, <2>3, <2>4, <2>6, <3>1, ZenonT(30) DEF HoldsSeeds
  <2>8. Answers(i)'
    <3>1. ~ Live(i)
      <4> SUFFICES ASSUME Live(i) PROVE FALSE
          OBVIOUS
      <4>1. keys[i] \in Seq(Nat) /\ Len(keys[i]) \in {0, 2} /\ keys[i] # << >>
          BY <1>0, ZenonT(30) DEF MemTyped, Live
      <4>2. keys[i][Cur(i)] \in Nat
          BY <1>2, <4>1 DEF Pairs
      <4>3. mk \in Nat
          BY <1>0, ProvisioningAssumption DEF DiskTyped
      <4>4. priv[Cur(i)] = [seed |-> keys[i][Cur(i)], mk |-> mk]
          BY <1>2, <2>2, ZenonT(30) DEF Answers
      <4>5. [seed |-> keys[i][Cur(i)], mk |-> mk] \in [seed : Nat, mk : Nat]
          BY <4>2, <4>3, ZenonT(30)
      <4> QED
          BY <1>0, <1>2, <4>4, <4>5, ZenonT(30)
    <3> QED
        BY <1>1, <3>1, ZenonT(30) DEF Answers, Live
  <2> QED
      BY <2>5, <2>7, <2>8, ZenonT(30)
<1> QED
    BY <1>1, <1>5, <1>6, <1>7, <1>8, <1>9, OthersRest, ZenonT(30) DEF ProvisionInv, Typed

\* Reconcile and Publish end a pair with its seed on disk and its public key made.
LEMMA DoneStep ==
    ASSUME ProvisionInv, NEW i \in Instances, pc[i] \in {"reconcile", "publish"}, Done(i),
           UNCHANGED <<lock, env, mk, priv, imk, seed, drawn, stops, losses>>, DiskTyped'
    PROVE  ProvisionInv'
<1> DEFINE pks == Append(made[i], seed[i])
           stage == IF Len(pks) = 2 THEN "up" ELSE "check"
<1>0. DiskTyped /\ MemTyped /\ StageOf(i)
    BY DEF ProvisionInv, Typed, StagesInv
<1>1. /\ made[i] \in Seq(Nat) /\ Len(made[i]) \in 0 .. 1 /\ seed[i] \in Nat /\ imk[i] # 0
      /\ pc[i] \in AtPairs /\ pc[i] # "down"
  <2>1. /\ made[i] \in Seq(Nat) /\ Len(made[i]) \in 0 .. 2 /\ seed[i] \in Nat
        /\ pc[i] \in AtPairs /\ imk[i] # 0 /\ pc[i] # "down"
      BY <1>0, ProvisioningAssumption DEF MemTyped, AtPairs
  <2>2. Len(made[i]) < 2
      BY <1>0, <2>1 DEF StageOf
  <2>3. \A n \in 0 .. 2 : n < 2 => n \in 0 .. 1
      OBVIOUS
  <2> QED
      BY <2>1, <2>2, <2>3, ZenonT(30)
<1>2. /\ pks \in Seq(Nat) /\ Len(pks) = Cur(i) /\ Cur(i) \in Pairs /\ pks[Cur(i)] = seed[i]
      /\ \A k \in 1 .. Len(made[i]) : pks[k] = made[i][k]
  <2>1. \A m \in Seq(Nat), x \in Nat :
            /\ Append(m, x) \in Seq(Nat) /\ Len(Append(m, x)) = Len(m) + 1
            /\ Append(m, x)[Len(m) + 1] = x
            /\ \A k \in 1 .. Len(m) : Append(m, x)[k] = m[k]
      OBVIOUS
  <2>2. \A n \in 0 .. 1 : n + 1 \in 1 .. 2
      OBVIOUS
  <2> QED
      BY <1>1, <2>1, <2>2, ZenonT(30) DEF Cur, Pairs
<1>3. /\ pc' = [pc EXCEPT ![i] = stage] /\ Goto(i, stage) /\ made' = [made EXCEPT ![i] = pks]
      /\ \/ Len(pks) = 2 /\ stage = "up" /\ keys' = [keys EXCEPT ![i] = pks]
         \/ Len(pks) # 2 /\ stage = "check" /\ keys' = keys
    BY DEF Done, Goto
<1>4. stage \in Stages /\ stage \in {"up", "check"}
    BY DEF Stages
<1>5. pks # << >>
    BY <1>1
<1> HIDE DEF pks, stage
<1>6. /\ made' \in [Instances -> Seq(Nat)] /\ made'[i] = pks /\ Len(made'[i]) \in 0 .. 2
      /\ \A j \in Instances : j # i => made'[j] = made[j]
  <2>1. made \in [Instances -> Seq(Nat)]
      BY <1>0 DEF MemTyped
  <2>2. made' \in [Instances -> Seq(Nat)] /\ made'[i] = pks
        /\ \A j \in Instances : j # i => made'[j] = made[j]
      BY <1>2, <1>3, <2>1, ZenonT(30)
  <2>3. Len(pks) \in 0 .. 2
      BY <1>2, PairsInOrder, ZenonT(30) DEF Pairs
  <2> QED
      BY <2>2, <2>3, ZenonT(30)
<1>7. /\ keys' \in [Instances -> Seq(Nat)]
      /\ \A j \in Instances : j # i => keys'[j] = keys[j]
      /\ stage = "up" => keys'[i] = pks /\ Len(pks) = 2
      /\ stage = "check" => keys'[i] = keys[i] /\ Len(pks) # 2
  <2>1. keys \in [Instances -> Seq(Nat)]
      BY <1>0 DEF MemTyped
  <2> QED
      BY <1>2, <1>3, <2>1, ZenonT(30)
<1>8. Len(keys'[i]) \in {0, 2}
  <2>1. Len(keys[i]) \in {0, 2}
      BY <1>0 DEF MemTyped
  <2> QED
      BY <1>4, <1>7, <2>1
<1>9. MemTyped'
  <2>1. /\ imk' \in [Instances -> 0 .. MaxDraws] /\ seed' \in [Instances -> 0 .. MaxDraws]
        /\ imk'[i] # 0 /\ \A j \in Instances : j # i => imk'[j] = imk[j]
      BY <1>0, <1>1, ZenonT(30) DEF MemTyped
  <2> QED
      BY <1>0, <1>3, <1>4, <1>6, <1>7, <1>8, <2>1, MemStep, ZenonT(30)
<1>10. (\A j \in Instances : j # i => pc'[j] = "down" /\ pc[j] = "down") /\ pc'[i] = stage
    BY <1>1, <1>3, OthersDown
<1>11. StageOf(i)'
  <2>1. i \in env'.users /\ (env'.locks => lock' = i)
      BY <1>0, <1>1, ZenonT(30) DEF StageOf
  <2>2. CASE stage = "up"
      BY <1>5, <1>7, <1>10, <2>1, <2>2, ZenonT(30) DEF StageOf, AtPairs
  <2>3. CASE stage = "check"
    <3>1. Len(made'[i]) < 2
        BY <1>6, <1>7, <2>3, PairsInOrder, ZenonT(30)
    <3> QED
        BY <1>10, <2>1, <2>3, <3>1, ZenonT(30) DEF StageOf
  <2> QED
      BY <1>4, <2>2, <2>3, ZenonT(30)
<1>12. ASSUME CacheLossOnly' PROVE Wrapped' /\ HoldsSeeds(i)' /\ Answers(i)'
  <2>1. /\ HoldsSeeds(i) /\ Wrapped'
        /\ keys'[i] \in {keys[i], << >>} => Answers(i)'
      BY <1>12, SealsKept, Zenon
  <2>2. /\ imk[i] = mk /\ priv[Cur(i)] = [seed |-> seed[i], mk |-> mk]
        /\ \A k \in 1 .. Len(made[i]) : priv[k] = [seed |-> made[i][k], mk |-> mk]
      BY <1>1, <2>1, ZenonT(30) DEF HoldsSeeds
  <2>3. \A k \in 1 .. Len(pks) : k = Cur(i) \/ k \in 1 .. Len(made[i])
      BY <1>1, <1>2, PairsInOrder, ZenonT(30) DEF Cur
  <2>4. \A k \in 1 .. Len(pks) : priv[k] = [seed |-> pks[k], mk |-> mk]
      BY <1>2, <2>2, <2>3, ZenonT(30)
  <2>5. HoldsSeeds(i)'
    <3>1. pc'[i] \notin {"reconcile", "publish"}
        BY <1>4, <1>10
    <3> QED
        BY <1>6, <2>2, <2>4, <3>1, ZenonT(30) DEF HoldsSeeds
  <2>6. Answers(i)'
    <3>1. CASE stage = "up"
        BY <1>7, <2>4, <3>1, ZenonT(30) DEF Answers, Pairs
    <3>2. CASE stage = "check"
        BY <1>7, <2>1, <3>2, ZenonT(30)
    <3> QED
        BY <1>4, <3>1, <3>2
  <2> QED
      BY <2>1, <2>5, <2>6
<1> QED
    BY <1>7, <1>9, <1>10, <1>11, <1>12, OthersRest DEF ProvisionInv, Typed

LEMMA ReconcileStep == ASSUME ProvisionInv, NEW i \in Instances, Reconcile(i) PROVE ProvisionInv'
<1>0. DiskTyped /\ MemTyped /\ StageOf(i)
    BY DEF ProvisionInv, Typed, StagesInv
<1>1. /\ pc[i] = "reconcile"
      /\ UNCHANGED <<lock, env, mk, priv, pub, imk, seed, drawn, stops, losses>>
    BY ZenonT(30) DEF Reconcile, diskVars, boundVars
<1>2. DiskTyped'
    BY <1>0, <1>1 DEF DiskTyped
<1>3. CASE Done(i)
    BY <1>1, <1>2, <1>3, DoneStep, ZenonT(30)
<1>4. CASE ~ Done(i)
  <2>1. Goto(i, "publish") /\ UNCHANGED <<made, keys>>
      BY <1>4, ZenonT(30) DEF Reconcile
  <2>2. imk[i] # 0 /\ Len(made[i]) < 2 /\ seed[i] # 0
      BY <1>0, <1>1 DEF MemTyped, StageOf, AtPairs
  <2>3. MemTyped'
    <3>1. "publish" \in Stages /\ pc' = [pc EXCEPT ![i] = "publish"]
        BY <2>1, ZenonT(30) DEF Stages, Goto
    <3> QED
        BY <1>0, <1>1, <2>1, <2>2, <3>1, GoesOn, ZenonT(30)
  <2>4. (\A j \in Instances : j # i => pc'[j] = "down" /\ pc[j] = "down") /\ pc'[i] = "publish"
      BY <1>1, <2>1, OthersDown, ZenonT(30)
  <2>5. StageOf(i)'
      BY <1>0, <1>1, <2>1, <2>2, <2>4, ZenonT(30) DEF StageOf
  <2>6. ASSUME CacheLossOnly' PROVE Wrapped' /\ HoldsSeeds(i)' /\ Answers(i)'
    <3>1. HoldsSeeds(i) /\ Wrapped' /\ Answers(i)'
        BY <1>1, <2>1, <2>6, SealsKept, Zenon
    <3>2. HoldsSeeds(i)'
        BY <1>1, <2>1, <2>4, <3>1, ZenonT(30) DEF HoldsSeeds, AtPairs, Cur
    <3> QED
        BY <3>1, <3>2
  <2> QED
      BY <1>2, <2>1, <2>3, <2>4, <2>5, <2>6, OthersRest, ZenonT(30) DEF ProvisionInv, Typed
<1> QED
    BY <1>3, <1>4, ZenonT(30)

LEMMA PublishStep == ASSUME ProvisionInv, NEW i \in Instances, Publish(i) PROVE ProvisionInv'
<1>1. /\ pc[i] = "publish" /\ Done(i) /\ pub' = [pub EXCEPT ![Cur(i)] = seed[i]]
      /\ UNCHANGED <<lock, env, mk, priv, imk, seed, drawn, stops, losses>>
    BY ZenonT(30) DEF Publish, boundVars
<1>2. seed[i] \in 0 .. Wrong
    BY ProvisioningAssumption DEF ProvisionInv, Typed, MemTyped, Wrong
<1>3. DiskTyped'
    BY <1>1, <1>2, ZenonT(30) DEF ProvisionInv, Typed, DiskTyped
<1> QED
    BY <1>1, <1>3, DoneStep, ZenonT(30)

\* However a start or a reload ends, the instance is up with its old keys or gone.
LEMMA EndStep ==
    ASSUME ProvisionInv, NEW i \in Instances, pc[i] # "down", End(i) \/ GiveUp(i),
           UNCHANGED <<env, mk, priv, imk, seed, made>>,
           lock' \in {lock, None} => DiskTyped'
    PROVE  ProvisionInv'
<1> DEFINE stage == pc'[i]
<1>0. DiskTyped /\ MemTyped /\ StageOf(i)
    BY DEF ProvisionInv, Typed, StagesInv
<1>1. \/ /\ Live(i) /\ Goto(i, "up") /\ lock' = lock /\ keys' = keys
      \/ /\ Goto(i, "down") /\ lock' \in {lock, None} /\ keys' = [keys EXCEPT ![i] = << >>]
    BY ZenonT(30) DEF GiveUp, End
<1>2. /\ \A j \in Instances : j # i => pc'[j] = "down" /\ pc[j] = "down"
      /\ \/ pc'[i] = "up" /\ Live(i) /\ lock' = lock /\ keys' = keys
         \/ pc'[i] = "down" /\ lock' \in {lock, None} /\ keys' = [keys EXCEPT ![i] = << >>]
      /\ pc' = [pc EXCEPT ![i] = stage]
  <2>1. CASE Goto(i, "up") /\ Live(i) /\ lock' = lock /\ keys' = keys
    <3>1. (\A j \in Instances : j # i => pc'[j] = "down" /\ pc[j] = "down") /\ pc'[i] = "up"
        BY <2>1, OthersDown
    <3> QED
        BY <2>1, <3>1, ZenonT(30) DEF Goto
  <2>2. CASE Goto(i, "down") /\ lock' \in {lock, None} /\ keys' = [keys EXCEPT ![i] = << >>]
    <3>1. (\A j \in Instances : j # i => pc'[j] = "down" /\ pc[j] = "down") /\ pc'[i] = "down"
        BY <2>2, OthersDown
    <3> QED
        BY <2>2, <3>1, ZenonT(30) DEF Goto
  <2> QED
      BY <1>1, <2>1, <2>2
<1>3. DiskTyped'
    BY <1>2
<1>4. stage \in Stages /\ stage \notin AtPairs
    BY <1>2 DEF Stages, AtPairs
<1>5. keys \in [Instances -> Seq(Nat)] /\ Len(keys[i]) \in {0, 2}
    BY <1>0 DEF MemTyped
<1>6. /\ keys' \in [Instances -> Seq(Nat)] /\ Len(keys'[i]) \in {0, 2}
      /\ \A j \in Instances : j # i => keys'[j] = keys[j]
      /\ \/ pc'[i] = "up" /\ keys'[i] = keys[i] /\ keys[i] # << >> /\ lock' = lock
         \/ pc'[i] = "down" /\ keys'[i] = << >>
  <2>1. CASE keys' = keys /\ pc'[i] = "up" /\ Live(i) /\ lock' = lock
      BY <1>5, <2>1 DEF Live
  <2>2. CASE pc'[i] = "down" /\ keys' = [keys EXCEPT ![i] = << >>]
      BY <1>5, <2>2
  <2> QED
      BY <1>2, <2>1, <2>2, ZenonT(30)
<1> HIDE DEF stage
<1>7. MemTyped'
  <2>1. /\ imk' \in [Instances -> 0 .. MaxDraws] /\ seed' \in [Instances -> 0 .. MaxDraws]
        /\ made' \in [Instances -> Seq(Nat)] /\ Len(made'[i]) \in 0 .. 2
        /\ \A j \in Instances : j # i => imk'[j] = imk[j] /\ made'[j] = made[j]
      BY <1>0, ZenonT(30) DEF MemTyped
  <2> QED
      BY <1>0, <1>2, <1>4, <1>6, <2>1, MemStep, ZenonT(30)
<1>8. StageOf(i)'
    BY <1>0, <1>6 DEF StageOf, AtPairs
<1>9. ASSUME CacheLossOnly' PROVE Wrapped' /\ HoldsSeeds(i)' /\ Answers(i)'
  <2>1. Wrapped' /\ Answers(i)'
      BY <1>6, <1>9, SealsKept, Zenon
  <2>2. HoldsSeeds(i)'
      BY <1>6 DEF HoldsSeeds, AtPairs
  <2> QED
      BY <2>1, <2>2
<1> QED
    BY <1>2, <1>3, <1>6, <1>7, <1>8, <1>9, OthersRest, ZenonT(30) DEF ProvisionInv, Typed

LEMMA StopsStep ==
    ASSUME ProvisionInv, NEW i \in Instances, Refuse(i) \/ IoError(i) \/ Stop(i)
    PROVE  ProvisionInv'
<1>0. DiskTyped /\ seed[i] \in 0 .. Wrong
    BY ProvisioningAssumption DEF ProvisionInv, Typed, MemTyped, Wrong
<1>1. CASE Refuse(i)
  <2>1. /\ pc[i] # "down" /\ GiveUp(i)
        /\ UNCHANGED <<env, mk, priv, pub, imk, seed, made, drawn, stops, losses>>
      BY <1>1, ZenonT(30) DEF Refuse, diskVars, boundVars
  <2>2. lock' \in {lock, None} => DiskTyped'
      BY <1>0, <2>1, ZenonT(30) DEF DiskTyped
  <2> QED
      BY <2>1, <2>2, EndStep, ZenonT(30)
<1>2. CASE IoError(i)
  <2>1. /\ pc[i] # "down" /\ GiveUp(i) /\ stops < MaxStops /\ stops' = stops + 1
        /\ UNCHANGED <<env, mk, priv, imk, seed, made, drawn, losses>>
        /\ pub' \in {pub, [pub EXCEPT ![Cur(i)] = seed[i]]}
      BY <1>2, ZenonT(30) DEF IoError, CanStop
  <2>2. stops' \in 0 .. MaxStops
    <3>1. stops \in 0 .. MaxStops
        BY <1>0, ZenonT(30) DEF DiskTyped
    <3>2. stops < MaxStops /\ stops' = stops + 1
        BY <2>1, ZenonT(30)
    <3> QED
        BY <3>1, <3>2, ProvisioningAssumption
  <2>3. pub' \in [Pairs -> 0 .. Wrong]
    <3>1. pub \in [Pairs -> 0 .. Wrong] /\ seed[i] \in 0 .. Wrong
        BY <1>0, ZenonT(30) DEF DiskTyped
    <3>2. pub' = pub \/ pub' = [pub EXCEPT ![Cur(i)] = seed[i]]
        BY <2>1, ZenonT(30)
    <3> QED
        BY <3>1, <3>2
  <2>4. lock' \in {lock, None} => DiskTyped'
      BY <1>0, <2>1, <2>2, <2>3 DEF DiskTyped
  <2> QED
      BY <2>1, <2>4, EndStep, ZenonT(30)
<1>3. CASE Stop(i)
  <2>1. /\ pc[i] # "down" /\ End(i) /\ stops < MaxStops /\ stops' = stops + 1
        /\ UNCHANGED <<env, mk, priv, pub, imk, seed, made, drawn, losses>>
      BY <1>3, ZenonT(30) DEF Stop, CanStop, diskVars
  <2>2. stops' \in 0 .. MaxStops
      BY <1>0, <2>1, ProvisioningAssumption DEF DiskTyped
  <2>3. lock' \in {lock, None} => DiskTyped'
      BY <1>0, <2>1, <2>2 DEF DiskTyped
  <2> QED
      BY <2>1, <2>3, EndStep, ZenonT(30)
<1> QED
    BY <1>1, <1>2, <1>3

LEMMA HarmStep == ASSUME ProvisionInv, Harm PROVE ProvisionInv'
<1>0. DiskTyped /\ MemTyped /\ StagesInv /\ MaxDraws \in Nat /\ MaxLosses \in Nat
    BY ProvisioningAssumption DEF ProvisionInv, Typed
<1>1. /\ losses < MaxLosses /\ losses' = losses + 1
      /\ UNCHANGED <<env, lock, pc, imk, seed, made, keys, drawn, stops>>
      /\ mk' \in {mk, 0} /\ (CacheLossOnly => mk' = mk /\ priv' = priv)
      /\ \/ pub' = pub
         \/ \E k \in Pairs : pub[k] # 0 /\ pub' = [pub EXCEPT ![k] = 0]
         \/ \E k \in Pairs : pub[k] # 0 /\ pub' = [pub EXCEPT ![k] = Wrong]
      /\ \/ priv' = priv
         \/ \E k \in Pairs : priv' = [priv EXCEPT ![k] = None]
    BY DEF Harm, procVars, CacheLossOnly
<1>2. losses' \in 0 .. MaxLosses /\ Wrong \in 0 .. Wrong /\ 0 \in 0 .. Wrong /\ mk' \in 0 .. MaxDraws
    BY <1>0, <1>1 DEF DiskTyped, Wrong
<1>3. /\ pub' \in [Pairs -> 0 .. Wrong]
      /\ \A k \in Pairs : pub[k] = 0 => pub'[k] = 0
  <2>1. pub \in [Pairs -> 0 .. Wrong]
      BY <1>0 DEF DiskTyped
  <2>2. CASE pub' = pub
      BY <2>1, <2>2
  <2>3. ASSUME NEW k \in Pairs, NEW v \in 0 .. Wrong, pub[k] # 0, pub' = [pub EXCEPT ![k] = v]
        PROVE  pub' \in [Pairs -> 0 .. Wrong] /\ \A h \in Pairs : pub[h] = 0 => pub'[h] = 0
      BY <2>1, <2>3
  <2> QED
      BY <1>1, <1>2, <2>2, <2>3
<1>4. /\ priv' \in [Pairs -> [seed : 1 .. MaxDraws, mk : 1 .. MaxDraws] \cup {None}]
      /\ \A k \in Pairs : priv[k] = None => priv'[k] = None
    BY <1>0, <1>1, ZenonT(30) DEF DiskTyped
<1>5. DiskTyped'
    BY <1>0, <1>1, <1>2, <1>3, <1>4, ZenonT(30) DEF DiskTyped
<1>6. MemTyped'
    BY <1>0, <1>1, ZenonT(30) DEF MemTyped
<1>7. ASSUME NEW i \in Instances PROVE StageOf(i)'
  <2>1. StageOf(i) /\ Cur(i)' = Cur(i)
      BY <1>0, <1>1 DEF StagesInv, Cur
  <2>2. pc[i] \in AtPairs => Cur(i) \in Pairs
    <3>1. pc[i] \in AtPairs => Len(made[i]) \in 0 .. 2 /\ Len(made[i]) < 2
        BY <1>0, <2>1, ZenonT(30) DEF StageOf, MemTyped
    <3> QED
        BY <3>1 DEF Cur, Pairs
  <2>3. pc[i] \in {"probe", "save"} => priv'[Cur(i)] = None
      BY <1>4, <2>1, <2>2, ZenonT(30) DEF StageOf, AtPairs
  <2>4. pc[i] = "save" => pub'[Cur(i)] = 0
      BY <1>3, <2>1, <2>2, ZenonT(30) DEF StageOf, AtPairs
  <2>5. pc[i] = "store" => mk' = 0
      BY <1>1, <2>1, ZenonT(30) DEF StageOf
  <2> QED
      BY <1>1, <2>1, <2>3, <2>4, <2>5 DEF StageOf
<1>8. SealsInv'
  <2>1. CacheLossOnly' => CacheLossOnly
      BY <1>1 DEF CacheLossOnly
  <2>2. SealsInv
      BY DEF ProvisionInv
  <2>3. ASSUME CacheLossOnly' PROVE Wrapped' /\ \A i \in Instances : HoldsSeeds(i)' /\ Answers(i)'
    <3>1. /\ mk' = mk /\ priv' = priv /\ pc' = pc /\ imk' = imk /\ seed' = seed /\ made' = made
          /\ keys' = keys /\ Wrapped /\ \A i \in Instances : HoldsSeeds(i) /\ Answers(i)
        BY <1>1, <2>1, <2>2, <2>3, ZenonT(30) DEF SealsInv
    <3>2. Wrapped'
        BY <3>1, ZenonT(30) DEF Wrapped
    <3>3. ASSUME NEW i \in Instances PROVE HoldsSeeds(i)' /\ Answers(i)'
        BY <3>1, ZenonT(30) DEF HoldsSeeds, Answers, Live, Cur
    <3> QED
        BY <3>2, <3>3
  <2> QED
      BY <2>3 DEF SealsInv
<1> QED
    BY <1>5, <1>6, <1>7, <1>8 DEF ProvisionInv, Typed, StagesInv

LEMMA ProvisionNext == ProvisionInv /\ [Next]_vars => ProvisionInv'
<1> SUFFICES ASSUME ProvisionInv, [Next]_vars
             PROVE  ProvisionInv'
    OBVIOUS
<1>1. ASSUME NEW i \in Instances, Lock(i) \/ Work(i) \/ Reload(i) \/ IoError(i) \/ Stop(i)
      PROVE  ProvisionInv'
  <2>1. CASE Lock(i) \/ LoadMk(i) \/ StoreMk(i) \/ OpenStore(i) \/ Reload(i)
      BY <2>1, LockStep, LoadMkStep, StoreMkStep, BeginStep, ZenonT(30)
  <2>2. CASE CheckPriv(i) \/ Reconcile(i) \/ Probe(i) \/ Save(i) \/ Publish(i)
      BY <2>2, CheckPrivStep, ReconcileStep, ProbeStep, SaveStep, PublishStep, ZenonT(30)
  <2>3. CASE Refuse(i) \/ IoError(i) \/ Stop(i)
      BY <2>3, StopsStep, ZenonT(30)
  <2> QED
      BY <1>1, <2>1, <2>2, <2>3, ZenonT(30) DEF Work
<1>2. CASE UNCHANGED vars
  <2>1. UNCHANGED <<lock, env, mk, priv, pub, pc, imk, seed, made, keys, drawn, stops, losses>>
      BY <1>2, ZenonT(30) DEF vars, diskVars, procVars, boundVars
  <2>2. DiskTyped' /\ MemTyped'
      BY <2>1, ZenonT(30) DEF ProvisionInv, Typed, DiskTyped, MemTyped
  <2>3. StagesInv'
      BY <2>1, ZenonT(30) DEF ProvisionInv, StagesInv, StageOf, Cur
  <2>4. SealsInv'
      BY <2>1 DEF ProvisionInv, SealsInv, CacheLossOnly, Wrapped, HoldsSeeds, Answers, Live, Cur
  <2> QED
      BY <2>2, <2>3, <2>4 DEF ProvisionInv, Typed
<1> QED
    BY <1>1, <1>2, HarmStep, ZenonT(30) DEF Next

LEMMA ProvisionInvariant == Spec => []ProvisionInv
    BY ProvisionInit, ProvisionNext, PTL DEF Spec

\* Whatever instances start, reload, stop and however often, and whatever is lost
\* on disk, the files and the managers keep their types, and nobody is at work on
\* the signing pairs without a master key (start_with_config).
THEOREM ProvisioningTypes == Spec => []TypeOK
<1>1. ProvisionInv => TypeOK
    BY ZenonT(30) DEF ProvisionInv, Typed, DiskTyped, MemTyped, TypeOK
<1> QED
    BY <1>1, ProvisionInvariant, PTL

\* While only public cache files get lost, a manager that is up answers with the
\* public keys of the seeds on disk, and they are wrapped under the provider's
\* master key (start_with_config, ensure_seed_keypair, reload_public_keys).
THEOREM PublicKeysMatchSeeds == Spec => []KeysMatchStore
<1>1. ProvisionInv => KeysMatchStore
    BY DEF ProvisionInv, SealsInv, Answers, KeysMatchStore
<1> QED
    BY <1>1, ProvisionInvariant, PTL

\* No start, reload or crash replaces a store's master key or a seed; and a pair
\* that left a trace on disk is never made anew, whatever was lost or swapped
\* (start_with_config, ensure_seed_keypair, reconcile_public_cache).
THEOREM StoreIdentityKept == Spec => IdentityKept
<1> DEFINE Kept == /\ CacheLossOnly =>
                         /\ mk # 0 => mk' = mk
                         /\ \A k \in Pairs : priv[k] # None => priv'[k] = priv[k]
                   /\ \A k \in Pairs :
                         (priv[k] # None \/ pub[k] # 0) => priv'[k] \in {priv[k], None}
<1>1. ASSUME mk' = mk, priv' = priv
      PROVE  Kept
    BY <1>1
<1>2. ASSUME ProvisionInv, NEW i \in Instances, StoreMk(i)
      PROVE  Kept
  <2>1. mk = 0 /\ priv' = priv
      BY <1>2, ZenonT(30) DEF StoreMk, ProvisionInv, StagesInv, StageOf
  <2> QED
      BY <2>1, ZenonT(30)
<1>3. ASSUME ProvisionInv, NEW i \in Instances, Save(i)
      PROVE  Kept
  <2>1. mk' = mk /\ priv[Cur(i)] = None /\ pub[Cur(i)] = 0
      BY <1>3, ZenonT(30) DEF Save, ProvisionInv, StagesInv, StageOf
  <2>2. \A k \in Pairs : k # Cur(i) => priv'[k] = priv[k]
      BY <1>3 DEF Save, ProvisionInv, Typed, DiskTyped
  <2> QED
      BY <2>1, <2>2, ZenonT(30)
<1>4. ASSUME ProvisionInv, Harm
      PROVE  Kept
  <2>1. /\ CacheLossOnly => mk' = mk /\ priv' = priv
        /\ priv' = priv \/ \E k \in Pairs : priv' = [priv EXCEPT ![k] = None]
      BY <1>4 DEF Harm, CacheLossOnly
  <2>2. DOMAIN priv = Pairs
      BY <1>4, ZenonT(30) DEF ProvisionInv, Typed, DiskTyped
  <2>3. \A k \in Pairs : priv'[k] \in {priv[k], None}
      BY <2>1, <2>2
  <2> QED
      BY <2>1, <2>3, ZenonT(30)
<1>5. ASSUME NEW i \in Instances,
             \/ Lock(i) \/ LoadMk(i) \/ OpenStore(i) \/ Reload(i) \/ CheckPriv(i)
             \/ Reconcile(i) \/ Probe(i) \/ Publish(i) \/ Refuse(i) \/ IoError(i) \/ Stop(i)
      PROVE  mk' = mk /\ priv' = priv
    BY <1>5, ZenonT(30) DEF Lock, LoadMk, OpenStore, Reload, CheckPriv, Reconcile, Probe,
                            Publish, Refuse, IoError, Stop, diskVars
<1> HIDE DEF Kept
<1>6. ProvisionInv /\ [Next]_vars => [Kept]_vars
    BY <1>1, <1>2, <1>3, <1>4, <1>5, ZenonT(30) DEF Next, Work
<1>7. Spec => [][Kept]_vars
    BY <1>6, ProvisionInvariant, PTL DEF Spec
<1> QED
    BY <1>7 DEF IdentityKept, Kept
=============================================================================
