------------------------ MODULE EphemeralStoreProofs ------------------------
(***************************************************************************)
(* Theorems about EphemeralStore, for any keys, callers and times to live. *)
(***************************************************************************)
EXTENDS EphemeralStore, TLAPS

\* Versions are drawn once: a heap entry is known by its version, and nothing
\* carries a version that has not been drawn.
VersionsUnique ==
    /\ \A g, h \in heap : g.ver = h.ver => g = h
    /\ \A h \in heap : h.ver < nextVersion
    /\ \A v \in taken : v < nextVersion

\* A call works with a time that has been.
ClockRead == \A c \in Callers : call[c] # None => call[c].now <= clock

StoreInv ==
    /\ TypeOK
    /\ EntryPlanned
    /\ WakesInTime
    /\ TakenIsGone
    /\ VersionsUnique
    /\ ClockRead

-----------------------------------------------------------------------------
\* What sweep_expired leaves behind.
LEMMA SweepFacts ==
    ASSUME TypeOK, EntryPlanned, NEW now \in Nat
    PROVE  /\ SweptHeap(now) \subseteq heap
           /\ SweptMap(now) \in [Keys -> Entry \cup {None}]
           /\ \A k \in Keys : SweptMap(now)[k] \in {map[k], None}
           /\ \A k \in Keys : SweptMap(now)[k] # None =>
                [exp |-> map[k].exp, ver |-> map[k].ver, key |-> k]
                  \in SweptHeap(now)
           /\ \A k \in Keys : SweptMap(now)[k] # map[k] => map[k].exp <= now
<1>1. /\ SweptHeap(now) \subseteq heap
      /\ SweptMap(now) \in [Keys -> Entry \cup {None}]
      /\ \A k \in Keys : SweptMap(now)[k] \in {map[k], None}
      /\ \A k \in Keys : SweptMap(now)[k] # map[k] => map[k].exp <= now
  BY DEF SweptHeap, SweptMap, TypeOK
<1>2. ASSUME NEW k \in Keys, SweptMap(now)[k] # None
      PROVE  [exp |-> map[k].exp, ver |-> map[k].ver, key |-> k] \in SweptHeap(now)
  <2>1. map[k] # None /\ map[k] \in Entry
    BY <1>1, <1>2 DEF TypeOK
  <2> DEFINE h == [exp |-> map[k].exp, ver |-> map[k].ver, key |-> k]
  <2>2. h \in heap
    BY <2>1 DEF EntryPlanned
  <2>3. map[k].exp > now
    <3> SUFFICES ASSUME ~(map[k].exp > now) PROVE FALSE
      OBVIOUS
    <3>1. h.exp <= now /\ h.key = k /\ map[k].ver = h.ver /\ map[k].exp <= now
      BY <2>1 DEF Entry
    <3> HIDE DEF h
    <3> QED BY <1>2, <2>1, <2>2, <3>1 DEF SweptMap
  <2> QED BY <2>2, <2>3 DEF SweptHeap
<1> QED BY <1>1, <1>2

LEMMA StoreInit == Init => StoreInv
<1> SUFFICES ASSUME Init PROVE StoreInv
  OBVIOUS
<1>1. TypeOK
  <2>1. Forever \in Nat
    BY StoreAssumption DEF Forever
  <2>2. 0 \in 0..MaxVersion /\ 0 \in 0..MaxTime
    BY StoreAssumption
  <2>3. map \in [Keys -> {None}] /\ call \in [Callers -> {None}]
    BY DEF Init
  <2> QED BY <2>1, <2>2, <2>3, ZenonT(30) DEF Init, TypeOK
<1>2. EntryPlanned /\ WakesInTime /\ TakenIsGone /\ VersionsUnique /\ ClockRead
  BY DEF Init, EntryPlanned, WakesInTime, TakenIsGone, VersionsUnique, ClockRead
<1> QED BY <1>1, <1>2 DEF StoreInv

\* The common part of the steps that change the map and the heap by a sweep.
LEMMA SweepKeeps ==
    ASSUME StoreInv, NEW now \in Nat, Sweep(now), UNCHANGED <<nextVersion, taken>>
    PROVE  /\ map' \in [Keys -> Entry \cup {None}]
           /\ heap' \subseteq HeapEntry
           /\ EntryPlanned' /\ TakenIsGone' /\ VersionsUnique'
           /\ heap' \subseteq heap
<1> USE DEF StoreInv
<1>1. /\ map' = SweptMap(now)
      /\ heap' = SweptHeap(now)
  BY DEF Sweep
<1>2. /\ map' \in [Keys -> Entry \cup {None}]
      /\ heap' \subseteq heap
  BY <1>1, SweepFacts
<1>3. EntryPlanned'
  BY <1>1, SweepFacts DEF EntryPlanned
<1>4. TakenIsGone'
  BY <1>1, SweepFacts DEF TakenIsGone
<1>5. VersionsUnique'
  BY <1>2 DEF VersionsUnique
<1> QED BY <1>2, <1>3, <1>4, <1>5 DEF TypeOK

\* The entry that set and set_if_absent add.
LEMMA InsertKeeps ==
    ASSUME StoreInv, NEW c \in Callers, NEW k \in Keys,
           call[c] # None, nextVersion # MaxVersion, Insert(c, k),
           UNCHANGED <<taken, spc, deadline>>
    PROVE  /\ map' \in [Keys -> Entry \cup {None}]
           /\ heap' \subseteq HeapEntry
           /\ nextVersion' \in 0..MaxVersion
           /\ notified' \in BOOLEAN
           /\ EntryPlanned' /\ TakenIsGone' /\ VersionsUnique' /\ WakesInTime'
<1> USE StoreAssumption DEF StoreInv
<1> DEFINE now == call[c].now
           e == [exp |-> call[c].exp, ver |-> nextVersion]
           h == [exp |-> call[c].exp, ver |-> nextVersion, key |-> k]
<1>1. now \in Nat /\ call[c].exp \in Nat /\ nextVersion \in Nat
  BY DEF TypeOK
<1>2. /\ map' = [SweptMap(now) EXCEPT ![k] = e]
      /\ heap' = SweptHeap(now) \cup {h}
      /\ nextVersion' = nextVersion + 1
      /\ notified' = (notified \/ spc = "waiting")
  BY DEF Insert, Notify
<1>3. e \in Entry /\ h \in HeapEntry
  BY <1>1 DEF Entry, HeapEntry
<1>4. /\ h.ver = nextVersion /\ h.exp = call[c].exp /\ h.key = k
      /\ e.ver = nextVersion /\ e.exp = call[c].exp
  OBVIOUS
<1> HIDE DEF now, e, h
<1>5. /\ SweptHeap(now) \subseteq heap
      /\ SweptMap(now) \in [Keys -> Entry \cup {None}]
      /\ \A j \in Keys : SweptMap(now)[j] \in {map[j], None}
      /\ \A j \in Keys : SweptMap(now)[j] # None =>
           [exp |-> map[j].exp, ver |-> map[j].ver, key |-> j] \in SweptHeap(now)
  BY <1>1, SweepFacts
<1>6. /\ map'[k] = e
      /\ \A j \in Keys : j # k => map'[j] = SweptMap(now)[j]
      /\ map' \in [Keys -> Entry \cup {None}]
  BY <1>2, <1>3, <1>5
<1>7. /\ heap' \subseteq HeapEntry
      /\ nextVersion' \in 0..MaxVersion
  BY <1>1, <1>2, <1>3, <1>5 DEF TypeOK
<1>8. EntryPlanned'
  <2>1. SUFFICES ASSUME NEW j \in Keys, map'[j] # None
                 PROVE  [exp |-> map'[j].exp, ver |-> map'[j].ver, key |-> j] \in heap'
    BY DEF EntryPlanned
  <2>2. CASE j = k
    BY <1>2, <1>4, <1>6, <2>2 DEF e, h
  <2>3. CASE j # k
    BY <1>2, <1>5, <1>6, <2>1, <2>3
  <2> QED BY <2>2, <2>3
<1>9. TakenIsGone'
  BY <1>1, <1>4, <1>5, <1>6 DEF TakenIsGone, VersionsUnique, TypeOK
<1>10. VersionsUnique'
  <2>1. \A g \in heap' : g = h \/ (g \in heap /\ g.ver < nextVersion)
    BY <1>2, <1>5 DEF VersionsUnique
  <2>2. \A g \in heap : g.ver \in Nat
    BY DEF TypeOK, HeapEntry
  <2> QED BY <1>1, <1>2, <1>4, <2>1, <2>2 DEF VersionsUnique, TypeOK
<1>11. WakesInTime' /\ notified' \in BOOLEAN
  BY <1>2, ZenonT(30) DEF WakesInTime, TypeOK
<1> QED BY <1>6, <1>7, <1>8, <1>9, <1>10, <1>11

LEMMA OperateKeeps ==
    ASSUME StoreInv, NEW c \in Callers, NEW k \in Keys, Operate(c, k)
    PROVE  StoreInv'
<1> USE StoreAssumption DEF StoreInv
<1>1. /\ call[c] # None /\ call[c].now \in Nat
      /\ Return(c)
      /\ UNCHANGED <<stop, clock, spc, deadline>>
  BY DEF Operate, Set, SetIfAbsent, Peek, Take, Del, Pending, sweeper, TypeOK
<1>2. /\ call' \in [Callers -> [op : Ops, key : Keys, now : Nat, exp : Nat] \cup {None}]
      /\ ClockRead'
  BY <1>1 DEF Return, TypeOK, ClockRead
<1>3. CASE SweepOnly(c) /\ UNCHANGED taken
  <2>1. Sweep(call[c].now) /\ UNCHANGED <<nextVersion, taken, notified>>
    BY <1>3 DEF SweepOnly
  <2>2. WakesInTime'
    BY <1>1, <2>1, SweepKeeps DEF WakesInTime
  <2> QED BY <1>1, <1>2, <2>1, <2>2, SweepKeeps DEF TypeOK
<1>4. CASE nextVersion # MaxVersion /\ Insert(c, k) /\ UNCHANGED taken
  BY <1>1, <1>2, <1>4, InsertKeeps DEF TypeOK
<1>5. CASE Peek(c, k) \/ Take(c, k) \/ Del(c, k)
  <2>1. /\ UNCHANGED <<heap, nextVersion, notified>>
        /\ map' = map \/ map' = [map EXCEPT ![k] = None]
    BY <1>5 DEF Peek, Take, Del, sweeper
  <2>2. /\ map' \in [Keys -> Entry \cup {None}]
        /\ \A j \in Keys : map'[j] \in {map[j], None}
    BY <2>1 DEF TypeOK
  <2>3. EntryPlanned' /\ WakesInTime'
    BY <1>1, <2>1, <2>2, ZenonT(30) DEF EntryPlanned, WakesInTime
  <2>4. /\ taken' \subseteq Nat
        /\ TakenIsGone'
        /\ VersionsUnique'
    <3>1. CASE UNCHANGED taken
      BY <2>1, <2>2, <3>1 DEF TakenIsGone, VersionsUnique, TypeOK
    <3>2. CASE /\ map[k] # None
               /\ map' = [map EXCEPT ![k] = None]
               /\ taken' = taken \cup {map[k].ver}
      <4> DEFINE H(j) == [exp |-> map[j].exp, ver |-> map[j].ver, key |-> j]
      <4>1. H(k) \in heap /\ map[k].ver \in Nat /\ map[k].ver < nextVersion
        BY <3>2 DEF EntryPlanned, VersionsUnique, TypeOK, Entry
      <4>2. ASSUME NEW j \in Keys, map'[j] # None
            PROVE  map'[j] = map[j] /\ j # k /\ map[j].ver # map[k].ver
        <5>1. map'[j] = map[j] /\ j # k /\ map[j] # None
          BY <3>2, <4>2 DEF TypeOK
        <5>2. H(j) \in heap
          BY <5>1 DEF EntryPlanned
        <5>3. H(j) # H(k)
          BY <5>1
        <5> QED BY <4>1, <5>1, <5>2, <5>3 DEF VersionsUnique
      <4> QED BY <2>1, <3>2, <4>1, <4>2, ZenonT(30) DEF TakenIsGone, VersionsUnique, TypeOK
    <3> QED BY <1>5, <3>1, <3>2 DEF Peek, Take, Del, Valid
  <2> QED BY <1>1, <1>2, <2>1, <2>2, <2>3, <2>4 DEF TypeOK
<1> QED BY <1>3, <1>4, <1>5 DEF Operate, Set, SetIfAbsent

LEMMA StoreStep == StoreInv /\ [Next]_vars => StoreInv'
<1> SUFFICES ASSUME StoreInv, [Next]_vars PROVE StoreInv'
  OBVIOUS
<1> USE StoreAssumption DEF StoreInv
<1>1. ASSUME NEW c \in Callers, NEW op \in Ops, NEW k \in Keys,
             NEW ttl \in Nat, Call(c, op, k, ttl)
      PROVE  StoreInv'
  <2>1. /\ UNCHANGED <<store, stop, clock, sweeper, taken>>
        /\ call' = [call EXCEPT ![c] = [op |-> op, key |-> k, now |-> clock,
                                        exp |-> clock + ttl]]
    BY <1>1 DEF Call
  <2>2. clock \in Nat /\ clock + ttl \in Nat
    BY DEF TypeOK
  <2>3. TypeOK' /\ ClockRead'
    BY <2>1, <2>2 DEF TypeOK, ClockRead, store, sweeper
  <2> QED
    BY <2>1, <2>3 DEF store, sweeper, EntryPlanned, WakesInTime, TakenIsGone,
         VersionsUnique
<1>2. ASSUME NEW c \in Callers, NEW k \in Keys, Operate(c, k) PROVE StoreInv'
  BY <1>2, OperateKeeps
<1>3. CASE WakeDue \/ WakeSpurious \/ Drop \/ Tick
  <2>1. /\ UNCHANGED <<store, deadline, call, taken>>
        /\ stop' \in BOOLEAN
        /\ spc' \in {"ready", "waiting", "done"}
        /\ notified' \in BOOLEAN
    BY <1>3, ZenonT(30) DEF WakeDue, WakeSpurious, Drop, Tick, Notify, sweeper, TypeOK
  <2>2. clock' \in 0..MaxTime /\ clock <= clock'
    BY <1>3 DEF WakeDue, WakeSpurious, Drop, Tick, TypeOK
  <2>3. WakesInTime'
    BY <1>3, <2>1 DEF WakeDue, WakeSpurious, Drop, Tick, Notify, sweeper, store,
         WakesInTime
  <2>4. ClockRead'
    BY <2>1, <2>2 DEF ClockRead, TypeOK
  <2> QED
    BY <2>1, <2>2, <2>3, <2>4 DEF TypeOK, store, EntryPlanned, TakenIsGone,
         VersionsUnique
<1>4. CASE CleanupLoop
  <2>1. UNCHANGED <<nextVersion, stop, clock, notified, call, taken>>
    BY <1>4 DEF CleanupLoop
  <2>2. ClockRead'
    BY <2>1 DEF ClockRead
  <2>3. CASE stop
    BY <1>4, <2>1, <2>2, <2>3 DEF CleanupLoop, TypeOK, EntryPlanned,
         WakesInTime, TakenIsGone, VersionsUnique
  <2>4. CASE ~stop
    <3>1. Sweep(clock) /\ spc' = "waiting" /\ clock \in Nat
      BY <1>4, <2>4 DEF CleanupLoop, TypeOK
    <3>2. /\ map' \in [Keys -> Entry \cup {None}]
          /\ heap' \subseteq HeapEntry
          /\ EntryPlanned' /\ TakenIsGone' /\ VersionsUnique'
      BY <2>1, <3>1, SweepKeeps
    <3>3. deadline' \in Nat /\ \A h \in heap' : deadline' <= h.exp
      BY <1>4, <2>4, <3>2 DEF CleanupLoop, Forever, HeapEntry
    <3> QED
      BY <2>1, <2>2, <3>1, <3>2, <3>3 DEF TypeOK, WakesInTime
  <2> QED BY <2>3, <2>4
<1>5. CASE Joined
  <2>1. map' \in [Keys -> {None}] /\ heap' = {}
    BY <1>5 DEF Joined
  <2>2. UNCHANGED <<nextVersion, stop, clock, spc, deadline, notified, call, taken>>
    BY <1>5 DEF Joined, sweeper
  <2>3. TypeOK'
    BY <2>1, <2>2, ZenonT(30) DEF TypeOK
  <2> QED
    BY <2>1, <2>2, <2>3 DEF EntryPlanned, WakesInTime, TakenIsGone,
         VersionsUnique, ClockRead
<1>6. CASE UNCHANGED vars
  BY <1>6 DEF vars, store, sweeper, TypeOK, EntryPlanned, WakesInTime,
       TakenIsGone, VersionsUnique, ClockRead
<1>7. Ttls \cup {0} \subseteq Nat
  OBVIOUS
<1>8. ASSUME NEW c \in Callers, NEW k \in Keys,
             \/ \E op \in {"set", "absent"}, ttl \in Ttls : Call(c, op, k, ttl)
             \/ \E op \in {"peek", "take", "del"} : Call(c, op, k, 0)
      PROVE  StoreInv'
  BY <1>1, <1>7, <1>8 DEF Ops
<1> QED
  BY <1>2, <1>3, <1>4, <1>5, <1>6, <1>8 DEF Next

LEMMA StoreInvariant == Spec => []StoreInv
BY StoreInit, StoreStep, PTL DEF Spec

\* The store stays well formed: versions never pass the limit of the counter.
THEOREM StoreTyped == Spec => []TypeOK
BY StoreInvariant, PTL DEF StoreInv

\* Every stored secret is planned for removal by a heap entry of its own version
\* (Inner::insert), for any number of keys, callers and insertions.
THEOREM PlannedRemoval == Spec => []EntryPlanned
BY StoreInvariant, PTL DEF StoreInv

\* The cleanup thread never sleeps past the first expiry of the heap: no insert
\* can slip a shorter one past its wait (cleanup_loop).
THEOREM NoOversleep == Spec => []WakesInTime
BY StoreInvariant, PTL DEF StoreInv

\* What take or del removed is never seen again (EphemeralStore::take).
THEOREM TakenStaysTaken == Spec => []TakenIsGone
BY StoreInvariant, PTL DEF StoreInv

\* No step but a set, take or del of its key removes a secret before it
\* expires, stale heap entries and stale clocks notwithstanding.
THEOREM LiveEntriesStay == Spec => OnlyExpiredDropped
<1> DEFINE Kept == \A k \in Keys :
          ~stop /\ Valid(map[k], clock) /\ map'[k] # map[k] =>
             \E c \in Callers : /\ \E op \in {"set", "take", "del"} : Pending(c, op, k)
                                /\ call'[c] = None
<1>1. StoreInv /\ [Next]_vars => [Kept]_vars
  <2> SUFFICES ASSUME StoreInv, Next, NEW k \in Keys, ~stop,
                      Valid(map[k], clock), map'[k] # map[k]
               PROVE  \E c \in Callers :
                         /\ \E op \in {"set", "take", "del"} : Pending(c, op, k)
                         /\ call'[c] = None
    BY DEF vars, store
  <2> USE DEF StoreInv
  <2>1. map[k] # None /\ map[k].exp > clock /\ map[k].exp \in Nat /\ clock \in Nat
    BY DEF Valid, TypeOK, Entry
  <2>2. ASSUME NEW now \in Nat, now <= clock PROVE SweptMap(now)[k] = map[k]
    BY <2>1, <2>2, SweepFacts
  <2>3. \E c \in Callers, j \in Keys : Operate(c, j)
    <3>1. ~Joined /\ ~(CleanupLoop /\ stop)
      BY DEF Joined
    <3>2. ~CleanupLoop
      BY <2>1, <2>2 DEF CleanupLoop, Sweep
    <3> QED
      BY <3>1, <3>2 DEF Next, Call, WakeDue, WakeSpurious, Drop, Tick, store
  <2>4. PICK c \in Callers, j \in Keys : Operate(c, j)
    BY <2>3, ZenonT(30)
  <2>5. /\ call[c] # None /\ call[c].now \in Nat /\ call[c].now <= clock
        /\ call'[c] = None
    BY <2>4 DEF Operate, Set, SetIfAbsent, Peek, Take, Del, Pending, Return,
         ClockRead, TypeOK
  <2>6. SweptMap(call[c].now)[k] = map[k]
    BY <2>2, <2>5
  <2>7. ~SweepOnly(c)
    BY <2>6, ZenonT(30) DEF SweepOnly, Sweep
  <2>8. Insert(c, j) => j = k
    BY <2>5, <2>6, SweepFacts, ZenonT(30) DEF Insert
  <2>9. CASE Set(c, j)
    BY <2>5, <2>7, <2>8, <2>9 DEF Set, Pending
  <2>10. CASE SetIfAbsent(c, j)
    <3>1. Insert(c, j) /\ j = k /\ ~Valid(SweptMap(call[c].now)[k], call[c].now)
      BY <2>7, <2>8, <2>10, ZenonT(30) DEF SetIfAbsent
    <3> QED BY <2>1, <2>5, <2>6, <3>1 DEF Valid
  <2>11. CASE Peek(c, j)
    BY <2>1, <2>5, <2>11 DEF Peek, Valid, TypeOK
  <2>12. CASE Take(c, j) \/ Del(c, j)
    <3>1. j = k
      BY <2>12 DEF Take, Del, TypeOK
    <3> QED BY <2>5, <2>12, <3>1 DEF Take, Del
  <2> QED BY <2>4, <2>9, <2>10, <2>11, <2>12 DEF Operate
<1> QED
  BY <1>1, StoreInvariant, PTL DEF Spec, OnlyExpiredDropped
=============================================================================
