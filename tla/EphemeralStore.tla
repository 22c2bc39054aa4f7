---------------------------- MODULE EphemeralStore ---------------------------
(***************************************************************************)
(* EphemeralStoreManager (src/utils/store.rs): a map of secrets with a time*)
(* to live, and a thread that sleeps on a condition variable until the     *)
(* next entry expires and scrubs it.                                       *)
(*                                                                         *)
(* A call reads the clock before it takes the mutex, so it works with a    *)
(* time that may be in the past when its critical section runs; each       *)
(* critical section is one step.  A stored value is named by the version   *)
(* its insertion got.  A call with a zero TTL, or with one that overflows  *)
(* the clock, returns at once and is left out; so is a poisoned mutex (no  *)
(* critical section panics).                                               *)
(***************************************************************************)
EXTENDS Integers, FiniteSets

CONSTANTS
    Keys,
    Callers,      \* threads that share the handle
    None,
    Ttls,         \* the times to live that are asked for
    MaxTime,      \* bound: the clock stops there
    MaxVersion    \* u64::MAX, the limit of next_version

\* Condvar::wait has no deadline: a time beyond every expiry.
Forever == 2 * MaxTime + 1

ASSUME StoreAssumption ==
    /\ MaxTime \in Nat
    /\ MaxVersion \in Nat
    /\ Ttls \subseteq 1..MaxTime
    /\ None \notin Nat
    /\ None \notin [exp : Nat, ver : Nat]

VARIABLES
    map,          \* StoreInner::map
    heap,         \* StoreInner::heap, its entries are distinct
    nextVersion,  \* StoreInner::next_version
    stop,         \* StoreInner::stop
    clock,        \* Instant::now()
    spc,          \* the cleanup thread: "ready" for the mutex, "waiting", "done"
    deadline,     \* when its wait times out
    notified,     \* a notification has reached it
    call,         \* each caller's pending call, or None
    taken         \* history: versions handed out by take

store == <<map, heap, nextVersion>>
sweeper == <<spc, deadline, notified>>
vars == <<store, stop, clock, sweeper, call, taken>>

Entry == [exp : Nat, ver : Nat]
HeapEntry == [exp : Nat, ver : Nat, key : Keys]
Ops == {"set", "absent", "peek", "take", "del"}

\* The entry can be read at that time.
Valid(e, now) == e # None /\ e.exp > now

-----------------------------------------------------------------------------
\* Mutant of SweptMap: a popped heap entry removes its key, whatever is there.
SweptMapByKey(now) ==
    [k \in Keys |-> IF \E h \in heap : h.key = k /\ h.exp <= now
                    THEN None ELSE map[k]]

(***************************************************************************)
(* sweep_expired: pop every heap entry that is due; the map entry goes with*)
(* it when it is the one the heap entry was pushed for.                    *)
(***************************************************************************)
SweptHeap(now) == {h \in heap : h.exp > now}

SweptMap(now) ==
    [k \in Keys |->
        IF \E h \in heap : /\ h.exp <= now
                           /\ h.key = k
                           /\ map[k] # None
                           /\ map[k].ver = h.ver
                           /\ map[k].exp <= now
        THEN None ELSE map[k]]

Sweep(now) ==
    /\ map' = SweptMap(now)
    /\ heap' = SweptHeap(now)

\* Mutant of Notify: nobody is woken.
NotifyNobody == UNCHANGED notified

\* Condvar::notify_one / notify_all: lost on a thread that is not waiting.
Notify == notified' = (notified \/ spc = "waiting")

\* Mutant of Insert: the heap is forgotten.
InsertWithoutPush(c, k) ==
    /\ map' = [SweptMap(call[c].now) EXCEPT
                 ![k] = [exp |-> call[c].exp, ver |-> nextVersion]]
    /\ heap' = SweptHeap(call[c].now)
    /\ nextVersion' = nextVersion + 1
    /\ Notify

\* The rest of set and set_if_absent once the expired entries are swept.
Insert(c, k) ==
    /\ map' = [SweptMap(call[c].now) EXCEPT
                 ![k] = [exp |-> call[c].exp, ver |-> nextVersion]]
    /\ heap' = SweptHeap(call[c].now)
                 \cup {[exp |-> call[c].exp, ver |-> nextVersion, key |-> k]}
    /\ nextVersion' = nextVersion + 1
    /\ Notify

\* Nothing is inserted (next_version is at its limit, or the key is there), but
\* the sweep has been done.
SweepOnly(c) ==
    /\ Sweep(call[c].now)
    /\ UNCHANGED <<nextVersion, notified>>

Return(c) == call' = [call EXCEPT ![c] = None]

-----------------------------------------------------------------------------
\* A call starts: it reads the clock.
Call(c, op, k, ttl) ==
    /\ ~stop
    /\ call[c] = None
    /\ call' = [call EXCEPT ![c] = [op |-> op, key |-> k, now |-> clock,
                                    exp |-> clock + ttl]]
    /\ UNCHANGED <<store, stop, clock, sweeper, taken>>

Pending(c, op, k) == call[c] # None /\ call[c].op = op /\ call[c].key = k

Set(c, k) ==
    /\ Pending(c, "set", k)
    /\ IF nextVersion = MaxVersion THEN SweepOnly(c) ELSE Insert(c, k)
    /\ Return(c)
    /\ UNCHANGED <<stop, clock, spc, deadline, taken>>

SetIfAbsent(c, k) ==
    /\ Pending(c, "absent", k)
    /\ IF Valid(SweptMap(call[c].now)[k], call[c].now) \/ nextVersion = MaxVersion
       THEN SweepOnly(c) ELSE Insert(c, k)
    /\ Return(c)
    /\ UNCHANGED <<stop, clock, spc, deadline, taken>>

\* peek drops an entry it finds expired; its heap entry stays behind.
Peek(c, k) ==
    /\ Pending(c, "peek", k)
    /\ IF map[k] # None /\ ~Valid(map[k], call[c].now)
       THEN map' = [map EXCEPT ![k] = None] ELSE UNCHANGED map
    /\ Return(c)
    /\ UNCHANGED <<heap, nextVersion, stop, clock, sweeper, taken>>

\* Mutant of Take: the entry is read and left in the map.
TakeLeaves(c, k) ==
    /\ Pending(c, "take", k)
    /\ taken' = IF Valid(map[k], call[c].now) THEN taken \cup {map[k].ver} ELSE taken
    /\ Return(c)
    /\ UNCHANGED <<store, stop, clock, sweeper>>

Take(c, k) ==
    /\ Pending(c, "take", k)
    /\ map' = [map EXCEPT ![k] = None]
    /\ taken' = IF Valid(map[k], call[c].now) THEN taken \cup {map[k].ver} ELSE taken
    /\ Return(c)
    /\ UNCHANGED <<heap, nextVersion, stop, clock, sweeper>>

Del(c, k) ==
    /\ Pending(c, "del", k)
    /\ map' = [map EXCEPT ![k] = None]
    /\ Return(c)
    /\ UNCHANGED <<heap, nextVersion, stop, clock, sweeper, taken>>

-----------------------------------------------------------------------------
\* The wait ends: notified, timed out, or for no reason (spuriously).
WakeDue ==
    /\ spc = "waiting"
    /\ notified \/ clock >= deadline
    /\ spc' = "ready"
    /\ notified' = FALSE
    /\ UNCHANGED <<store, stop, clock, deadline, call, taken>>

WakeSpurious ==
    /\ spc = "waiting"
    /\ ~notified /\ clock < deadline
    /\ spc' = "ready"
    /\ UNCHANGED <<store, stop, clock, deadline, notified, call, taken>>

\* Mutant of CleanupLoop: the deadline is the latest expiry, not the next one.
CleanupLoopLast ==
    /\ spc = "ready"
    /\ IF stop
       THEN spc' = "done" /\ UNCHANGED <<map, heap, deadline>>
       ELSE /\ Sweep(clock)
            /\ spc' = "waiting"
            /\ \/ heap' = {} /\ deadline' = Forever
               \/ \E h \in heap' : /\ deadline' = h.exp
                                   /\ \A g \in heap' : h.exp >= g.exp
    /\ UNCHANGED <<nextVersion, stop, clock, notified, call, taken>>

\* One turn of the loop, under the mutex: stop, or sweep and wait until the
\* heap's next expiry.
CleanupLoop ==
    /\ spc = "ready"
    /\ IF stop
       THEN spc' = "done" /\ UNCHANGED <<map, heap, deadline>>
       ELSE /\ Sweep(clock)
            /\ spc' = "waiting"
            /\ \/ heap' = {} /\ deadline' = Forever
               \/ \E h \in heap' : /\ deadline' = h.exp
                                   /\ \A g \in heap' : h.exp <= g.exp
    /\ UNCHANGED <<nextVersion, stop, clock, notified, call, taken>>

\* Mutant of Drop: the thread is not notified.
DropSilent ==
    /\ ~stop
    /\ \A c \in Callers : call[c] = None
    /\ stop' = TRUE
    /\ UNCHANGED <<store, clock, sweeper, call, taken>>

\* CleanupGuard::drop, up to the join: the last handle is gone.
Drop ==
    /\ ~stop
    /\ \A c \in Callers : call[c] = None
    /\ stop' = TRUE
    /\ Notify
    /\ UNCHANGED <<store, clock, spc, deadline, call, taken>>

\* The join returns and StoreInner is dropped, which zeroizes its entries.
Joined ==
    /\ stop
    /\ spc = "done"
    /\ map' = [k \in Keys |-> None]
    /\ heap' = {}
    /\ UNCHANGED <<nextVersion, stop, clock, sweeper, call, taken>>

Tick ==
    /\ clock < MaxTime
    /\ clock' = clock + 1
    /\ UNCHANGED <<store, stop, sweeper, call, taken>>

-----------------------------------------------------------------------------
Init ==
    /\ map = [k \in Keys |-> None]
    /\ heap = {}
    /\ nextVersion = 0
    /\ stop = FALSE
    /\ clock = 0
    /\ spc = "ready"
    /\ deadline = Forever
    /\ notified = FALSE
    /\ call = [c \in Callers |-> None]
    /\ taken = {}

Operate(c, k) ==
    Set(c, k) \/ SetIfAbsent(c, k) \/ Peek(c, k) \/ Take(c, k) \/ Del(c, k)

Next ==
    \/ \E c \in Callers, k \in Keys :
          \/ \E op \in {"set", "absent"}, ttl \in Ttls : Call(c, op, k, ttl)
          \/ \E op \in {"peek", "take", "del"} : Call(c, op, k, 0)
          \/ Operate(c, k)
    \/ WakeDue \/ WakeSpurious \/ CleanupLoop
    \/ Drop \/ Joined \/ Tick

Spec == Init /\ [][Next]_vars

\* The cleanup thread runs when it can, and Drop's thread returns from join.
FairSpec == Spec /\ WF_vars(WakeDue) /\ WF_vars(CleanupLoop) /\ WF_vars(Joined)

-----------------------------------------------------------------------------
(***************************************************************************)
(* Properties.                                                             *)
(***************************************************************************)

\* Every variable keeps its type; in particular a version is never reused after
\* the counter's limit.
TypeOK ==
    /\ map \in [Keys -> Entry \cup {None}]
    /\ heap \subseteq HeapEntry
    /\ nextVersion \in 0..MaxVersion
    /\ stop \in BOOLEAN
    /\ clock \in 0..MaxTime
    /\ spc \in {"ready", "waiting", "done"}
    /\ deadline \in Nat
    /\ notified \in BOOLEAN
    /\ call \in [Callers -> [op : Ops, key : Keys, now : Nat, exp : Nat] \cup {None}]
    /\ taken \subseteq Nat

\* Every stored secret has its own entry in the heap, with its version and its
\* expiry: sweep_expired cannot miss it, however often its key was overwritten,
\* taken, peeked at when stale, or swept by a caller with an old clock.
EntryPlanned ==
    \A k \in Keys : map[k] # None =>
        [exp |-> map[k].exp, ver |-> map[k].ver, key |-> k] \in heap

\* The sleeping cleanup thread is never late: unless a notification is on its
\* way, its wait ends no later than the first expiry in the heap.
WakesInTime ==
    spc = "waiting" /\ ~notified => \A h \in heap : deadline <= h.exp

\* A secret handed out by take is gone: no later peek, take or set_if_absent
\* finds that version again.
TakenIsGone ==
    \A k \in Keys : map[k] # None => map[k].ver \notin taken

\* A secret that has not expired leaves the map only by a set, take or del of
\* its own key.  Neither the cleanup thread, nor a heap entry left over from an
\* older value, nor a peek or set_if_absent with a stale clock removes it.
OnlyExpiredDropped ==
    [][\A k \in Keys :
          ~stop /\ Valid(map[k], clock) /\ map'[k] # map[k] =>
             \E c \in Callers : /\ \E op \in {"set", "take", "del"} : Pending(c, op, k)
                                /\ call'[c] = None]_vars

\* An expired secret is scrubbed without anybody asking for it (the store's
\* cleanup_loop), and so is everything once the last handle is dropped.
Scrubbed ==
    \A v \in 0..MaxVersion :
        (\E k \in Keys : map[k] # None /\ map[k].ver = v /\ map[k].exp <= clock)
          ~> ~(\E k \in Keys : map[k] # None /\ map[k].ver = v)

\* Dropping the last handle always returns: the thread sees stop, ends, and
\* nothing is left in the store.
DropReturns == stop ~> (spc = "done" /\ \A k \in Keys : map[k] = None)
=============================================================================
