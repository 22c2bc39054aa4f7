--------------------------- MODULE RotationWorker ----------------------------
(***************************************************************************)
(* The thread that rotates the master key (rotate_loop in                  *)
(* src/keys/manager.rs): when it wakes, what set_rotate_interval does to   *)
(* it, and how dropping the last handle ends it.  What a rotation does is  *)
(* in KeyRotation; here it only takes time and succeeds or fails.          *)
(*                                                                         *)
(* Critical sections of the ctl mutex are single steps.  The condition     *)
(* variable may wake the thread for no reason.  since is history: the      *)
(* later of the last change of the interval and the last rotation's end.   *)
(***************************************************************************)
EXTENDS Integers

CONSTANTS
    Callers,    \* threads that call set_rotate_interval
    Intervals,  \* the intervals they ask for
    Strict,     \* RotationErrorPolicy::Strict?
    MaxTime,    \* bound on the clock
    Idle        \* no call

ASSUME WorkerAssumption ==
    /\ Intervals \subseteq Nat \ {0} /\ Intervals # {}
    /\ Strict \in BOOLEAN
    /\ MaxTime \in Nat
    /\ Idle \notin [every : Nat, at : Nat]

VARIABLES
    now,          \* Instant::now()
    wpc,          \* the thread: "loop", "wait", "rotate" or "gone"
    every,        \* its local copy of the interval
    deadline,     \* when its wait_timeout ends
    rotateEvery,  \* WorkerCtl::rotate_every
    nextAt,       \* WorkerCtl::next_rotation_at
    stop,         \* WorkerCtl::stop
    woken,        \* was the condition variable signalled since the wait began?
    call,         \* each caller: what it will set, or Idle
    applied,      \* callers that have set it and not signalled yet
    drop,         \* the last handle: "held", "joining" or "done"
    since

ctlVars == <<rotateEvery, nextAt, stop>>
workerVars == <<now, wpc, every, deadline, ctlVars, woken, call, applied, drop, since>>

-----------------------------------------------------------------------------
\* Mutant of Loop: stop is looked at only when a rotation is due.
LoopIgnoresStop ==
    /\ wpc = "loop"
    /\ \/ /\ now >= nextAt
          /\ wpc' = IF stop THEN "gone" ELSE "rotate"
          /\ every' = rotateEvery
          /\ UNCHANGED <<deadline, woken>>
       \/ /\ now < nextAt
          /\ wpc' = "wait"
          /\ deadline' = nextAt
          /\ woken' = FALSE
          /\ UNCHANGED every
    /\ UNCHANGED <<now, ctlVars, call, applied, drop, since>>

\* The top of the loop, under the mutex, up to the rotation or the wait.
Loop ==
    /\ wpc = "loop"
    /\ \/ /\ stop
          /\ wpc' = "gone"
          /\ UNCHANGED <<every, deadline, woken>>
       \/ /\ ~stop /\ now >= nextAt
          /\ wpc' = "rotate"
          /\ every' = rotateEvery
          /\ UNCHANGED <<deadline, woken>>
       \/ /\ ~stop /\ now < nextAt
          /\ wpc' = "wait"
          /\ deadline' = nextAt
          /\ woken' = FALSE
          /\ UNCHANGED every
    /\ UNCHANGED <<now, ctlVars, call, applied, drop, since>>

\* Mutant of WakeDue: there is no timeout.
WakeSignalled ==
    /\ wpc = "wait"
    /\ woken
    /\ wpc' = "loop"
    /\ UNCHANGED <<now, every, deadline, ctlVars, woken, call, applied, drop, since>>

\* The wait ends: signalled or timed out, or for no reason.
WakeDue ==
    /\ wpc = "wait"
    /\ woken \/ now >= deadline
    /\ wpc' = "loop"
    /\ UNCHANGED <<now, every, deadline, ctlVars, woken, call, applied, drop, since>>

WakeSpurious ==
    /\ wpc = "wait"
    /\ ~woken /\ now < deadline
    /\ wpc' = "loop"
    /\ UNCHANGED <<now, every, deadline, ctlVars, woken, call, applied, drop, since>>

\* Mutant of Rotated: the interval is added to what is planned.
RotatedAccumulates(ok) ==
    /\ wpc = "rotate"
    /\ \/ /\ (~ok /\ Strict) \/ stop
          /\ wpc' = "gone"
          /\ UNCHANGED <<nextAt, since>>
       \/ /\ ok \/ ~Strict
          /\ ~stop
          /\ wpc' = "loop"
          /\ nextAt' = nextAt + every
          /\ since' = now
    /\ UNCHANGED <<now, every, deadline, rotateEvery, stop, woken, call, applied, drop>>

\* rotate_now and handle_rotation_error have returned; back under the mutex.
Rotated(ok) ==
    /\ wpc = "rotate"
    /\ \/ /\ (~ok /\ Strict) \/ stop
          /\ wpc' = "gone"
          /\ UNCHANGED <<nextAt, since>>
       \/ /\ ok \/ ~Strict
          /\ ~stop
          /\ wpc' = "loop"
          /\ nextAt' = now + every
          /\ since' = now
    /\ UNCHANGED <<now, every, deadline, rotateEvery, stop, woken, call, applied, drop>>

-----------------------------------------------------------------------------
\* set_rotate_interval: the next time is computed before the mutex is taken.
SetBegin(c, d) ==
    /\ drop = "held"
    /\ call[c] = Idle
    /\ call' = [call EXCEPT ![c] = [every |-> d, at |-> now + d]]
    /\ UNCHANGED <<now, wpc, every, deadline, ctlVars, woken, applied, drop, since>>

\* Mutant of SetApply: the plan is not changed.
SetApplyInterval(c) ==
    /\ call[c] # Idle
    /\ c \notin applied
    /\ rotateEvery' = call[c].every
    /\ since' = now
    /\ applied' = applied \cup {c}
    /\ UNCHANGED <<now, wpc, every, deadline, nextAt, stop, woken, call, drop>>

\* Under the mutex.
SetApply(c) ==
    /\ call[c] # Idle
    /\ c \notin applied
    /\ rotateEvery' = call[c].every
    /\ nextAt' = call[c].at
    /\ since' = now
    /\ applied' = applied \cup {c}
    /\ UNCHANGED <<now, wpc, every, deadline, stop, woken, call, drop>>

\* Mutant of SetSignal: nobody is told.
SetSilent(c) ==
    /\ c \in applied
    /\ applied' = applied \ {c}
    /\ call' = [call EXCEPT ![c] = Idle]
    /\ UNCHANGED <<now, wpc, every, deadline, ctlVars, woken, drop, since>>

\* signal.notify_all(), and the call returns.
SetSignal(c) ==
    /\ c \in applied
    /\ applied' = applied \ {c}
    /\ call' = [call EXCEPT ![c] = Idle]
    /\ woken' = (woken \/ wpc = "wait")
    /\ UNCHANGED <<now, wpc, every, deadline, ctlVars, drop, since>>

\* RotationGuard::drop, when no caller has a handle any more.
DropManager ==
    /\ drop = "held"
    /\ \A c \in Callers : call[c] = Idle
    /\ drop' = "joining"
    /\ stop' = TRUE
    /\ woken' = (woken \/ wpc = "wait")
    /\ UNCHANGED <<now, wpc, every, deadline, rotateEvery, nextAt, call, applied, since>>

Joined ==
    /\ drop = "joining"
    /\ wpc = "gone"
    /\ drop' = "done"
    /\ UNCHANGED <<now, wpc, every, deadline, ctlVars, woken, call, applied, since>>

Tick ==
    /\ now < MaxTime
    /\ now' = now + 1
    /\ UNCHANGED <<wpc, every, deadline, ctlVars, woken, call, applied, drop, since>>

-----------------------------------------------------------------------------
\* start_with_config with each of the intervals.
WorkerInit ==
    /\ now = 0
    /\ wpc = "loop"
    /\ rotateEvery \in Intervals
    /\ every = 0 /\ deadline = 0
    /\ nextAt = rotateEvery
    /\ stop = FALSE /\ woken = FALSE
    /\ call = [c \in Callers |-> Idle]
    /\ applied = {}
    /\ drop = "held"
    /\ since = 0

WorkerNext ==
    \/ Loop \/ WakeDue \/ WakeSpurious
    \/ \E ok \in BOOLEAN : Rotated(ok)
    \/ \E c \in Callers :
          \/ \E d \in Intervals : SetBegin(c, d)
          \/ SetApply(c) \/ SetSignal(c)
    \/ DropManager \/ Joined \/ Tick

WorkerSpec == WorkerInit /\ [][WorkerNext]_workerVars

\* The thread is scheduled, rotations return, and calls return.
WorkerFairSpec ==
    /\ WorkerSpec
    /\ WF_workerVars(Loop) /\ WF_workerVars(WakeDue) /\ WF_workerVars(Joined)
    /\ WF_workerVars(\E ok \in BOOLEAN : Rotated(ok))
    /\ \A c \in Callers : WF_workerVars(SetApply(c)) /\ WF_workerVars(SetSignal(c))

-----------------------------------------------------------------------------
(***************************************************************************)
(* Properties.                                                             *)
(***************************************************************************)

\* Every variable keeps its type, and nothing is planned further ahead than the
\* longest interval.
WorkerTypeOK ==
    /\ now \in 0..MaxTime
    /\ wpc \in {"loop", "wait", "rotate", "gone"}
    /\ every \in Intervals \cup {0}
    /\ rotateEvery \in Intervals
    /\ \E d \in Intervals : nextAt <= now + d /\ deadline <= now + d
    /\ {stop, woken} \subseteq BOOLEAN
    /\ \A c \in Callers : call[c] = Idle \/ call[c].every \in Intervals
    /\ applied \subseteq {c \in Callers : call[c] # Idle}
    /\ drop \in {"held", "joining", "done"}
    /\ since \in 0..now

\* A thread that sleeps past the next rotation has been signalled or is about to
\* be: neither a shorter interval nor the end of the manager is slept through
\* (set_rotate_interval, RotationGuard::drop).
SleepsNoLonger ==
    wpc = "wait" => \/ woken
                    \/ applied # {}
                    \/ deadline <= nextAt /\ ~stop

\* The plan never reaches too far: from the last change of the interval or the
\* last rotation, the next one is at most an interval away, either the one that is
\* set or, when it was set while a rotation ran, the one that rotation began with
\* (rotate_loop, set_rotate_interval).
PlannedWithinInterval ==
    wpc \in {"loop", "wait"} =>
        nextAt <= since + rotateEvery \/ nextAt <= since + every

\* A rotation that is due takes place unless set_rotate_interval puts it off or
\* the thread ends (rotate_loop).
DueRotates == (now >= nextAt) ~> (wpc \in {"rotate", "gone"} \/ now < nextAt)

\* Dropping the last handle returns, whatever the thread was doing.
DropReturns == (drop = "joining") ~> (drop = "done")
=============================================================================
