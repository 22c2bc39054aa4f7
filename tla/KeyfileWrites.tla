--------------------------- MODULE KeyfileWrites ---------------------------
(***************************************************************************)
(* How src/keys/keyfile.rs puts a keyfile at its path: write_secure        *)
(* ("replace"), write_secure_new ("new") and write_secure_new_best_effort  *)
(* ("best_effort"), called by threads that share one directory.  Every     *)
(* system call is a step; the process may be killed and the machine may    *)
(* lose power between any two.                                             *)
(*                                                                         *)
(* The file system promises what POSIX does: a killed process loses        *)
(* nothing that a completed call wrote.  Power loss keeps the bytes that   *)
(* were synced and any number of the bytes after them.  A directory entry  *)
(* falls back to any value it has had since the directory was last synced. *)
(* A directory that was just created may disappear, because                *)
(* ensure_private_dir does not sync its parent.                            *)
(*                                                                         *)
(* Simplification: a system call that reports an error has had no effect.  *)
(***************************************************************************)
EXTENDS Integers

CONSTANTS
    Writers,      \* threads that write the keyfile
    Tmps,         \* names create_private_tmp may draw
    Target,       \* the keyfile's path
    None,         \* no file
    RecLen,       \* the length of a record
    Cuts,         \* lengths at which a write can be interrupted
    MaxTries,     \* draws of create_private_tmp, 8 in the code
    MaxCalls,     \* bound: calls in a behaviour
    MaxFaults     \* bound: I/O errors, kills and power losses

Paths   == {Target} \cup Tmps
Kinds   == {"replace", "new", "best_effort"}
Inodes  == 0 .. MaxCalls      \* 0 is the file found at the path, i the file of call i
Lengths == Cuts \cup {0, RecLen}

ASSUME WritesAssumption ==
    /\ Target \notin Tmps
    /\ None \notin Int
    /\ RecLen \in Nat \ {0}
    /\ Cuts \subseteq 0 .. RecLen
    /\ MaxTries \in Nat \ {0}
    /\ MaxCalls \in Nat
    /\ MaxFaults \in Nat

VARIABLES
    \* the file system
    dir,        \* the directory: "none", "fresh" (not synced in its parent), "kept"
    entry,      \* the file each path names
    maybe,      \* the files each path may name after power loss
    got,        \* bytes written to each file
    safe,       \* bytes of each file that power loss keeps
    private,    \* files created with mode 0600
    \* the writers
    at,         \* where each thread is: its call, that call's kind and next step
    \* history and bounds
    res,        \* what each call returned
    rank,       \* when each file was published, counting publications
    top,        \* publications so far
    floor,      \* rank of the newest file whose durability was reported
    orphans,    \* files whose tmp entry nobody will remove any more
    calls,      \* calls so far
    faults      \* faults so far

fs      == <<dir, entry, maybe, got, safe, private>>
history == <<res, rank, top, floor, orphans>>
vars    == <<fs, at, history, calls, faults>>

(***************************************************************************)
(* tries counts the tmp names drawn; checked is the value of top when a    *)
(* best-effort call looked at the path.                                    *)
(***************************************************************************)
Idle == [pc |-> "idle", call |-> 0, kind |-> "replace", tries |-> 0, checked |-> 0]

Fault   == faults < MaxFaults /\ faults' = faults + 1
NoFault == UNCHANGED faults

Goto(w, l) == at' = [at EXCEPT ![w].pc = l]

\* The call of w returns r.
Return(w, r) ==
    /\ at' = [at EXCEPT ![w] = Idle]
    /\ res' = [res EXCEPT ![at[w].call] = r]

\* The tmp path of w: the name under which it created its file.
TmpOf(w) == CHOOSE n \in Tmps : entry[n] = at[w].call

\* Directory entries change: each new value joins those power loss may leave.
Point(e) ==
    /\ entry' = e
    /\ maybe' = [p \in Paths |-> maybe[p] \cup {e[p]}]

\* The file i appears at the path.
Publish(i) ==
    /\ rank' = [rank EXCEPT ![i] = top + 1]
    /\ top' = top + 1

-----------------------------------------------------------------------------
(***************************************************************************)
(* A fresh store has no directory; otherwise the path holds nothing or a   *)
(* complete file, and both are on disk.                                    *)
(***************************************************************************)
Init ==
    /\ \E first \in {None, 0} :
           /\ dir \in IF first = None THEN {"none", "kept"} ELSE {"kept"}
           /\ entry = [p \in Paths |-> IF p = Target THEN first ELSE None]
           /\ floor = IF first = None THEN -1 ELSE 0
    /\ maybe = [p \in Paths |-> {entry[p]}]
    /\ got = [i \in Inodes |-> IF i = 0 THEN RecLen ELSE 0]
    /\ safe = got
    /\ private = {0}
    /\ at = [w \in Writers |-> Idle]
    /\ res = [i \in Inodes |-> "none"]
    /\ rank = [i \in Inodes |-> 0]
    /\ top = 0
    /\ orphans = {}
    /\ calls = 0
    /\ faults = 0

\* ensure_private_dir: an existing directory is checked, a missing one is created.
ensure_private_dir == dir' = IF dir = "none" THEN "fresh" ELSE dir

\* A call starts; if the directory is refused or cannot be made, it fails at once.
Begin(w, k) ==
    /\ at[w].pc = "idle"
    /\ calls < MaxCalls
    /\ calls' = calls + 1
    /\ \/ /\ ensure_private_dir
          /\ at' = [at EXCEPT ![w] =
                       [pc |-> IF k = "best_effort" THEN "check" ELSE "create",
                        call |-> calls + 1, kind |-> k, tries |-> 0, checked |-> 0]]
          /\ NoFault
          /\ UNCHANGED res
       \/ /\ Fault
          /\ res' = [res EXCEPT ![calls + 1] = "err"]
          /\ UNCHANGED <<dir, at>>
    /\ UNCHANGED <<entry, maybe, got, safe, private, rank, top, floor, orphans>>

\* Mutant of PreCheck: the path is not looked at.
PreCheck_blind(w) ==
    /\ at[w].pc = "check"
    /\ at' = [at EXCEPT ![w].pc = "create", ![w].checked = top]
    /\ UNCHANGED <<fs, history, calls, faults>>

\* path.try_exists() of write_secure_new_best_effort.
PreCheck(w) ==
    /\ at[w].pc = "check"
    /\ \/ /\ entry[Target] = None
          /\ at' = [at EXCEPT ![w].pc = "create", ![w].checked = top]
          /\ NoFault
          /\ UNCHANGED res
       \/ /\ entry[Target] # None
          /\ Return(w, "err")
          /\ NoFault
       \/ /\ Fault
          /\ Return(w, "err")
    /\ UNCHANGED <<fs, rank, top, floor, orphans, calls>>

(***************************************************************************)
(* create_private_tmp: create_new with mode 0600 under a drawn name, again *)
(* when the name is taken, up to MaxTries times.                           *)
(***************************************************************************)
CreateTmp(w) ==
    /\ at[w].pc = "create"
    /\ \/ \E n \in Tmps :
          /\ entry[n] # None
          /\ IF at[w].tries + 1 < MaxTries
             THEN at' = [at EXCEPT ![w].tries = @ + 1] /\ UNCHANGED res
             ELSE Return(w, "err")
          /\ NoFault
          /\ UNCHANGED <<entry, maybe, private>>
       \/ \E n \in Tmps :
          /\ entry[n] = None
          /\ Point([entry EXCEPT ![n] = at[w].call])
          /\ private' = private \cup {at[w].call}
          /\ at' = [at EXCEPT ![w].pc = "write", ![w].tries = 0]
          /\ NoFault
          /\ UNCHANGED res
       \/ /\ Fault
          /\ Return(w, "err")
          /\ UNCHANGED <<entry, maybe, private>>
    /\ UNCHANGED <<dir, got, safe, rank, top, floor, orphans, calls>>

\* Mutant of WriteAll: write instead of write_all, a short write goes unnoticed.
WriteAll_short(w) ==
    /\ at[w].pc = "write"
    /\ \E n \in Lengths :
          /\ n > got[at[w].call]
          /\ got' = [got EXCEPT ![at[w].call] = n]
    /\ Goto(w, "sync")
    /\ UNCHANGED <<dir, entry, maybe, safe, private, history, calls, faults>>

\* write_all: some more bytes reach the file, or an error ends the writing.
WriteAll(w) ==
    /\ at[w].pc = "write"
    /\ \/ \E n \in Lengths :
          /\ n > got[at[w].call]
          /\ got' = [got EXCEPT ![at[w].call] = n]
          /\ Goto(w, IF n = RecLen THEN "sync" ELSE "write")
          /\ NoFault
       \/ /\ Fault
          /\ Goto(w, "abandon")
          /\ UNCHANGED got
    /\ UNCHANGED <<dir, entry, maybe, safe, private, history, calls>>

\* Mutant of SyncFile: an error of sync_all is ignored.
SyncFile_ignored(w) ==
    /\ at[w].pc = "sync"
    /\ \/ safe' = [safe EXCEPT ![at[w].call] = got[at[w].call]] /\ NoFault
       \/ Fault /\ UNCHANGED safe
    /\ Goto(w, "publish")
    /\ UNCHANGED <<dir, entry, maybe, got, private, history, calls>>

\* sync_all of the tmp file.
SyncFile(w) ==
    /\ at[w].pc = "sync"
    /\ \/ /\ safe' = [safe EXCEPT ![at[w].call] = got[at[w].call]]
          /\ Goto(w, "publish")
          /\ NoFault
       \/ /\ Fault
          /\ Goto(w, "abandon")
          /\ UNCHANGED safe
    /\ UNCHANGED <<dir, entry, maybe, got, private, history, calls>>

(***************************************************************************)
(* remove_file(&tmp) with its result ignored, at the places where a tmp is *)
(* given up: the tmp goes, or it stays with nobody to remove it.           *)
(***************************************************************************)
RemoveTmp(w) ==
    \/ /\ Point([entry EXCEPT ![TmpOf(w)] = None])
       /\ NoFault
       /\ UNCHANGED orphans
    \/ /\ Fault
       /\ orphans' = orphans \cup {at[w].call}
       /\ UNCHANGED <<entry, maybe>>

\* The error path: the tmp is removed and the error returned.
Abandon(w) ==
    /\ at[w].pc = "abandon"
    /\ RemoveTmp(w)
    /\ Return(w, "err")
    /\ UNCHANGED <<dir, got, safe, private, rank, top, floor, calls>>

\* Mutant of RenameTmp: the best-effort variant returns at once as well.
RenameTmp_litter(w) ==
    /\ at[w].pc = "publish" /\ at[w].kind # "new"
    /\ \/ /\ Point([entry EXCEPT ![Target] = at[w].call, ![TmpOf(w)] = None])
          /\ Publish(at[w].call)
          /\ Goto(w, "syncdir")
          /\ NoFault
          /\ UNCHANGED <<res, orphans>>
       \/ /\ Fault
          /\ Return(w, "err")
          /\ orphans' = IF at[w].kind = "replace" THEN orphans \cup {at[w].call}
                                                  ELSE orphans
          /\ UNCHANGED <<entry, maybe, rank, top>>
    /\ UNCHANGED <<dir, got, safe, private, floor, calls>>

(***************************************************************************)
(* rename of the tmp over the path.  When it fails write_secure returns    *)
(* and leaves the tmp; the best-effort variant removes it first.           *)
(***************************************************************************)
RenameTmp(w) ==
    /\ at[w].pc = "publish" /\ at[w].kind # "new"
    /\ \/ /\ Point([entry EXCEPT ![Target] = at[w].call, ![TmpOf(w)] = None])
          /\ Publish(at[w].call)
          /\ Goto(w, "syncdir")
          /\ NoFault
          /\ UNCHANGED <<res, orphans>>
       \/ /\ Fault
          /\ at[w].kind = "replace"
          /\ Return(w, "err")
          /\ orphans' = orphans \cup {at[w].call}
          /\ UNCHANGED <<entry, maybe, rank, top>>
       \/ /\ Fault
          /\ at[w].kind = "best_effort"
          /\ Goto(w, "abandon")
          /\ UNCHANGED <<entry, maybe, rank, top, res, orphans>>
    /\ UNCHANGED <<dir, got, safe, private, floor, calls>>

\* hard_link(&tmp, path), which refuses a path that exists.
Link(w) ==
    /\ at[w].pc = "publish" /\ at[w].kind = "new"
    /\ \/ /\ entry[Target] = None
          /\ Point([entry EXCEPT ![Target] = at[w].call])
          /\ Publish(at[w].call)
          /\ Goto(w, "unlink")
          /\ NoFault
       \/ /\ \/ entry[Target] # None /\ NoFault
             \/ Fault
          /\ Goto(w, "abandon")
          /\ UNCHANGED <<entry, maybe, rank, top>>
    /\ UNCHANGED <<dir, got, safe, private, res, floor, orphans, calls>>

\* remove_file(&tmp) after a link that worked; after a refused one it is Abandon.
Unlink(w) ==
    /\ at[w].pc = "unlink"
    /\ RemoveTmp(w)
    /\ Goto(w, "syncdir")
    /\ UNCHANGED <<dir, got, safe, private, res, rank, top, floor, calls>>

\* Mutant of SyncDir: an error of the directory's sync_all is returned.
SyncDir_strict(w) ==
    /\ at[w].pc = "syncdir"
    /\ \/ /\ maybe' = [p \in Paths |-> {entry[p]}]
          /\ Return(w, "ok")
          /\ NoFault
       \/ /\ Fault
          /\ Return(w, "err")
          /\ UNCHANGED maybe
    /\ UNCHANGED <<dir, entry, got, safe, private, rank, top, floor, orphans, calls>>

\* Mutant of SyncDir: the directory that is synced is not the keyfile's.
SyncDir_elsewhere(w) ==
    /\ at[w].pc = "syncdir"
    /\ Return(w, "ok")
    /\ floor' = IF dir = "kept" /\ rank[at[w].call] > floor THEN rank[at[w].call] ELSE floor
    /\ UNCHANGED <<fs, rank, top, orphans, calls, faults>>

(***************************************************************************)
(* The directory is opened and synced, its errors ignored, and the call    *)
(* returns Ok.  Only a sync that worked, in a directory that is itself on  *)
(* disk, makes the new file durable: floor remembers it.                   *)
(***************************************************************************)
SyncDir(w) ==
    /\ at[w].pc = "syncdir"
    /\ Return(w, "ok")
    /\ \/ /\ maybe' = [p \in Paths |-> {entry[p]}]
          /\ floor' = IF dir = "kept" /\ rank[at[w].call] > floor
                      THEN rank[at[w].call] ELSE floor
          /\ NoFault
       \/ /\ Fault
          /\ UNCHANGED <<maybe, floor>>
    /\ UNCHANGED <<dir, entry, got, safe, private, rank, top, orphans, calls>>

-----------------------------------------------------------------------------
\* Calls that own a tmp entry.
HasTmp(w) == at[w].pc \in {"write", "sync", "publish", "abandon", "unlink"}

Stopped == at' = [w \in Writers |-> Idle]

\* The process is killed: its threads are gone, the file system is not.
Kill ==
    /\ Fault
    /\ \E w \in Writers : at[w].pc # "idle"
    /\ Stopped
    /\ orphans' = orphans \cup {at[w].call : w \in {v \in Writers : HasTmp(v)}}
    /\ UNCHANGED <<fs, res, rank, top, floor, calls>>

\* What power loss may leave of the entries, and of the bytes of files they name.
Fallback == {e \in [Paths -> UNION {maybe[p] : p \in Paths}] :
                 \A p \in Paths : e[p] \in maybe[p]}

CutShort(e) ==
    LET named == {i \in Inodes : \E p \in Paths : e[p] = i}
    IN  {[i \in Inodes |-> IF i \in named THEN g[i] ELSE got[i]] :
            g \in {h \in [named -> Lengths] :
                     \A i \in named : safe[i] <= h[i] /\ h[i] <= got[i]}}

PowerLoss ==
    /\ Fault
    /\ Stopped
    /\ \/ /\ dir = "fresh"
          /\ dir' = "none"
          /\ entry' = [p \in Paths |-> None]
       \/ /\ dir' = IF dir = "fresh" THEN "kept" ELSE dir
          /\ entry' \in Fallback
    /\ maybe' = [p \in Paths |-> {entry'[p]}]
    /\ got' \in CutShort(entry')
    /\ safe' = got'
    /\ orphans' = orphans \cup 0 .. calls
    /\ UNCHANGED <<private, res, rank, top, floor, calls>>

Step(w) ==
    \/ PreCheck(w) \/ CreateTmp(w) \/ WriteAll(w) \/ SyncFile(w) \/ Abandon(w)
    \/ RenameTmp(w) \/ Link(w) \/ Unlink(w) \/ SyncDir(w)

Next ==
    \/ \E w \in Writers : Step(w) \/ \E k \in Kinds : Begin(w, k)
    \/ Kill
    \/ PowerLoss

Spec == Init /\ [][Next]_vars

-----------------------------------------------------------------------------
TypeOK ==
    /\ dir \in {"none", "fresh", "kept"}
    /\ entry \in [Paths -> Inodes \cup {None}]
    /\ maybe \in [Paths -> SUBSET (Inodes \cup {None})]
    /\ got \in [Inodes -> Lengths]
    /\ safe \in [Inodes -> Lengths]
    /\ private \subseteq Inodes
    /\ at \in [Writers -> [pc : {"idle", "check", "create", "write", "sync",
                                 "publish", "abandon", "unlink", "syncdir"},
                           call : Inodes, kind : Kinds, tries : 0 .. MaxTries - 1,
                           checked : Nat]]
    /\ res \in [Inodes -> {"none", "ok", "err"}]
    /\ rank \in [Inodes -> Nat]
    /\ top \in Nat
    /\ floor \in Nat \cup {-1}
    /\ orphans \subseteq Inodes
    /\ calls \in Inodes
    /\ faults \in Nat

(***************************************************************************)
(* A write whose directory sync worked (in a directory that is on disk),   *)
(* and the file the store started with, survive every kill and every power *)
(* loss: the path always names that file or one published after it.        *)
(***************************************************************************)
SyncedWritesSurvive ==
    floor >= 0 => entry[Target] # None /\ rank[entry[Target]] >= floor

(***************************************************************************)
(* A call reports the truth: after an Err its file is not at the path and  *)
(* will not be there after power loss; after an Ok it has been published.  *)
(***************************************************************************)
ResultsAreTrue ==
    \A i \in 1 .. calls :
        /\ res[i] = "err" => entry[Target] # i /\ i \notin maybe[Target]
        /\ res[i] = "ok" => rank[i] > 0

(***************************************************************************)
(* A tmp file left in the directory belongs to a call in progress, unless  *)
(* the process or the machine stopped, a removal failed, or write_secure   *)
(* could not rename it.                                                    *)
(***************************************************************************)
TmpsAreAccountedFor ==
    \A n \in Tmps : entry[n] # None =>
        \/ entry[n] \in orphans
        \/ \E w \in Writers : HasTmp(w) /\ at[w].call = entry[n]

(***************************************************************************)
(* A create-only call never replaces a file: hard_link refuses to, and the *)
(* best-effort rename only ever overwrites a file that was published after *)
(* that same call had looked at the path.                                  *)
(***************************************************************************)
CreateNeverReplaces ==
    [][top' # top /\ entry[Target] # None =>
          \E w \in Writers :
             /\ at[w].call = entry'[Target]
             /\ \/ at[w].kind = "replace"
                \/ at[w].kind = "best_effort" /\ rank[entry[Target]] > at[w].checked]_vars

(***************************************************************************)
(* The detailed steps implement an atomic file: the path is seen as what   *)
(* it names, and a file with missing bytes would be no value of the        *)
(* abstract file at all.                                                   *)
(***************************************************************************)
Torn == -1

Seen(i) == IF i = None THEN None ELSE IF got[i] = RecLen THEN i ELSE Torn

Atomic == INSTANCE AtomicFile
    WITH Values <- Inodes,
         file   <- Seen(entry[Target]),
         past   <- {IF i # None /\ safe[i] # RecLen THEN Torn ELSE i : i \in maybe[Target]},
         lasting <- dir = "kept"

ImplementsAtomicFile == Atomic!Spec
=============================================================================
