------------------------- MODULE KeyfileWritesSteps -------------------------
(***************************************************************************)
(* The inductive invariant of KeyfileWrites, and why the steps that do not *)
(* change what the path names preserve it; KeyfileWritesProofs has the     *)
(* other steps and the theorems.                                           *)
(***************************************************************************)
EXTENDS KeyfileWrites, TLAPS

Busy(w) == at[w].pc # "idle"
Early(w) == at[w].pc \in {"check", "create"}
Published(w) == at[w].pc \in {"unlink", "syncdir"}

\* Files of calls that have not created one yet are nowhere.
CallsInv ==
    /\ \A w \in Writers : Busy(w) => at[w].call \in 1 .. calls /\ res[at[w].call] = "none"
    /\ \A v, w \in Writers : Busy(v) /\ Busy(w) /\ at[v].call = at[w].call => v = w
    /\ \A i \in Inodes : i > calls => res[i] = "none" /\ rank[i] = 0
    /\ \A p \in Paths : entry[p] \in maybe[p]
    /\ \A p \in Paths : \A i \in maybe[p] : i # None => i <= calls
    /\ \A w \in Writers : Early(w) => \A p \in Paths : at[w].call \notin maybe[p]

\* A call that has a tmp finds it under exactly one name.
TmpsInv ==
    /\ \A w \in Writers : HasTmp(w) => \E n \in Tmps : entry[n] = at[w].call
    /\ \A w \in Writers : HasTmp(w) =>
          \A m, n \in Tmps : entry[m] = at[w].call /\ entry[n] = at[w].call => m = n
    /\ TmpsAreAccountedFor

\* What the path names, or may name after power loss, was published.
RanksInv ==
    /\ \A i \in Inodes : rank[i] <= top
    /\ \A i \in maybe[Target] : i = None \/ i = 0 \/ rank[i] > 0
    /\ \A i \in Inodes \ {0} : (res[i] = "err" => rank[i] = 0) /\ (res[i] = "ok" => rank[i] > 0)
    /\ \A w \in Writers : Busy(w) => (rank[at[w].call] > 0 <=> Published(w))
    /\ \A w \in Writers : Published(w) =>
          entry[Target] # None /\ rank[entry[Target]] >= rank[at[w].call]
    /\ \A w \in Writers : Busy(w) /\ ~Published(w) /\ at[w].kind = "best_effort"
                          /\ at[w].pc # "check" /\ entry[Target] # None =>
          rank[entry[Target]] > at[w].checked
    /\ \A w \in Writers : at[w].checked <= top

\* Nothing that power loss may bring back is older than the last durable file.
FloorInv ==
    /\ dir # "kept" => floor = -1
    /\ floor <= top
    /\ floor >= 0 => \A i \in maybe[Target] : i # None /\ rank[i] >= floor

\* Only complete and synced files get a name that is not a tmp.
BytesInv ==
    /\ \A i \in Inodes : safe[i] <= got[i]
    /\ \A i \in maybe[Target] : i # None => safe[i] = RecLen /\ got[i] = RecLen
    /\ \A w \in Writers : at[w].pc = "sync" => got[at[w].call] = RecLen
    /\ \A w \in Writers : at[w].pc = "publish" =>
          safe[at[w].call] = RecLen /\ got[at[w].call] = RecLen

Inv == TypeOK /\ CallsInv /\ TmpsInv /\ RanksInv /\ FloorInv /\ BytesInv

-----------------------------------------------------------------------------
Labels == {"idle", "check", "create", "write", "sync",
           "publish", "abandon", "unlink", "syncdir"}

USE DEF Busy, Early, Published, HasTmp, Labels

\* What a jump of one writer does to the writers' states.
LEMMA GotoFacts ==
    ASSUME TypeOK, NEW w \in Writers, NEW l \in Labels, Goto(w, l)
    PROVE  /\ at' \in [Writers -> [pc : Labels, call : Inodes, kind : Kinds,
                                   tries : 0 .. MaxTries - 1, checked : Nat]]
           /\ \A v \in Writers : v # w => at'[v] = at[v]
           /\ at'[w].pc = l /\ at'[w].call = at[w].call
           /\ at'[w].kind = at[w].kind /\ at'[w].checked = at[w].checked
    BY DEF TypeOK, Goto

\* What a return does.
LEMMA ReturnFacts ==
    ASSUME TypeOK, NEW w \in Writers, NEW r \in {"ok", "err"}, Return(w, r)
    PROVE  /\ at' \in [Writers -> [pc : Labels, call : Inodes, kind : Kinds,
                                   tries : 0 .. MaxTries - 1, checked : Nat]]
           /\ \A v \in Writers : v # w => at'[v] = at[v]
           /\ at'[w].pc = "idle" /\ at'[w].checked = 0
           /\ res' \in [Inodes -> {"none", "ok", "err"}]
           /\ res'[at[w].call] = r
           /\ \A i \in Inodes : i # at[w].call => res'[i] = res[i]
    BY WritesAssumption DEF TypeOK, Return, Idle, Kinds, Inodes

\* Numbers.
LEMMA Basics ==
    /\ Lengths \subseteq Nat /\ RecLen \in Nat /\ RecLen \in Lengths /\ 0 \in Lengths
    /\ Inodes = 0 .. MaxCalls /\ MaxCalls \in Nat /\ None \notin Int /\ None \notin Inodes
    /\ Target \notin Tmps /\ Target \in Paths /\ Tmps \subseteq Paths
    BY WritesAssumption DEF Lengths, Inodes, Paths

LEMMA Numbers == \A x \in Lengths : x \in Nat /\ x \in Int
    BY Basics

\* The tmp of a call that has one.
LEMMA TmpOfFacts ==
    ASSUME TmpsInv, NEW w \in Writers, HasTmp(w)
    PROVE  TmpOf(w) \in Tmps /\ entry[TmpOf(w)] = at[w].call
    BY DEF TmpsInv, TmpOf

\* The tmp entries stay, and a call that leaves its tmp behind leaves an orphan.
LEMMA TmpsKept ==
    ASSUME TmpsInv, \A n \in Tmps : entry'[n] = entry[n], orphans \subseteq orphans',
           \A v \in Writers : HasTmp(v)' => HasTmp(v) /\ at'[v].call = at[v].call,
           \A v \in Writers : HasTmp(v) /\ ~HasTmp(v)' => at[v].call \in orphans'
    PROVE  TmpsInv'
<1>1. \A w \in Writers : HasTmp(w)' => \E n \in Tmps : entry'[n] = at'[w].call
    BY DEF TmpsInv
<1>2. \A w \in Writers : HasTmp(w)' =>
          \A m, n \in Tmps : entry'[m] = at'[w].call /\ entry'[n] = at'[w].call => m = n
    BY DEF TmpsInv
<1>3. TmpsAreAccountedFor'
  <2> SUFFICES ASSUME NEW n \in Tmps, entry'[n] # None
               PROVE  \/ entry'[n] \in orphans'
                      \/ \E w \in Writers : HasTmp(w)' /\ at'[w].call = entry'[n]
    BY DEF TmpsAreAccountedFor
  <2>1. \/ entry'[n] \in orphans
        \/ \E w \in Writers : HasTmp(w) /\ at[w].call = entry'[n]
    BY DEF TmpsInv, TmpsAreAccountedFor
  <2> QED
    BY <2>1
<1> QED
    BY <1>1, <1>2, <1>3 DEF TmpsInv

LEMMA InitInv == Init => Inv
<1> SUFFICES ASSUME Init PROVE Inv
    OBVIOUS
<1> PICK first \in {None, 0} :
        /\ dir \in IF first = None THEN {"none", "kept"} ELSE {"kept"}
        /\ entry = [p \in Paths |-> IF p = Target THEN first ELSE None]
        /\ floor = IF first = None THEN -1 ELSE 0
    BY DEF Init
<1>0. 0 \in Inodes /\ RecLen \in Nat /\ None \notin Int /\ Target \notin Tmps
    BY WritesAssumption DEF Inodes
<1>1. TypeOK
    BY <1>0, WritesAssumption DEF Init, TypeOK, Idle, Kinds, Inodes, Lengths, Paths
<1>2. CallsInv
  <2>1. \A w \in Writers : at[w].pc = "idle"
    BY ZenonT(30) DEF Init, Idle
  <2>2. \A p \in Paths : maybe[p] = {entry[p]} /\ entry[p] \in {None, 0}
    BY <1>0 DEF Init, Paths
  <2>3. \A i \in Inodes : res[i] = "none" /\ rank[i] = 0
    BY DEF Init
  <2> QED
    BY <1>0, <2>1, <2>2, <2>3 DEF CallsInv, Init
<1>3. TmpsInv
    BY <1>0 DEF Init, TmpsInv, TmpsAreAccountedFor, Idle, Paths
<1>4. RanksInv
    BY <1>0 DEF Init, RanksInv, Idle, Paths
<1>5. FloorInv
    BY <1>0 DEF Init, FloorInv, Paths
<1>6. BytesInv
    BY <1>0 DEF Init, BytesInv, Idle, Paths, Inodes
<1> QED
    BY <1>1, <1>2, <1>3, <1>4, <1>5, <1>6 DEF Inv

-----------------------------------------------------------------------------
AtType == [Writers -> [pc : Labels, call : Inodes, kind : Kinds,
                       tries : 0 .. MaxTries - 1, checked : Nat]]

\* Writer w goes on with its call, and no name, rank or result changes.
Quiet(w) ==
    /\ at' \in AtType
    /\ \A v \in Writers : v # w => at'[v] = at[v]
    /\ at'[w].call = at[w].call /\ at'[w].kind = at[w].kind /\ at'[w].checked = at[w].checked
    /\ at[w].pc \notin {"idle", "check", "unlink", "syncdir"}
    /\ IF at[w].pc = "create" THEN at'[w].pc = "create"
                              ELSE at'[w].pc \in {"write", "sync", "publish", "abandon"}
    /\ UNCHANGED <<dir, entry, maybe, private, history, calls>>

LEMMA QuietInv ==
    ASSUME Inv, NEW w \in Writers, Quiet(w)
    PROVE  CallsInv' /\ TmpsInv' /\ RanksInv' /\ FloorInv'
<1>0. TypeOK /\ CallsInv /\ TmpsInv /\ RanksInv /\ FloorInv
    BY DEF Inv
<1>1. /\ dir' = dir /\ entry' = entry /\ maybe' = maybe /\ calls' = calls
      /\ res' = res /\ rank' = rank /\ top' = top /\ floor' = floor /\ orphans' = orphans
    BY DEF Quiet, history
<1>2. \A v \in Writers : /\ at'[v].call = at[v].call /\ at'[v].kind = at[v].kind
                         /\ at'[v].checked = at[v].checked
                         /\ (at'[v].pc = "idle" <=> at[v].pc = "idle")
                         /\ (Early(v)' <=> Early(v)) /\ (HasTmp(v)' <=> HasTmp(v))
                         /\ (Published(v)' <=> Published(v))
                         /\ (at'[v].pc = "check" <=> at[v].pc = "check")
  <2> TAKE v \in Writers
  <2>1. CASE v = w
    BY <1>0, <2>1 DEF Quiet, TypeOK
  <2>2. CASE v # w
    <3>1. at'[v] = at[v]
      BY <2>2 DEF Quiet
    <3> QED
      BY <3>1
  <2> QED
    BY <2>1, <2>2
<1>3. CallsInv'
    BY <1>0, <1>1, <1>2 DEF CallsInv
<1>4. TmpsInv'
    BY <1>0, <1>1, <1>2, TmpsKept
<1>5. RanksInv'
    BY <1>0, <1>1, <1>2 DEF RanksInv
<1>6. FloorInv'
    BY <1>0, <1>1 DEF FloorInv
<1> QED
    BY <1>3, <1>4, <1>5, <1>6

LEMMA WriteAllInv ==
    ASSUME Inv, NEW w \in Writers, WriteAll(w)
    PROVE  Inv'
<1>0. TypeOK /\ CallsInv /\ RanksInv /\ BytesInv
    BY DEF Inv
<1>1. PICK l \in {"sync", "write", "abandon"} : Goto(w, l) /\ at[w].pc = "write"
    BY ZenonT(30) DEF WriteAll
<1>2. Quiet(w)
    BY <1>0, <1>1, GotoFacts DEF WriteAll, Quiet, AtType
<1>3. at[w].call \in Inodes /\ at[w].call \notin maybe[Target]
  <2>1. at[w].call \in 1 .. calls /\ rank[at[w].call] = 0
    BY <1>0, <1>1 DEF CallsInv, RanksInv, TypeOK, Inodes
  <2> QED
    BY <1>0, <2>1, WritesAssumption DEF RanksInv, TypeOK, Inodes
<1>4. /\ got' \in [Inodes -> Lengths] /\ safe' = safe /\ faults' \in Nat
      /\ \A i \in Inodes : i # at[w].call => got'[i] = got[i]
      /\ got'[at[w].call] >= got[at[w].call]
      /\ at'[w].pc = "sync" => got'[at[w].call] = RecLen
  <2>0. got \in [Inodes -> Lengths] /\ got[at[w].call] \in Nat /\ faults \in Nat
    BY <1>0, <1>3, Basics, ZenonT(30) DEF TypeOK
  <2>1. CASE Fault /\ Goto(w, "abandon") /\ UNCHANGED got
    <3>1. at'[w].pc = "abandon" /\ faults' \in Nat /\ safe' = safe
      BY <2>0, <2>1, <1>0, GotoFacts DEF Fault, WriteAll
    <3> QED
      BY <2>0, <2>1, <3>1
  <2>2. CASE \E n \in Lengths :
                /\ n > got[at[w].call]
                /\ got' = [got EXCEPT ![at[w].call] = n]
                /\ Goto(w, IF n = RecLen THEN "sync" ELSE "write")
                /\ NoFault
    <3> PICK n \in Lengths : /\ n > got[at[w].call]
                             /\ got' = [got EXCEPT ![at[w].call] = n]
                             /\ Goto(w, IF n = RecLen THEN "sync" ELSE "write")
                             /\ NoFault
      BY <2>2, ZenonT(30)
    <3>1. at'[w].pc = "sync" => n = RecLen
      BY <1>0, GotoFacts
    <3>2. n \in Nat /\ safe' = safe /\ faults' \in Nat
      BY <2>0, Basics DEF NoFault, WriteAll
    <3> QED
      BY <2>0, <1>3, <3>1, <3>2
  <2> QED
    BY <2>1, <2>2 DEF WriteAll
<1>5. TypeOK'
    BY <1>0, <1>2, <1>4, ZenonT(30) DEF TypeOK, Quiet, AtType, history
<1>6. BytesInv'
  <2>1. maybe' = maybe /\ at'[w].call = at[w].call /\ \A v \in Writers : v # w => at'[v] = at[v]
    BY <1>2 DEF Quiet
  <2>2. \A v \in Writers : v # w /\ at[v].pc # "idle" => at[v].call \in Inodes /\ at[v].call # at[w].call
    BY <1>0, <1>1 DEF CallsInv, TypeOK
  <2>3. \A i \in Inodes : safe[i] \in Int /\ got[i] \in Int /\ got'[i] \in Int
    <3>1. safe \in [Inodes -> Lengths] /\ got \in [Inodes -> Lengths]
      BY <1>0 DEF TypeOK
    <3> QED
      BY <3>1, <1>4, Numbers
  <2>4. \A i \in maybe[Target] : i # None => i \in Inodes /\ i # at[w].call
    BY <1>0, <1>3, ZenonT(30) DEF TypeOK, Paths
  <2>5. at'[w].pc # "publish"
    BY <1>0, <1>1, GotoFacts
  <2> QED
    BY <1>0, <1>3, <1>4, <2>1, <2>2, <2>3, <2>4, <2>5 DEF BytesInv
<1> QED
    BY <1>2, <1>5, <1>6, QuietInv DEF Inv

\* A busy writer that has not published: its file is not at the path.
LEMMA Unpublished ==
    ASSUME TypeOK, CallsInv, RanksInv, NEW w \in Writers, Busy(w), ~Published(w)
    PROVE  /\ at[w].call \in Inodes /\ at[w].call \in 1 .. calls
           /\ rank[at[w].call] = 0 /\ at[w].call \notin maybe[Target]
<1>1. at[w].call \in 1 .. calls /\ rank[at[w].call] = 0 /\ at[w].call \in Inodes
    BY DEF CallsInv, RanksInv, TypeOK, Inodes
<1> QED
    BY <1>1, Basics DEF RanksInv, TypeOK

\* Two busy writers are in different calls.
LEMMA Others ==
    ASSUME TypeOK, CallsInv, NEW w \in Writers, Busy(w)
    PROVE  \A v \in Writers : v # w /\ Busy(v) =>
               at[v].call \in Inodes /\ at[v].call # at[w].call
    BY DEF CallsInv, TypeOK

LEMMA SyncFileInv ==
    ASSUME Inv, NEW w \in Writers, SyncFile(w)
    PROVE  Inv'
<1>0. TypeOK /\ CallsInv /\ RanksInv /\ BytesInv
    BY DEF Inv
<1>1. PICK l \in {"publish", "abandon"} : Goto(w, l) /\ at[w].pc = "sync"
    BY ZenonT(30) DEF SyncFile
<1>2. Quiet(w)
    BY <1>0, <1>1, GotoFacts DEF SyncFile, Quiet, AtType
<1>3. at[w].call \in Inodes /\ at[w].call \notin maybe[Target]
    BY <1>0, <1>1, Unpublished
<1>g. got \in [Inodes -> Lengths] /\ safe \in [Inodes -> Lengths] /\ faults \in Nat
    BY <1>0, ZenonT(30) DEF TypeOK
<1>4. /\ safe' \in [Inodes -> Lengths] /\ got' = got /\ faults' \in Nat
      /\ \A i \in Inodes : i # at[w].call => safe'[i] = safe[i]
      /\ safe'[at[w].call] \in {safe[at[w].call], got[at[w].call]}
      /\ at'[w].pc = "publish" => safe'[at[w].call] = got[at[w].call]
  <2>1. CASE Fault /\ Goto(w, "abandon") /\ UNCHANGED safe
    <3>1. at'[w].pc = "abandon" /\ faults' \in Nat /\ got' = got
      BY <2>1, <1>0, <1>g, GotoFacts DEF Fault, SyncFile
    <3> QED
      BY <2>1, <3>1, <1>g, ZenonT(30)
  <2>2. CASE /\ safe' = [safe EXCEPT ![at[w].call] = got[at[w].call]]
             /\ Goto(w, "publish") /\ NoFault
    BY <2>2, <1>g, <1>3 DEF NoFault, SyncFile
  <2> QED
    BY <2>1, <2>2 DEF SyncFile
<1>5. TypeOK'
    BY <1>0, <1>2, <1>4, ZenonT(30) DEF TypeOK, Quiet, AtType, history
<1>6. BytesInv'
  <2>1. maybe' = maybe /\ at'[w].call = at[w].call /\ \A v \in Writers : v # w => at'[v] = at[v]
    BY <1>2 DEF Quiet
  <2>2. \A v \in Writers : v # w /\ at[v].pc # "idle" => at[v].call \in Inodes /\ at[v].call # at[w].call
    BY <1>0, <1>1, Others, ZenonT(30)
  <2>3. \A i \in Inodes : safe[i] \in Int /\ got[i] \in Int /\ safe'[i] \in Int
    BY <1>g, <1>4, Numbers
  <2>4. \A i \in maybe[Target] : i # None => i \in Inodes /\ i # at[w].call
    BY <1>0, <1>3, ZenonT(30) DEF TypeOK, Paths
  <2>5. at'[w].pc # "sync" /\ got[at[w].call] = RecLen
    BY <1>0, <1>1, GotoFacts, ZenonT(30) DEF BytesInv
  <2> QED
    BY <1>0, <1>3, <1>4, <2>1, <2>2, <2>3, <2>4, <2>5 DEF BytesInv
<1> QED
    BY <1>2, <1>5, <1>6, QuietInv DEF Inv

\* A step after which each writer is idle or where it was keeps the ranks in order,
\* if it touches neither them nor the path.
LEMMA RanksKept ==
    ASSUME RanksInv, rank' = rank, top' = top, entry'[Target] = entry[Target],
           maybe'[Target] = maybe[Target],
           \A i \in Inodes \ {0} : (res'[i] = "err" => rank[i] = 0) /\ (res'[i] = "ok" => rank[i] > 0),
           \A v \in Writers : at'[v].pc = "idle" \/ at'[v] = at[v],
           \A v \in Writers : at'[v].checked <= top
    PROVE  RanksInv'
<1>1. \A i \in Inodes : rank'[i] <= top'
    BY DEF RanksInv
<1>2. \A i \in maybe'[Target] : i = None \/ i = 0 \/ rank'[i] > 0
    BY ZenonT(30) DEF RanksInv
<1>3. ASSUME NEW v \in Writers, Busy(v)'
      PROVE  /\ rank'[at'[v].call] > 0 <=> Published(v)'
             /\ Published(v)' =>
                    entry'[Target] # None /\ rank'[entry'[Target]] >= rank'[at'[v].call]
             /\ ~Published(v)' /\ at'[v].kind = "best_effort"
                /\ at'[v].pc # "check" /\ entry'[Target] # None =>
                    rank'[entry'[Target]] > at'[v].checked
  <2>1. at'[v] = at[v] /\ Busy(v)
    BY <1>3
  <2> QED
    BY <2>1 DEF RanksInv
<1>4. \A v \in Writers : Published(v)' => Busy(v)'
    OBVIOUS
<1> QED
    BY <1>1, <1>2, <1>3, <1>4, ZenonT(30) DEF RanksInv

\* The same for the durable files and their bytes.
LEMMA FilesKept ==
    ASSUME FloorInv, BytesInv, dir' = dir, floor' = floor, top' = top, rank' = rank,
           got' = got, safe' = safe, maybe'[Target] = maybe[Target],
           \A v \in Writers : at'[v].pc = "idle" \/ at'[v] = at[v]
    PROVE  FloorInv' /\ BytesInv'
<1>1. FloorInv'
    BY DEF FloorInv
<1>2. \A v \in Writers : at'[v].pc \in {"sync", "publish"} => at'[v] = at[v]
    OBVIOUS
<1>3. BytesInv'
    BY <1>2 DEF BytesInv
<1> QED
    BY <1>1, <1>3


-----------------------------------------------------------------------------
\* Writer w fails before it published, and every name stays.
GivesUp(w) ==
    /\ Return(w, "err")
    /\ at[w].pc \notin {"idle", "unlink", "syncdir"}
    /\ orphans \subseteq orphans' /\ orphans' \subseteq Inodes
    /\ HasTmp(w) => at[w].call \in orphans'
    /\ faults' \in Nat
    /\ UNCHANGED <<fs, rank, top, floor, calls>>

LEMMA GivesUpInv ==
    ASSUME Inv, NEW w \in Writers, GivesUp(w)
    PROVE  Inv'
<1>0. TypeOK /\ CallsInv /\ TmpsInv /\ RanksInv /\ FloorInv /\ BytesInv
    BY DEF Inv
<1>1. /\ dir' = dir /\ entry' = entry /\ maybe' = maybe /\ calls' = calls
      /\ got' = got /\ safe' = safe /\ private' = private
      /\ rank' = rank /\ top' = top /\ floor' = floor
    BY ZenonT(30) DEF GivesUp, fs
<1>2. /\ at' \in AtType /\ \A v \in Writers : v # w => at'[v] = at[v]
      /\ at'[w].pc = "idle" /\ at'[w].checked = 0
      /\ res' \in [Inodes -> {"none", "ok", "err"}]
      /\ res'[at[w].call] = "err"
      /\ \A i \in Inodes : i # at[w].call => res'[i] = res[i]
    BY <1>0, ReturnFacts DEF GivesUp, AtType
<1>3. at[w].call \in Inodes /\ at[w].call \in 1 .. calls /\ rank[at[w].call] = 0
    BY <1>0, Unpublished DEF GivesUp
<1>4. \A v \in Writers : v # w /\ Busy(v) => at[v].call \in Inodes /\ at[v].call # at[w].call
    BY <1>0, Others, ZenonT(30) DEF GivesUp
<1>t. TypeOK'
    BY <1>0, <1>1, <1>2, ZenonT(30) DEF TypeOK, AtType, GivesUp
<1>n. /\ top \in Nat /\ \A i \in Inodes : i > calls => i # at[w].call
      /\ \A v \in Writers : at[v].checked <= top
    BY <1>0, <1>3, Basics DEF TypeOK, RanksInv
<1>c. \A v \in Writers : at'[v].checked <= top
    BY <1>n, <1>2, Basics
<1>s. \A v \in Writers : at'[v].pc = "idle" \/ at'[v] = at[v]
    BY <1>2, ZenonT(30)
<1>5. CallsInv'
    BY <1>0, <1>1, <1>2, <1>3, <1>4, <1>n DEF CallsInv
<1>6. TmpsInv'
    BY <1>0, <1>1, <1>2, <1>4, TmpsKept, ZenonT(30) DEF GivesUp
<1>7. RanksInv'
  <2>1. \A i \in Inodes \ {0} : (res'[i] = "err" => rank[i] = 0) /\ (res'[i] = "ok" => rank[i] > 0)
    BY <1>0, <1>2, <1>3, ZenonT(30) DEF RanksInv
  <2> QED
    BY <1>0, <1>1, <1>c, <1>s, <2>1, RanksKept, ZenonT(30)
<1>8. FloorInv' /\ BytesInv'
    BY <1>0, <1>1, <1>s, FilesKept
<1> QED
    BY <1>t, <1>5, <1>6, <1>7, <1>8 DEF Inv

\* Writer w goes on without touching the files.
LEMMA QuietStepInv ==
    ASSUME Inv, NEW w \in Writers, Quiet(w), at'[w].pc \in {"create", "abandon"},
           UNCHANGED <<got, safe>>, faults' \in Nat
    PROVE  Inv'
<1>0. TypeOK /\ BytesInv
    BY DEF Inv
<1>1. TypeOK'
    BY <1>0, ZenonT(30) DEF TypeOK, Quiet, AtType, history
<1>2. maybe' = maybe /\ \A v \in Writers : v # w => at'[v] = at[v]
    BY DEF Quiet
<1>3. BytesInv'
    BY <1>0, <1>2 DEF BytesInv
<1> QED
    BY <1>1, <1>3, QuietInv DEF Inv

LEMMA PreCheckInv ==
    ASSUME Inv, NEW w \in Writers, PreCheck(w)
    PROVE  Inv'
<1>0. TypeOK /\ CallsInv /\ TmpsInv /\ RanksInv /\ FloorInv /\ BytesInv
    BY DEF Inv
<1>1. CASE Return(w, "err") /\ faults' \in Nat
  <2>1. GivesUp(w)
    BY <1>0, <1>1 DEF GivesUp, PreCheck, TypeOK
  <2> QED
    BY <2>1, GivesUpInv
<1>2. CASE /\ entry[Target] = None
           /\ at' = [at EXCEPT ![w].pc = "create", ![w].checked = top]
           /\ NoFault
           /\ UNCHANGED res
  <2>1. /\ dir' = dir /\ entry' = entry /\ maybe' = maybe /\ calls' = calls
        /\ got' = got /\ safe' = safe /\ private' = private /\ faults' = faults
        /\ rank' = rank /\ top' = top /\ floor' = floor /\ orphans' = orphans /\ res' = res
    BY <1>2 DEF PreCheck, fs, NoFault
  <2>2. /\ at' \in AtType /\ \A v \in Writers : v # w => at'[v] = at[v]
        /\ at'[w].pc = "create" /\ at'[w].checked = top /\ at'[w].call = at[w].call
        /\ at[w].pc = "check"
    <3>1. at \in AtType /\ top \in Nat /\ at[w].pc = "check"
      BY <1>0 DEF TypeOK, AtType, PreCheck
    <3> DEFINE new == [at[w] EXCEPT !.pc = "create", !.checked = top]
    <3>2. at' = [at EXCEPT ![w] = new]
      BY <1>2, <3>1, ZenonT(30) DEF AtType
    <3>3. /\ new \in [pc : Labels, call : Inodes, kind : Kinds,
                       tries : 0 .. MaxTries - 1, checked : Nat]
          /\ new.pc = "create" /\ new.checked = top /\ new.call = at[w].call
      BY <3>1, ZenonT(30) DEF AtType
    <3> HIDE DEF new
    <3> QED
      BY <3>1, <3>2, <3>3 DEF AtType
  <2>3. top \in Nat /\ top <= top
    BY <1>0 DEF TypeOK
  <2>t. TypeOK'
    BY <1>0, <2>1, <2>2, ZenonT(30) DEF TypeOK, AtType
  <2>4. CallsInv'
    BY <1>0, <2>1, <2>2 DEF CallsInv
  <2>5. TmpsInv'
    BY <1>0, <2>1, <2>2, TmpsKept
  <2>6. RanksInv'
    BY <1>0, <1>2, <2>1, <2>2, <2>3, ZenonT(30) DEF RanksInv
  <2>7. FloorInv' /\ BytesInv'
    BY <1>0, <2>1, <2>2 DEF FloorInv, BytesInv
  <2> QED
    BY <2>t, <2>4, <2>5, <2>6, <2>7 DEF Inv
<1> QED
  <2>1. faults + 1 \in Nat /\ faults \in Nat
    BY <1>0 DEF TypeOK
  <2> QED
    BY <1>1, <1>2, <2>1 DEF PreCheck, Fault, NoFault

LEMMA CreateTmpInv ==
    ASSUME Inv, NEW w \in Writers, CreateTmp(w)
    PROVE  Inv'
<1>0. TypeOK /\ CallsInv /\ TmpsInv /\ RanksInv /\ FloorInv /\ BytesInv
    BY DEF Inv
<1>c. at[w].pc = "create" /\ faults \in Nat /\ faults + 1 \in Nat
    BY <1>0 DEF CreateTmp, TypeOK
<1>1. CASE Return(w, "err") /\ UNCHANGED <<entry, maybe, private>> /\ faults' \in Nat
  <2>1. GivesUp(w)
    BY <1>0, <1>1, <1>c DEF GivesUp, CreateTmp, TypeOK, fs
  <2> QED
    BY <2>1, GivesUpInv
<1>2. CASE /\ at[w].tries + 1 < MaxTries
           /\ at' = [at EXCEPT ![w].tries = @ + 1] /\ UNCHANGED res
           /\ UNCHANGED <<entry, maybe, private>> /\ NoFault
  <2>1. at[w].tries + 1 \in 0 .. MaxTries - 1
    BY <1>0, <1>2, WritesAssumption DEF TypeOK
  <2>2. Quiet(w) /\ at'[w].pc = "create"
    BY <1>0, <1>2, <1>c, <2>1 DEF Quiet, CreateTmp, TypeOK, AtType, history
  <2>3. UNCHANGED <<got, safe>> /\ faults' \in Nat
    BY <1>2, <1>c DEF CreateTmp, NoFault
  <2> QED
    BY <2>2, <2>3, QuietStepInv
<1>3. CASE \E n \in Tmps :
              /\ entry[n] = None
              /\ Point([entry EXCEPT ![n] = at[w].call])
              /\ private' = private \cup {at[w].call}
              /\ at' = [at EXCEPT ![w].pc = "write", ![w].tries = 0]
              /\ NoFault
              /\ UNCHANGED res
  <2>p. PICK n \in Tmps :
              /\ entry[n] = None
              /\ Point([entry EXCEPT ![n] = at[w].call])
              /\ private' = private \cup {at[w].call}
              /\ at' = [at EXCEPT ![w].pc = "write", ![w].tries = 0]
              /\ NoFault
              /\ UNCHANGED res
    BY <1>3, ZenonT(30)
  <2>1. /\ dir' = dir /\ calls' = calls /\ got' = got /\ safe' = safe /\ faults' = faults
        /\ rank' = rank /\ top' = top /\ floor' = floor /\ orphans' = orphans /\ res' = res
    BY <2>p DEF CreateTmp, NoFault
  <2>2. /\ at' \in AtType /\ \A v \in Writers : v # w => at'[v] = at[v]
        /\ at'[w].pc = "write" /\ at'[w].checked = at[w].checked /\ at'[w].call = at[w].call
        /\ at'[w].kind = at[w].kind
    <3>1. at \in AtType /\ 0 \in 0 .. MaxTries - 1 /\ "write" \in Labels
      BY <1>0, WritesAssumption DEF AtType, TypeOK
    <3>2. at' = [at EXCEPT ![w] = [at[w] EXCEPT !.pc = "write", !.tries = 0]]
      BY <2>p, <3>1, ZenonT(30) DEF AtType
    <3>3. [at[w] EXCEPT !.pc = "write", !.tries = 0] \in
              [pc : Labels, call : Inodes, kind : Kinds, tries : 0 .. MaxTries - 1, checked : Nat]
      BY <3>1, ZenonT(30) DEF AtType
    <3> QED
      BY <3>1, <3>2, <3>3, ZenonT(30) DEF AtType
  <2>v. \A v \in Writers :
          /\ at'[v].call = at[v].call /\ at'[v].kind = at[v].kind
          /\ at'[v].checked = at[v].checked
          /\ (Busy(v)' <=> Busy(v)) /\ (Published(v)' <=> Published(v))
          /\ (Early(v)' => Early(v) /\ v # w) /\ (HasTmp(v)' => HasTmp(v) \/ v = w)
          /\ (HasTmp(v) => HasTmp(v)') /\ (at'[v].pc # "check" => at[v].pc # "check" \/ v = w)
    <3> TAKE v \in Writers
    <3>1. CASE v = w
      BY <3>1, <1>c, <2>2, ZenonT(30)
    <3>2. CASE v # w
      <4>1. at'[v] = at[v]
        BY <3>2, <2>2, ZenonT(30)
      <4> QED
        BY <3>2, <4>1
    <3> QED
      BY <3>1, <3>2, ZenonT(30)
  <2>3. /\ n \in Paths /\ n # Target /\ at[w].call \in Inodes
        /\ at[w].call \in 1 .. calls /\ at[w].call <= calls
        /\ \A p \in Paths : at[w].call \notin maybe[p] /\ entry[p] # at[w].call
    <3>1. n \in Paths /\ n # Target
      BY Basics
    <3>2. at[w].call \in Inodes /\ at[w].call \in 1 .. calls
      BY <1>0, <1>c, Unpublished
    <3>3. \A p \in Paths : at[w].call \notin maybe[p] /\ entry[p] # at[w].call
      BY <1>0, <1>c DEF CallsInv
    <3> QED
      BY <3>1, <3>2, <3>3, Basics
  <2>4. /\ entry' \in [Paths -> Inodes \cup {None}]
        /\ entry'[n] = at[w].call /\ \A p \in Paths : p # n => entry'[p] = entry[p]
    BY <2>p, <1>0, <2>3 DEF Point, TypeOK
  <2>5. /\ maybe' \in [Paths -> SUBSET (Inodes \cup {None})]
        /\ maybe'[n] = maybe[n] \cup {at[w].call}
        /\ \A p \in Paths : p # n => maybe'[p] = maybe[p]
    <3>1. maybe' = [p \in Paths |-> maybe[p] \cup {entry'[p]}]
      BY <2>p DEF Point
    <3>2. maybe \in [Paths -> SUBSET (Inodes \cup {None})] /\ \A p \in Paths : entry[p] \in maybe[p]
      BY <1>0, ZenonT(30) DEF TypeOK, CallsInv
    <3> QED
      BY <3>1, <3>2, <2>3, <2>4
  <2>6. entry'[Target] = entry[Target] /\ maybe'[Target] = maybe[Target]
    BY <2>3, <2>4, <2>5, Basics, ZenonT(30)
  <2>7. \A v \in Writers : v # w /\ Busy(v) => at[v].call \in Inodes /\ at[v].call # at[w].call
    BY <1>0, <1>c, Others
  <2>t. TypeOK'
    BY <2>p, <1>0, <2>1, <2>2, <2>3, <2>4, <2>5, ZenonT(30) DEF TypeOK, AtType
  <2>8. CallsInv'
    <3>1. \A p \in Paths : entry'[p] \in maybe'[p]
      BY <1>0, <2>4, <2>5, ZenonT(30) DEF CallsInv
    <3>2. \A p \in Paths : \A i \in maybe'[p] : i # None => i <= calls
      BY <1>0, <2>3, <2>5 DEF CallsInv
    <3>3. \A v \in Writers : Early(v)' => \A p \in Paths : at'[v].call \notin maybe'[p]
      BY <1>0, <2>3, <2>5, <2>7, <2>v DEF CallsInv
    <3> QED
      BY <1>0, <2>1, <2>v, <3>1, <3>2, <3>3 DEF CallsInv
  <2>9. TmpsInv'
    <3>0. Tmps \subseteq Paths /\ at[w].call # None
      BY <2>3, Basics
    <3>1. \A v \in Writers : HasTmp(v)' => \E m \in Tmps : entry'[m] = at'[v].call
      <4> SUFFICES ASSUME NEW v \in Writers, HasTmp(v)' PROVE \E m \in Tmps : entry'[m] = at[v].call
        BY <2>v
      <4>1. CASE v = w
        BY <4>1, <2>4
      <4>2. CASE v # w
        <5>1. PICK m \in Tmps : entry[m] = at[v].call
          BY <4>2, <1>0, <2>v, ZenonT(30) DEF TmpsInv
        <5>2. at[v].call \in Inodes
          BY <1>0 DEF TypeOK
        <5>3. m # n /\ m \in Paths
          BY <2>p, <5>1, <5>2, <3>0, Basics
        <5> QED
          BY <5>1, <5>3, <2>4
      <4> QED
        BY <4>1, <4>2
    <3>2. \A v \in Writers : HasTmp(v)' =>
             \A k, m \in Tmps : entry'[k] = at'[v].call /\ entry'[m] = at'[v].call => k = m
      <4> SUFFICES ASSUME NEW v \in Writers, HasTmp(v)', NEW k \in Tmps, NEW m \in Tmps,
                          entry'[k] = at[v].call, entry'[m] = at[v].call
                   PROVE  k = m
        BY <2>v
      <4>1. CASE v = w
        BY <4>1, <2>3, <2>4, <3>0, ZenonT(30)
      <4>2. CASE v # w
        <5>1. Busy(v) /\ HasTmp(v)
          BY <4>2, <2>v, ZenonT(30)
        <5>2. at[v].call # at[w].call
          BY <4>2, <5>1, <2>7
        <5> QED
          BY <1>0, <5>1, <5>2, <2>4, <3>0 DEF TmpsInv
      <4> QED
        BY <4>1, <4>2, ZenonT(30)
    <3>3. TmpsAreAccountedFor'
      <4> SUFFICES ASSUME NEW m \in Tmps, entry'[m] # None
                   PROVE  entry'[m] \in orphans \/ \E v \in Writers : HasTmp(v)' /\ at'[v].call = entry'[m]
        BY <2>1, ZenonT(30) DEF TmpsAreAccountedFor
      <4>1. CASE m = n
        BY <4>1, <2>2, <2>4, <2>3, ZenonT(30)
      <4>2. CASE m # n
        BY <4>2, <1>0, <2>4, <2>v, <3>0 DEF TmpsInv, TmpsAreAccountedFor
      <4> QED
        BY <4>1, <4>2
    <3> QED
      BY <3>1, <3>2, <3>3 DEF TmpsInv
  <2>10. RanksInv'
    BY <1>0, <1>c, <2>1, <2>v, <2>6 DEF RanksInv
  <2>11. FloorInv' /\ BytesInv'
    BY <1>0, <2>1, <2>2, <2>6, ZenonT(30) DEF FloorInv, BytesInv
  <2> QED
    BY <2>t, <2>8, <2>9, <2>10, <2>11 DEF Inv
<1> QED
    BY <1>1, <1>2, <1>3, <1>c, ZenonT(30) DEF CreateTmp, Fault, NoFault

-----------------------------------------------------------------------------
\* The entries change to e.
LEMMA PointFacts ==
    ASSUME TypeOK, CallsInv, NEW e \in [Paths -> Inodes \cup {None}], Point(e)
    PROVE  /\ entry' = e
           /\ maybe' \in [Paths -> SUBSET (Inodes \cup {None})]
           /\ \A p \in Paths : maybe'[p] = maybe[p] \cup {e[p]}
           /\ \A p \in Paths : e[p] = entry[p] => maybe'[p] = maybe[p]
           /\ \A p \in Paths : entry'[p] \in maybe'[p]
<1>1. entry' = e /\ maybe' = [p \in Paths |-> maybe[p] \cup {e[p]}]
    BY DEF Point
<1>2. maybe \in [Paths -> SUBSET (Inodes \cup {None})] /\ \A p \in Paths : entry[p] \in maybe[p]
    BY DEF TypeOK, CallsInv
<1> QED
    BY <1>1, <1>2

\* Writer w gives its tmp up for good.
LEMMA TmpGoneInv ==
    ASSUME TypeOK, CallsInv, TmpsInv, NEW w \in Writers, HasTmp(w), ~HasTmp(w)',
           \A v \in Writers : v # w => at'[v] = at[v],
           orphans' = orphans,
           entry'[TmpOf(w)] = None,
           \A n \in Tmps : n # TmpOf(w) => entry'[n] = entry[n]
    PROVE  TmpsInv'
<1>0. TmpOf(w) \in Tmps /\ entry[TmpOf(w)] = at[w].call
    BY TmpOfFacts, ZenonT(30)
<1>1. \A v \in Writers : HasTmp(v)' => v # w /\ HasTmp(v) /\ at'[v].call = at[v].call
                                       /\ at[v].call # at[w].call /\ at[v].call # None
  <2> TAKE v \in Writers
  <2> HAVE HasTmp(v)'
  <2>1. v # w
    BY ZenonT(30)
  <2>2. at'[v] = at[v]
    BY <2>1, ZenonT(30)
  <2>3. HasTmp(v)
    BY <2>2, ZenonT(30)
  <2>4. at[v].call \in Inodes /\ at[v].call # at[w].call
    BY <2>1, <2>3, Others, ZenonT(30)
  <2> QED
    BY <2>1, <2>2, <2>3, <2>4, Basics, ZenonT(30)
<1>2. \A v \in Writers : HasTmp(v)' => \E m \in Tmps : entry'[m] = at'[v].call
  <2> SUFFICES ASSUME NEW v \in Writers, HasTmp(v)' PROVE \E m \in Tmps : entry'[m] = at'[v].call
    BY ZenonT(30)
  <2>1. PICK m \in Tmps : entry[m] = at[v].call
    BY <1>1, ZenonT(30) DEF TmpsInv
  <2> QED
    BY <1>0, <1>1, <2>1, ZenonT(30)
<1>3. \A v \in Writers : HasTmp(v)' =>
         \A k, m \in Tmps : entry'[k] = at'[v].call /\ entry'[m] = at'[v].call => k = m
  <2> SUFFICES ASSUME NEW v \in Writers, HasTmp(v)', NEW k \in Tmps, NEW m \in Tmps,
                      entry'[k] = at'[v].call, entry'[m] = at'[v].call
               PROVE  k = m
    BY ZenonT(30)
  <2>1. k # TmpOf(w) /\ m # TmpOf(w)
    BY <1>1, ZenonT(30)
  <2> QED
    BY <1>1, <2>1 DEF TmpsInv
<1>4. TmpsAreAccountedFor'
  <2> SUFFICES ASSUME NEW m \in Tmps, entry'[m] # None
               PROVE  entry'[m] \in orphans \/ \E v \in Writers : HasTmp(v)' /\ at'[v].call = entry'[m]
    BY DEF TmpsAreAccountedFor
  <2>1. m # TmpOf(w) /\ entry'[m] = entry[m]
    BY ZenonT(30)
  <2>2. entry[m] # at[w].call
    BY <1>0, <2>1, ZenonT(30) DEF TmpsInv
  <2>3. CASE entry[m] \in orphans
    BY <2>1, <2>3, ZenonT(30)
  <2>4. CASE \E v \in Writers : HasTmp(v) /\ at[v].call = entry[m]
    <3>1. PICK v \in Writers : HasTmp(v) /\ at[v].call = entry[m]
      BY <2>4, ZenonT(30)
    <3>2. v # w
      BY <2>2, <3>1
    <3>3. at'[v] = at[v]
      BY <3>2, ZenonT(30)
    <3> QED
      BY <2>1, <3>1, <3>3, ZenonT(30)
  <2> QED
    BY <2>1, <2>3, <2>4, ZenonT(30) DEF TmpsInv, TmpsAreAccountedFor
<1> QED
    BY <1>2, <1>3, <1>4, ZenonT(30) DEF TmpsInv

LEMMA AbandonInv ==
    ASSUME Inv, NEW w \in Writers, Abandon(w)
    PROVE  Inv'
<1>0. TypeOK /\ CallsInv /\ TmpsInv /\ RanksInv /\ FloorInv /\ BytesInv
    BY DEF Inv
<1>c. at[w].pc = "abandon" /\ faults \in Nat /\ faults + 1 \in Nat
    BY <1>0 DEF Abandon, TypeOK
<1>1. CASE /\ Fault /\ orphans' = orphans \cup {at[w].call}
           /\ UNCHANGED <<entry, maybe>>
  <2>1. at[w].call \in Inodes /\ orphans \subseteq Inodes
    BY <1>0, ZenonT(30) DEF TypeOK
  <2>2. GivesUp(w)
    BY <1>0, <1>1, <1>c, <2>1 DEF GivesUp, Abandon, fs, Fault
  <2> QED
    BY <2>2, GivesUpInv
<1>2. CASE Point([entry EXCEPT ![TmpOf(w)] = None]) /\ NoFault /\ UNCHANGED orphans
  <2>1. /\ dir' = dir /\ calls' = calls /\ got' = got /\ safe' = safe /\ private' = private
        /\ rank' = rank /\ top' = top /\ floor' = floor /\ orphans' = orphans /\ faults' = faults
    BY <1>2, ZenonT(30) DEF Abandon, NoFault
  <2>2. /\ at' \in AtType /\ \A v \in Writers : v # w => at'[v] = at[v]
        /\ at'[w].pc = "idle" /\ at'[w].checked = 0
        /\ res' \in [Inodes -> {"none", "ok", "err"}]
        /\ res'[at[w].call] = "err"
        /\ \A i \in Inodes : i # at[w].call => res'[i] = res[i]
    BY <1>0, ReturnFacts, ZenonT(30) DEF Abandon, AtType
  <2>3. TmpOf(w) \in Tmps /\ TmpOf(w) \in Paths /\ TmpOf(w) # Target
    BY <1>0, <1>c, TmpOfFacts, Basics, ZenonT(30)
  <2>4. /\ entry' \in [Paths -> Inodes \cup {None}]
        /\ entry'[TmpOf(w)] = None /\ \A p \in Paths : p # TmpOf(w) => entry'[p] = entry[p]
    BY <1>0, <1>2, <2>3 DEF Point, TypeOK
  <2>5. /\ maybe' \in [Paths -> SUBSET (Inodes \cup {None})]
        /\ \A p \in Paths : maybe'[p] \subseteq maybe[p] \cup {None}
        /\ maybe'[Target] = maybe[Target]
        /\ \A p \in Paths : entry'[p] \in maybe'[p]
    <3>1. [entry EXCEPT ![TmpOf(w)] = None] \in [Paths -> Inodes \cup {None}]
      BY <1>0, <2>3 DEF TypeOK
    <3>2. \A p \in Paths : entry[p] \in maybe[p]
      BY <1>0 DEF CallsInv
    <3>3. Target \in Paths
      BY Basics, ZenonT(30)
    <3> QED
      BY <1>0, <1>2, <2>3, <2>4, <3>1, <3>2, <3>3, PointFacts, ZenonT(30)
  <2>6. at[w].call \in Inodes /\ at[w].call \in 1 .. calls /\ rank[at[w].call] = 0
        /\ at[w].call # None
    BY <1>0, <1>c, Unpublished, Basics
  <2>7. \A v \in Writers : v # w /\ Busy(v) => at[v].call \in Inodes /\ at[v].call # at[w].call
                                                /\ at[v].call # None
    BY <1>0, <1>c, Others, Basics, ZenonT(30)
  <2>8. /\ top \in Nat /\ \A i \in Inodes : i > calls => i # at[w].call
        /\ \A v \in Writers : at[v].checked <= top
    BY <1>0, <2>6, Basics DEF TypeOK, RanksInv
  <2>9. \A v \in Writers : at'[v].checked <= top
    BY <2>8, <2>2, Basics
  <2>s. \A v \in Writers : at'[v].pc = "idle" \/ at'[v] = at[v]
    BY <2>2
  <2>e. entry'[Target] = entry[Target]
    BY <2>3, <2>4, Basics, ZenonT(30)
  <2>t. TypeOK'
    BY <1>0, <2>1, <2>2, <2>4, <2>5, ZenonT(30) DEF TypeOK, AtType
  <2>10. CallsInv'
    <3>1. \A v \in Writers : Busy(v)' => v # w /\ Busy(v) /\ at'[v] = at[v]
      BY <2>2, ZenonT(30)
    <3>2. \A v \in Writers : Busy(v)' => at'[v].call \in 1 .. calls' /\ res'[at'[v].call] = "none"
      BY <1>0, <2>1, <2>2, <2>7, <3>1 DEF CallsInv
    <3>3. \A u, v \in Writers : Busy(u)' /\ Busy(v)' /\ at'[u].call = at'[v].call => u = v
      BY <1>0, <3>1 DEF CallsInv
    <3>4. \A i \in Inodes : i > calls' => res'[i] = "none" /\ rank'[i] = 0
      BY <1>0, <2>1, <2>2, <2>8 DEF CallsInv
    <3>5. \A p \in Paths : \A i \in maybe'[p] : i # None => i \in maybe[p] /\ i <= calls'
      BY <1>0, <2>1, <2>5, ZenonT(30) DEF CallsInv
    <3>6. \A v \in Writers : Early(v)' => \A p \in Paths : at'[v].call \notin maybe'[p]
      <4>1. \A v \in Writers : Early(v)' => Early(v) /\ v # w /\ Busy(v) /\ at'[v].call = at[v].call
        BY <3>1
      <4> QED
        BY <1>0, <2>7, <3>5, <4>1, ZenonT(30) DEF CallsInv
    <3> QED
      BY <2>5, <3>2, <3>3, <3>4, <3>5, <3>6, ZenonT(30) DEF CallsInv
  <2>11. TmpsInv'
    <3>1. \A n \in Tmps : n # TmpOf(w) => entry'[n] = entry[n]
      BY <2>4, Basics, ZenonT(30)
    <3>2. HasTmp(w) /\ ~HasTmp(w)'
      BY <1>c, <2>2, ZenonT(30)
    <3> QED
      BY <1>0, <2>1, <2>2, <2>4, <3>1, <3>2, TmpGoneInv, ZenonT(30)
  <2>12. RanksInv'
    <3>1. \A i \in Inodes \ {0} : (res'[i] = "err" => rank[i] = 0) /\ (res'[i] = "ok" => rank[i] > 0)
      BY <1>0, <2>2, <2>6, ZenonT(30) DEF RanksInv
    <3> QED
      BY <1>0, <2>1, <2>5, <2>9, <2>e, <2>s, <3>1, RanksKept
  <2>13. FloorInv' /\ BytesInv'
    BY <1>0, <2>1, <2>5, <2>s, FilesKept, ZenonT(30)
  <2> QED
    BY <2>t, <2>10, <2>11, <2>12, <2>13 DEF Inv
<1> QED
    BY <1>1, <1>2, ZenonT(30) DEF Abandon, RemoveTmp

\* The tmp of a published file is removed, or is left for good.
LEMMA UnlinkInv ==
    ASSUME Inv, NEW w \in Writers, Unlink(w)
    PROVE  Inv'
<1>0. TypeOK /\ CallsInv /\ TmpsInv /\ RanksInv /\ FloorInv /\ BytesInv
    BY DEF Inv
<1>c. at[w].pc = "unlink" /\ faults \in Nat /\ faults + 1 \in Nat /\ at[w].call \in Inodes
      /\ orphans \subseteq Inodes
    BY <1>0 DEF Unlink, TypeOK
<1>1. /\ dir' = dir /\ calls' = calls /\ got' = got /\ safe' = safe /\ private' = private
      /\ rank' = rank /\ top' = top /\ floor' = floor /\ res' = res
    BY DEF Unlink
<1>2. /\ at' \in AtType /\ \A v \in Writers : v # w => at'[v] = at[v]
      /\ at'[w].pc = "syncdir" /\ at'[w].call = at[w].call
      /\ at'[w].kind = at[w].kind /\ at'[w].checked = at[w].checked
    BY <1>0, GotoFacts, ZenonT(30) DEF Unlink, AtType
<1>v. \A v \in Writers :
        /\ at'[v].call = at[v].call /\ at'[v].kind = at[v].kind
        /\ at'[v].checked = at[v].checked
        /\ (Busy(v)' <=> Busy(v)) /\ (Published(v)' <=> Published(v))
        /\ (Early(v)' <=> Early(v)) /\ (HasTmp(v)' <=> HasTmp(v) /\ v # w)
        /\ (at'[v].pc = "check" <=> at[v].pc = "check")
  <2> TAKE v \in Writers
  <2>1. CASE v = w
    BY <2>1, <1>c, <1>2, ZenonT(30)
  <2>2. CASE v # w
    <3>1. at'[v] = at[v]
      BY <2>2, <1>2, ZenonT(30)
    <3> QED
      BY <2>2, <3>1, ZenonT(30)
  <2> QED
    BY <2>1, <2>2, ZenonT(30)
<1>3. /\ entry' \in [Paths -> Inodes \cup {None}] /\ entry'[Target] = entry[Target]
      /\ maybe' \in [Paths -> SUBSET (Inodes \cup {None})]
      /\ \A p \in Paths : maybe'[p] \subseteq maybe[p] \cup {None}
      /\ maybe'[Target] = maybe[Target]
      /\ \A p \in Paths : entry'[p] \in maybe'[p]
      /\ orphans' \subseteq Inodes /\ faults' \in Nat
      /\ TmpsInv'
  <2>0. /\ entry \in [Paths -> Inodes \cup {None}]
        /\ maybe \in [Paths -> SUBSET (Inodes \cup {None})]
        /\ \A p \in Paths : entry[p] \in maybe[p]
    BY <1>0, ZenonT(30) DEF TypeOK, CallsInv
  <2>1. CASE /\ Fault /\ orphans' = orphans \cup {at[w].call}
             /\ UNCHANGED <<entry, maybe>>
    <3>1. TmpsInv'
      BY <1>0, <1>v, <2>1, TmpsKept
    <3> QED
      BY <1>c, <2>0, <2>1, <3>1, ZenonT(30) DEF Fault
  <2>2. CASE Point([entry EXCEPT ![TmpOf(w)] = None]) /\ NoFault /\ UNCHANGED orphans
    <3>1. TmpOf(w) \in Tmps /\ TmpOf(w) \in Paths /\ TmpOf(w) # Target /\ Target \in Paths
      BY <1>0, <1>c, TmpOfFacts, Basics
    <3>2. [entry EXCEPT ![TmpOf(w)] = None] \in [Paths -> Inodes \cup {None}]
      BY <2>0, <3>1
    <3>3. /\ entry' \in [Paths -> Inodes \cup {None}]
          /\ entry'[TmpOf(w)] = None /\ \A p \in Paths : p # TmpOf(w) => entry'[p] = entry[p]
      BY <2>0, <2>2, <3>1 DEF Point
    <3>4. /\ maybe' \in [Paths -> SUBSET (Inodes \cup {None})]
          /\ \A p \in Paths : maybe'[p] \subseteq maybe[p] \cup {None}
          /\ maybe'[Target] = maybe[Target]
          /\ \A p \in Paths : entry'[p] \in maybe'[p]
      BY <1>0, <2>0, <2>2, <3>1, <3>2, <3>3, PointFacts, ZenonT(30)
    <3>5. TmpsInv'
      <4>1. \A n \in Tmps : n # TmpOf(w) => entry'[n] = entry[n]
        BY <3>3, Basics, ZenonT(30)
      <4>2. HasTmp(w) /\ ~HasTmp(w)'
        BY <1>c, <1>2
      <4> QED
        BY <1>0, <1>2, <2>2, <3>3, <4>1, <4>2, TmpGoneInv, ZenonT(30)
    <3>6. orphans' \subseteq Inodes /\ faults' \in Nat
      BY <1>c, <2>2, ZenonT(30) DEF NoFault
    <3> QED
      BY <3>1, <3>3, <3>4, <3>5, <3>6, ZenonT(30)
  <2> QED
    BY <2>1, <2>2 DEF Unlink, RemoveTmp
<1>t. TypeOK'
    BY <1>0, <1>1, <1>2, <1>3 DEF TypeOK, AtType
<1>4. CallsInv'
  <2>1. \A v \in Writers : Busy(v) => at[v].call # None
    BY <1>0, Basics DEF TypeOK
  <2>b. \A v \in Writers : Busy(v)' => at'[v].call \in 1 .. calls' /\ res'[at'[v].call] = "none"
    <3> SUFFICES ASSUME NEW v \in Writers, Busy(v)'
                 PROVE  at'[v].call \in 1 .. calls' /\ res'[at'[v].call] = "none"
      BY ZenonT(30)
    <3>1. Busy(v) /\ at'[v].call = at[v].call
      BY <1>v
    <3>2. at[v].call \in 1 .. calls /\ res[at[v].call] = "none"
      BY <1>0, <3>1, ZenonT(30) DEF CallsInv
    <3> QED
      BY <1>1, <3>1, <3>2, ZenonT(30)
  <2>2. \A v, u \in Writers : Busy(v)' /\ Busy(u)' /\ at'[v].call = at'[u].call => v = u
    <3> SUFFICES ASSUME NEW v \in Writers, NEW u \in Writers, Busy(v)', Busy(u)',
                        at'[v].call = at'[u].call
                 PROVE  v = u
      BY ZenonT(30)
    <3>1. Busy(v) /\ Busy(u) /\ at[v].call = at[u].call
      BY <1>v
    <3> QED
      BY <1>0, <3>1, ZenonT(30) DEF CallsInv
  <2>3. \A i \in Inodes : i > calls' => res'[i] = "none" /\ rank'[i] = 0
    BY <1>0, <1>1, ZenonT(30) DEF CallsInv
  <2>4. \A p \in Paths : \A i \in maybe'[p] : i # None => i <= calls'
    BY <1>0, <1>1, <1>3, ZenonT(30) DEF CallsInv
  <2>5. \A v \in Writers : Early(v)' => \A p \in Paths : at'[v].call \notin maybe'[p]
    <3> SUFFICES ASSUME NEW v \in Writers, Early(v)', NEW p \in Paths
                 PROVE  at'[v].call \notin maybe'[p]
      BY ZenonT(30)
    <3>1. Early(v) /\ at'[v].call = at[v].call
      BY <1>v, ZenonT(30)
    <3>2. at[v].call \notin maybe[p] /\ at[v].call # None
      BY <1>0, <2>1, <3>1 DEF CallsInv
    <3> QED
      BY <1>3, <3>1, <3>2, ZenonT(30)
  <2> QED
    BY <1>3, <2>b, <2>2, <2>3, <2>4, <2>5, ZenonT(30) DEF CallsInv
<1>5. RanksInv'
    BY <1>0, <1>1, <1>v, <1>3, ZenonT(30) DEF RanksInv
<1>6. FloorInv'
    BY <1>0, <1>1, <1>3 DEF FloorInv
<1>7. BytesInv'
    BY <1>0, <1>1, <1>2, <1>3, ZenonT(30) DEF BytesInv
<1> QED
    BY <1>t, <1>3, <1>4, <1>5, <1>6, <1>7, ZenonT(30) DEF Inv
=============================================================================
