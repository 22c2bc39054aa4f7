------------------------ MODULE KeyfileWritesProofs -------------------------
(***************************************************************************)
(* Proofs that the write path of keyfile.rs keeps its promises for any     *)
(* number of writers, names, calls and faults: publication, the end of a   *)
(* call, its start, kills and power losses preserve the invariant, and the *)
(* theorems follow.                                                        *)
(***************************************************************************)
EXTENDS KeyfileWritesSteps

USE DEF Busy, Early, Published, HasTmp, Labels

(***************************************************************************)
(* Writer w publishes its file: the path names it, and the tmp is still    *)
(* there (hard_link) or is gone (rename).                                  *)
(***************************************************************************)
Publishes(w) ==
    /\ at[w].pc = "publish"
    /\ at' \in AtType /\ \A v \in Writers : v # w => at'[v] = at[v]
    /\ at'[w].pc \in {"unlink", "syncdir"} /\ at'[w].call = at[w].call
    /\ at'[w].checked = at[w].checked
    /\ Publish(at[w].call)
    /\ entry' \in [Paths -> Inodes \cup {None}]
    /\ entry'[Target] = at[w].call
    /\ maybe' \in [Paths -> SUBSET (Inodes \cup {None})]
    /\ maybe'[Target] = maybe[Target] \cup {at[w].call}
    /\ \A n \in Tmps : maybe'[n] \subseteq maybe[n] \cup {None}
    /\ \A p \in Paths : entry'[p] \in maybe'[p]
    /\ TmpsInv'
    /\ UNCHANGED <<dir, got, safe, private, res, floor, orphans, calls, faults>>

LEMMA PublishesInv ==
    ASSUME Inv, NEW w \in Writers, Publishes(w)
    PROVE  Inv'
<1>0. TypeOK /\ CallsInv /\ RanksInv /\ FloorInv /\ BytesInv
    BY DEF Inv
<1>1. /\ dir' = dir /\ calls' = calls /\ got' = got /\ safe' = safe /\ private' = private
      /\ floor' = floor /\ res' = res /\ orphans' = orphans /\ faults' = faults
    BY DEF Publishes
<1>2. /\ at' \in AtType /\ \A v \in Writers : v # w => at'[v] = at[v]
      /\ at'[w].pc \in {"unlink", "syncdir"} /\ at'[w].call = at[w].call
      /\ at'[w].checked = at[w].checked /\ at[w].pc = "publish"
    BY DEF Publishes
<1>3. /\ at[w].call \in Inodes /\ at[w].call \in 1 .. calls /\ rank[at[w].call] = 0
      /\ at[w].call # None /\ at[w].call # 0
    BY <1>0, <1>2, Unpublished, Basics
<1>4. /\ top \in Nat /\ floor \in Int /\ calls \in Nat /\ rank \in [Inodes -> Nat]
    BY <1>0, Basics DEF TypeOK
<1>5. /\ top' = top + 1 /\ top' \in Nat /\ rank' \in [Inodes -> Nat]
      /\ rank'[at[w].call] = top + 1
      /\ \A i \in Inodes : i # at[w].call => rank'[i] = rank[i]
    BY <1>3, <1>4 DEF Publishes, Publish
<1>6. /\ entry'[Target] = at[w].call /\ maybe'[Target] = maybe[Target] \cup {at[w].call}
      /\ entry' \in [Paths -> Inodes \cup {None}]
      /\ maybe' \in [Paths -> SUBSET (Inodes \cup {None})]
      /\ \A n \in Tmps : maybe'[n] \subseteq maybe[n] \cup {None}
      /\ \A p \in Paths : entry'[p] \in maybe'[p]
    BY DEF Publishes
<1>7. \A v \in Writers : v # w /\ Busy(v) => at[v].call \in Inodes /\ at[v].call # at[w].call
                                              /\ at[v].call # None
    BY <1>0, <1>2, Others, Basics
<1>m. \A i \in maybe[Target] : i # None => i \in Inodes
    BY <1>0, Basics DEF TypeOK
<1>t. TypeOK'
    BY <1>0, <1>1, <1>2, <1>5, <1>6, ZenonT(30) DEF TypeOK, AtType
<1>8. CallsInv'
  <2>1. \A i \in Inodes : i > calls => i # at[w].call
    BY <1>3, <1>4, Basics
  <2>2. \A p \in Paths : \A i \in maybe'[p] : i # None => i <= calls
    <3>1. at[w].call <= calls
      BY <1>3, <1>4
    <3> QED
      BY <1>0, <1>6, <3>1 DEF CallsInv, Paths
  <2>3. \A v \in Writers : Early(v)' => \A p \in Paths : at'[v].call \notin maybe'[p]
    <3> SUFFICES ASSUME NEW v \in Writers, Early(v)', NEW p \in Paths
                 PROVE  at'[v].call \notin maybe'[p]
      OBVIOUS
    <3>1. v # w
      BY <1>2
    <3>2. at'[v] = at[v] /\ Early(v)
      BY <3>1, <1>2
    <3>3. at[v].call \notin maybe[p] /\ at[v].call # at[w].call /\ at[v].call # None
      BY <1>0, <1>7, <3>1, <3>2 DEF CallsInv
    <3> QED
      BY <1>6, <3>2, <3>3 DEF Paths
  <2>4. \A v \in Writers : at'[v].call = at[v].call /\ (Busy(v)' <=> Busy(v))
    BY <1>2
  <2>5. /\ \A v \in Writers : Busy(v)' => at'[v].call \in 1 .. calls /\ res[at'[v].call] = "none"
        /\ \A u, v \in Writers : Busy(u)' /\ Busy(v)' /\ at'[u].call = at'[v].call => u = v
    BY <1>0, <2>4 DEF CallsInv
  <2>6. \A i \in Inodes : i > calls => res[i] = "none" /\ rank'[i] = 0
    BY <1>0, <1>5, <2>1 DEF CallsInv
  <2> QED
    BY <1>1, <1>6, <2>2, <2>3, <2>5, <2>6 DEF CallsInv
<1>9. RanksInv'
  <2>1. \A i \in Inodes : rank'[i] <= top'
    BY <1>0, <1>4, <1>5 DEF RanksInv
  <2>2. \A i \in maybe'[Target] : i = None \/ i = 0 \/ rank'[i] > 0
    BY <1>0, <1>4, <1>5, <1>6, <1>m DEF RanksInv
  <2>3. \A i \in Inodes \ {0} : (res'[i] = "err" => rank'[i] = 0) /\ (res'[i] = "ok" => rank'[i] > 0)
    <3>1. res[at[w].call] = "none"
      BY <1>0, <1>2 DEF CallsInv
    <3> QED
      BY <1>0, <1>1, <1>5, <3>1 DEF RanksInv
  <2>4. \A v \in Writers : Busy(v)' => (rank'[at'[v].call] > 0 <=> Published(v)')
    <3> SUFFICES ASSUME NEW v \in Writers, Busy(v)'
                 PROVE  rank'[at'[v].call] > 0 <=> Published(v)'
      OBVIOUS
    <3>1. CASE v = w
      BY <3>1, <1>2, <1>4, <1>5
    <3>2. CASE v # w
      <4>1. at'[v] = at[v] /\ Busy(v)
        BY <3>2, <1>2
      <4>2. rank'[at[v].call] = rank[at[v].call]
        BY <3>2, <4>1, <1>5, <1>7
      <4> QED
        BY <4>1, <4>2, <1>0 DEF RanksInv
    <3> QED
      BY <3>1, <3>2
  <2>5. \A v \in Writers : Busy(v)' => rank'[at'[v].call] <= top'
    <3>1. \A v \in Writers : at'[v].call \in Inodes
      BY <1>2 DEF AtType
    <3> QED
      BY <3>1, <2>1
  <2>6. \A v \in Writers : at[v].checked <= top /\ at[v].checked \in Nat
    BY <1>0 DEF RanksInv, TypeOK
  <2>7. \A v \in Writers : at'[v].checked = at[v].checked
    BY <1>2
  <2>8. \A v \in Writers : at'[v].checked < top'
    BY <2>6, <2>7, <1>4, <1>5
  <2>9. /\ entry'[Target] # None /\ rank'[entry'[Target]] = top' /\ top' \in Nat
        /\ \A v \in Writers : at'[v].checked \in Nat
    BY <1>3, <1>5, <1>6, <2>6, <2>7, ZenonT(30)
  <2>10. \A v \in Writers : rank'[at'[v].call] \in Nat
    BY <1>2, <1>5 DEF AtType
  <2>11. \A v \in Writers : Published(v)' => rank'[entry'[Target]] >= rank'[at'[v].call]
    BY <2>5, <2>9, <2>10
  <2>12. \A v \in Writers : rank'[entry'[Target]] > at'[v].checked /\ at'[v].checked <= top'
    BY <2>8, <2>9
  <2> QED
    BY <2>1, <2>2, <2>3, <2>4, <2>9, <2>11, <2>12 DEF RanksInv
<1>10. FloorInv'
  <2>1. floor <= top' /\ rank'[at[w].call] >= floor
    BY <1>0, <1>4, <1>5 DEF FloorInv
  <2>2. floor >= 0 => at[w].call \notin maybe[Target]
    BY <1>0, <1>2, Unpublished, ZenonT(30)
  <2> QED
    BY <1>0, <1>1, <1>3, <1>5, <1>6, <1>m, <2>1, <2>2 DEF FloorInv
<1>11. BytesInv'
    BY <1>0, <1>1, <1>2, <1>6 DEF BytesInv
<1> QED
    BY <1>t, <1>8, <1>9, <1>10, <1>11 DEF Inv, Publishes

\* A step of one writer that stays with its call and changes no file.
Pauses(w) ==
    /\ Quiet(w)
    /\ at'[w].pc \in {"create", "abandon"}
    /\ UNCHANGED <<got, safe>>
    /\ faults' \in Nat

\* rename: the file is published, or the call fails, or it goes on to remove its tmp.
LEMMA RenameTmpCases ==
    ASSUME Inv, NEW w \in Writers, RenameTmp(w)
    PROVE  Publishes(w) \/ GivesUp(w) \/ Pauses(w)
<1>0. TypeOK /\ CallsInv /\ TmpsInv /\ at[w].pc = "publish"
    BY DEF Inv, RenameTmp
<1>c. /\ faults \in Nat /\ faults + 1 \in Nat /\ at[w].call \in Inodes
      /\ orphans \subseteq Inodes /\ entry \in [Paths -> Inodes \cup {None}]
    BY <1>0 DEF TypeOK
<1>1. CASE /\ Point([entry EXCEPT ![Target] = at[w].call, ![TmpOf(w)] = None])
           /\ Publish(at[w].call)
           /\ Goto(w, "syncdir")
           /\ NoFault
           /\ UNCHANGED <<res, orphans>>
  <2>1. /\ at' \in AtType /\ \A v \in Writers : v # w => at'[v] = at[v]
        /\ at'[w].pc = "syncdir" /\ at'[w].call = at[w].call
        /\ at'[w].checked = at[w].checked
    BY <1>0, <1>1, GotoFacts DEF AtType
  <2>2. TmpOf(w) \in Tmps /\ TmpOf(w) \in Paths /\ TmpOf(w) # Target /\ Target \in Paths
        /\ Tmps \subseteq Paths
    BY <1>0, TmpOfFacts, Basics
  <2> DEFINE e == [entry EXCEPT ![Target] = at[w].call, ![TmpOf(w)] = None]
  <2>3. /\ e \in [Paths -> Inodes \cup {None}]
        /\ e[Target] = at[w].call /\ e[TmpOf(w)] = None
        /\ \A p \in Paths : p # Target /\ p # TmpOf(w) => e[p] = entry[p]
    BY <1>c, <2>2
  <2>4. Point(e)
    BY <1>1, ZenonT(30)
  <2> HIDE DEF e
  <2>5. /\ entry' = e
        /\ maybe' \in [Paths -> SUBSET (Inodes \cup {None})]
        /\ \A p \in Paths : maybe'[p] = maybe[p] \cup {e[p]}
        /\ \A p \in Paths : e[p] = entry[p] => maybe'[p] = maybe[p]
        /\ \A p \in Paths : entry'[p] \in maybe'[p]
    BY <1>0, <2>3, <2>4, PointFacts, ZenonT(30)
  <2>6. TmpsInv'
    <3>1. \A n \in Tmps : n # TmpOf(w) => entry'[n] = entry[n]
      BY <2>2, <2>3, <2>5, Basics, ZenonT(30)
    <3>2. HasTmp(w) /\ ~HasTmp(w)' /\ orphans' = orphans /\ entry'[TmpOf(w)] = None
      BY <1>0, <1>1, <2>1, <2>3, <2>5
    <3> QED
      BY <1>0, <2>1, <3>1, <3>2, TmpGoneInv, ZenonT(30)
  <2>7. \A n \in Tmps : maybe'[n] \subseteq maybe[n] \cup {None}
    <3> TAKE n \in Tmps
    <3>1. n \in Paths /\ n # Target
      BY <2>2, Basics
    <3>2. e[n] = entry[n] \/ e[n] = None
      BY <2>3, <3>1
    <3> QED
      BY <2>5, <3>1, <3>2
  <2> QED
    BY <1>0, <1>1, <2>1, <2>2, <2>3, <2>5, <2>6, <2>7, ZenonT(30) DEF RenameTmp, Publishes, NoFault
<1>2. CASE /\ Fault
           /\ Return(w, "err")
           /\ orphans' = orphans \cup {at[w].call}
           /\ UNCHANGED <<entry, maybe, rank, top>>
    BY <1>0, <1>c, <1>2, ZenonT(30) DEF RenameTmp, GivesUp, Fault, fs
<1>3. CASE /\ Fault
           /\ Goto(w, "abandon")
           /\ UNCHANGED <<entry, maybe, rank, top, res, orphans>>
    BY <1>0, <1>c, <1>3, GotoFacts, ZenonT(30) DEF RenameTmp, Pauses, Quiet, AtType, Fault, history
<1> QED
    BY <1>1, <1>2, <1>3 DEF RenameTmp

\* hard_link: the file is published, or the call goes on to remove its tmp.
LEMMA LinkCases ==
    ASSUME Inv, NEW w \in Writers, Link(w)
    PROVE  Publishes(w) \/ Pauses(w)
<1>0. TypeOK /\ CallsInv /\ TmpsInv /\ at[w].pc = "publish"
    BY DEF Inv, Link
<1>c. /\ faults \in Nat /\ faults + 1 \in Nat /\ at[w].call \in Inodes
      /\ entry \in [Paths -> Inodes \cup {None}]
      /\ Target \in Paths /\ Tmps \subseteq Paths /\ Target \notin Tmps
    BY <1>0, Basics DEF TypeOK
<1>1. CASE /\ Point([entry EXCEPT ![Target] = at[w].call])
           /\ Publish(at[w].call)
           /\ Goto(w, "unlink")
           /\ NoFault
  <2>1. /\ at' \in AtType /\ \A v \in Writers : v # w => at'[v] = at[v]
        /\ at'[w].pc = "unlink" /\ at'[w].call = at[w].call
        /\ at'[w].checked = at[w].checked
    BY <1>0, <1>1, GotoFacts DEF AtType
  <2> DEFINE e == [entry EXCEPT ![Target] = at[w].call]
  <2>3. /\ e \in [Paths -> Inodes \cup {None}]
        /\ e[Target] = at[w].call /\ \A n \in Tmps : e[n] = entry[n]
    BY <1>c
  <2>4. Point(e)
    BY <1>1, ZenonT(30)
  <2> HIDE DEF e
  <2>5. /\ entry' = e
        /\ maybe' \in [Paths -> SUBSET (Inodes \cup {None})]
        /\ \A p \in Paths : maybe'[p] = maybe[p] \cup {e[p]}
        /\ \A p \in Paths : e[p] = entry[p] => maybe'[p] = maybe[p]
        /\ \A p \in Paths : entry'[p] \in maybe'[p]
    BY <1>0, <2>3, <2>4, PointFacts, ZenonT(30)
  <2>6. TmpsInv'
    <3>1. \A v \in Writers : at'[v].call = at[v].call /\ (HasTmp(v)' <=> HasTmp(v))
      BY <1>0, <2>1, ZenonT(30)
    <3>2. orphans' = orphans /\ \A n \in Tmps : entry'[n] = entry[n]
      BY <2>3, <2>5, ZenonT(30) DEF Link
    <3> QED
      BY <1>0, <3>1, <3>2, TmpsKept, ZenonT(30)
  <2>7. \A n \in Tmps : maybe'[n] \subseteq maybe[n] \cup {None}
    BY <1>c, <2>3, <2>5
  <2> QED
    BY <1>0, <1>1, <1>c, <2>1, <2>3, <2>5, <2>6, <2>7, ZenonT(30) DEF Link, Publishes, NoFault
<1>2. CASE /\ \/ entry[Target] # None /\ NoFault
              \/ Fault
           /\ Goto(w, "abandon")
           /\ UNCHANGED <<entry, maybe, rank, top>>
    BY <1>0, <1>c, <1>2, GotoFacts, ZenonT(30)
    DEF Link, Pauses, Quiet, AtType, Fault, NoFault, history
<1> QED
    BY <1>1, <1>2 DEF Link

LEMMA RenameTmpInv ==
    ASSUME Inv, NEW w \in Writers, RenameTmp(w)
    PROVE  Inv'
    BY RenameTmpCases, PublishesInv, GivesUpInv, QuietStepInv DEF Pauses

LEMMA LinkInv ==
    ASSUME Inv, NEW w \in Writers, Link(w)
    PROVE  Inv'
    BY LinkCases, PublishesInv, QuietStepInv DEF Pauses

\* The end of a call that published its file.
LEMMA SyncDirInv ==
    ASSUME Inv, NEW w \in Writers, SyncDir(w)
    PROVE  Inv'
<1>0. TypeOK /\ CallsInv /\ TmpsInv /\ RanksInv /\ FloorInv /\ BytesInv
    BY DEF Inv
<1>c. /\ at[w].pc = "syncdir" /\ faults \in Nat /\ faults + 1 \in Nat
      /\ top \in Nat /\ floor \in Nat \cup {-1} /\ rank \in [Inodes -> Nat] /\ calls \in Nat
    BY <1>0, Basics DEF SyncDir, TypeOK
<1>1. /\ dir' = dir /\ entry' = entry /\ got' = got /\ safe' = safe /\ private' = private
      /\ rank' = rank /\ top' = top /\ orphans' = orphans /\ calls' = calls
    BY DEF SyncDir
<1>2. /\ at' \in AtType /\ \A v \in Writers : v # w => at'[v] = at[v]
      /\ at'[w].pc = "idle" /\ at'[w].checked = 0
      /\ res' \in [Inodes -> {"none", "ok", "err"}]
      /\ res'[at[w].call] = "ok"
      /\ \A i \in Inodes : i # at[w].call => res'[i] = res[i]
    BY <1>0, ReturnFacts, ZenonT(30) DEF SyncDir, AtType
<1>3. /\ at[w].call \in Inodes /\ at[w].call \in 1 .. calls
      /\ rank[at[w].call] > 0 /\ rank[at[w].call] \in Nat /\ rank[at[w].call] <= top
      /\ entry[Target] # None /\ entry[Target] \in Inodes
      /\ rank[entry[Target]] >= rank[at[w].call] /\ rank[entry[Target]] \in Nat
    BY <1>0, <1>c, Basics DEF TypeOK, CallsInv, RanksInv
<1>4. \A p \in Paths : entry[p] \in maybe[p]
    BY <1>0 DEF CallsInv
<1>5. /\ maybe' \in [Paths -> SUBSET (Inodes \cup {None})]
      /\ \A p \in Paths : maybe'[p] \subseteq maybe[p] /\ entry[p] \in maybe'[p]
      /\ faults' \in Nat /\ floor' \in Nat \cup {-1}
      /\ \/ maybe'[Target] = {entry[Target]}
            /\ floor' = IF dir = "kept" /\ rank[at[w].call] > floor
                        THEN rank[at[w].call] ELSE floor
         \/ maybe' = maybe /\ floor' = floor
  <2>0. maybe \in [Paths -> SUBSET (Inodes \cup {None})] /\ entry \in [Paths -> Inodes \cup {None}]
        /\ Target \in Paths
    BY <1>0, Basics, ZenonT(30) DEF TypeOK
  <2>1. CASE /\ maybe' = [p \in Paths |-> {entry[p]}]
             /\ floor' = IF dir = "kept" /\ rank[at[w].call] > floor
                         THEN rank[at[w].call] ELSE floor
             /\ NoFault
    BY <1>c, <1>3, <1>4, <2>0, <2>1 DEF NoFault
  <2>2. CASE Fault /\ UNCHANGED <<maybe, floor>>
    BY <1>c, <1>4, <2>0, <2>2, ZenonT(30) DEF Fault
  <2> QED
    BY <2>1, <2>2 DEF SyncDir
<1>6. \A v \in Writers : Busy(v)' => v # w /\ Busy(v) /\ at'[v] = at[v]
                                   /\ at[v].call # at[w].call /\ at[v].call \in Inodes
    BY <1>0, <1>c, <1>2, Others
<1>t. TypeOK'
    BY <1>0, <1>1, <1>2, <1>5, ZenonT(30) DEF TypeOK, AtType
<1>7. CallsInv'
  <2>1. \A i \in Inodes : i > calls => i # at[w].call
    BY <1>3, <1>c, Basics
  <2> QED
    BY <1>0, <1>1, <1>2, <1>5, <1>6, <2>1 DEF CallsInv
<1>8. TmpsInv'
  <2>1. \A v \in Writers : (HasTmp(v)' <=> HasTmp(v)) /\ (HasTmp(v) => at'[v].call = at[v].call)
    BY <1>c, <1>2, ZenonT(30)
  <2> QED
    BY <1>0, <1>1, <2>1, TmpsKept
<1>9. RanksInv'
  <2>1. \A v \in Writers : at'[v].checked <= top
    BY <1>0, <1>c, <1>2 DEF RanksInv
  <2>2. \A i \in maybe'[Target] : i = None \/ i = 0 \/ rank[i] > 0
    BY <1>0, <1>5, Basics, ZenonT(30) DEF RanksInv
  <2>3. \A i \in Inodes \ {0} : (res'[i] = "err" => rank[i] = 0) /\ (res'[i] = "ok" => rank[i] > 0)
    BY <1>0, <1>2, <1>3 DEF RanksInv
  <2>4. \A v \in Writers : Published(v)' => Busy(v)'
    BY ZenonT(30)
  <2> QED
    BY <1>0, <1>1, <1>6, <2>1, <2>2, <2>3, <2>4, ZenonT(30) DEF RanksInv
<1>10. FloorInv'
  <2>1. CASE /\ maybe'[Target] = {entry[Target]}
             /\ floor' = IF dir = "kept" /\ rank[at[w].call] > floor
                         THEN rank[at[w].call] ELSE floor
    <3>1. CASE dir = "kept" /\ rank[at[w].call] > floor
      BY <1>0, <1>1, <1>3, <1>c, <2>1, <3>1, ZenonT(30) DEF FloorInv
    <3>2. CASE ~(dir = "kept" /\ rank[at[w].call] > floor)
      <4>1. floor' = floor
        BY <2>1, <3>2
      <4>2. floor >= 0 => rank[entry[Target]] >= floor
        BY <1>0, <1>4, Basics DEF FloorInv
      <4> QED
        BY <1>0, <1>1, <1>3, <2>1, <4>1, <4>2 DEF FloorInv
    <3> QED
      BY <3>1, <3>2, ZenonT(30)
  <2>2. CASE maybe' = maybe /\ floor' = floor
    BY <1>0, <1>1, <2>2, ZenonT(30) DEF FloorInv
  <2> QED
    BY <1>5, <2>1, <2>2
<1>11. BytesInv'
    BY <1>0, <1>1, <1>2, <1>5, Basics DEF BytesInv
<1> QED
    BY <1>t, <1>7, <1>8, <1>9, <1>10, <1>11 DEF Inv

\* A new call: its file does not exist anywhere yet.
LEMMA BeginInv ==
    ASSUME Inv, NEW w \in Writers, NEW k \in Kinds, Begin(w, k)
    PROVE  Inv'
<1>0. TypeOK /\ CallsInv /\ TmpsInv /\ RanksInv /\ FloorInv /\ BytesInv
    BY DEF Inv
<1>c. /\ at[w].pc = "idle" /\ faults \in Nat /\ faults + 1 \in Nat /\ top \in Nat
      /\ calls \in Nat /\ calls' = calls + 1 /\ calls + 1 \in Inodes /\ calls + 1 # 0
      /\ calls + 1 \in 1 .. calls + 1
  <2>1. /\ at[w].pc = "idle" /\ faults \in Nat /\ top \in Nat /\ calls \in Inodes
        /\ calls < MaxCalls /\ calls' = calls + 1
    BY <1>0 DEF Begin, TypeOK
  <2>2. calls \in 0 .. MaxCalls /\ MaxCalls \in Nat
    BY <2>1, Basics
  <2>3. calls \in Nat /\ calls + 1 \in 0 .. MaxCalls /\ calls + 1 # 0
        /\ calls + 1 \in 1 .. calls + 1
    BY <2>1, <2>2
  <2> QED
    BY <2>1, <2>3, Basics
<1>1. /\ entry' = entry /\ maybe' = maybe /\ got' = got /\ safe' = safe /\ private' = private
      /\ rank' = rank /\ top' = top /\ floor' = floor /\ orphans' = orphans
    BY ZenonT(30) DEF Begin
<1>2. /\ res[calls + 1] = "none" /\ rank[calls + 1] = 0
      /\ \A p \in Paths : calls + 1 \notin maybe[p]
      /\ \A v \in Writers : Busy(v) => at[v].call # calls + 1 /\ at[v].call \in 1 .. calls + 1
  <2>1. ~(calls + 1 <= calls) /\ calls + 1 > calls
    BY <1>c
  <2>2. \A v \in Writers : Busy(v) => at[v].call \in 1 .. calls
    BY <1>0 DEF CallsInv
  <2>3. calls + 1 # None
    BY <1>c, Basics
  <2>4. 1 .. calls \subseteq 1 .. calls + 1 /\ calls + 1 \notin 1 .. calls
    BY <1>c
  <2> QED
    BY <1>0, <1>c, <2>1, <2>2, <2>3, <2>4 DEF CallsInv
<1>3. /\ \A i \in Inodes : i > calls + 1 => i > calls /\ i # calls + 1
      /\ \A i \in Inodes : i <= calls => i <= calls + 1
    BY <1>c, Basics
<1>m. \A p \in Paths : \A i \in maybe[p] : i # None => i \in Inodes
    BY <1>0 DEF TypeOK
<1>4. CASE /\ ensure_private_dir
           /\ at' = [at EXCEPT ![w] =
                        [pc |-> IF k = "best_effort" THEN "check" ELSE "create",
                         call |-> calls + 1, kind |-> k, tries |-> 0, checked |-> 0]]
           /\ NoFault
           /\ UNCHANGED res
  <2>1. /\ at' \in AtType /\ \A v \in Writers : v # w => at'[v] = at[v]
        /\ at'[w].pc = (IF k = "best_effort" THEN "check" ELSE "create")
        /\ at'[w].call = calls + 1 /\ at'[w].kind = k /\ at'[w].checked = 0
    <3> DEFINE l == IF k = "best_effort" THEN "check" ELSE "create"
               new == [pc |-> l, call |-> calls + 1, kind |-> k, tries |-> 0, checked |-> 0]
    <3>1. l \in Labels
      OBVIOUS
    <3>2. 0 \in 0 .. MaxTries - 1
      BY WritesAssumption
    <3>3. at' = [at EXCEPT ![w] = new]
      BY <1>4
    <3>4. at \in AtType
      BY <1>0, ZenonT(30) DEF TypeOK, AtType
    <3> HIDE DEF l
    <3>5. /\ new \in [pc : Labels, call : Inodes, kind : Kinds,
                      tries : 0 .. MaxTries - 1, checked : Nat]
          /\ new.pc = l /\ new.call = calls + 1 /\ new.kind = k /\ new.checked = 0
      BY <1>c, <3>1, <3>2
    <3> HIDE DEF new
    <3>6. at' \in AtType /\ at'[w] = new /\ \A v \in Writers : v # w => at'[v] = at[v]
      BY <3>3, <3>4, <3>5, ZenonT(30) DEF AtType
    <3> QED
      BY <3>5, <3>6 DEF l
  <2>2. /\ dir' \in {"none", "fresh", "kept"} /\ (dir' # "kept" => dir # "kept")
        /\ faults' \in Nat /\ res' = res
    BY <1>0, <1>c, <1>4 DEF TypeOK, ensure_private_dir, NoFault
  <2>t. TypeOK'
    BY <1>0, <1>1, <1>c, <2>1, <2>2, ZenonT(30) DEF TypeOK, AtType
  <2>3. CallsInv'
    <3>1. \A v \in Writers : Busy(v)' => at'[v].call \in 1 .. calls' /\ res'[at'[v].call] = "none"
      BY <1>0, <1>c, <1>2, <2>1, <2>2 DEF CallsInv
    <3>2. \A u, v \in Writers : Busy(u)' /\ Busy(v)' /\ at'[u].call = at'[v].call => u = v
      BY <1>0, <1>2, <2>1 DEF CallsInv
    <3>3. \A v \in Writers : Early(v)' => \A p \in Paths : at'[v].call \notin maybe'[p]
      BY <1>0, <1>1, <1>2, <2>1 DEF CallsInv
    <3> QED
      BY <1>0, <1>1, <1>c, <1>3, <1>m, <2>2, <3>1, <3>2, <3>3, ZenonT(30) DEF CallsInv
  <2>4. TmpsInv'
    <3>1. \A v \in Writers : (HasTmp(v)' <=> HasTmp(v)) /\ (HasTmp(v) => at'[v].call = at[v].call)
      BY <1>c, <2>1, ZenonT(30)
    <3> QED
      BY <1>0, <1>1, <3>1, TmpsKept
  <2>5. RanksInv'
    <3>1. \A v \in Writers : at'[v].checked <= top
      BY <1>0, <1>c, <2>1 DEF RanksInv
    <3>2. ~Published(w)' /\ (at'[w].kind = "best_effort" => at'[w].pc = "check")
          /\ ~(rank[at'[w].call] > 0)
      BY <1>2, <2>1
    <3> QED
      BY <1>0, <1>1, <2>1, <2>2, <3>1, <3>2, ZenonT(30) DEF RanksInv
  <2>6. FloorInv' /\ BytesInv'
    BY <1>0, <1>1, <2>1, <2>2 DEF FloorInv, BytesInv
  <2> QED
    BY <2>t, <2>3, <2>4, <2>5, <2>6, ZenonT(30) DEF Inv
<1>5. CASE /\ Fault
           /\ res' = [res EXCEPT ![calls + 1] = "err"]
           /\ UNCHANGED <<dir, at>>
  <2>1. /\ at' = at /\ dir' = dir /\ faults' \in Nat
        /\ res' \in [Inodes -> {"none", "ok", "err"}] /\ res'[calls + 1] = "err"
        /\ \A i \in Inodes : i # calls + 1 => res'[i] = res[i]
    BY <1>0, <1>c, <1>5 DEF TypeOK, Fault
  <2>t. TypeOK'
    BY <1>0, <1>1, <1>c, <2>1 DEF TypeOK
  <2>2. \A v \in Writers : Busy(v) => at[v].call \in Inodes
    BY <1>0, ZenonT(30) DEF TypeOK
  <2>3. CallsInv'
    BY <1>0, <1>1, <1>c, <1>2, <1>3, <1>m, <2>1, <2>2 DEF CallsInv
  <2>4. TmpsInv'
    BY <1>0, <1>1, <2>1, TmpsKept, ZenonT(30)
  <2>5. RanksInv'
    BY <1>0, <1>1, <1>2, <2>1 DEF RanksInv
  <2>6. FloorInv' /\ BytesInv'
    BY <1>0, <1>1, <2>1, ZenonT(30) DEF FloorInv, BytesInv
  <2> QED
    BY <2>t, <2>3, <2>4, <2>5, <2>6 DEF Inv
<1> QED
    BY <1>4, <1>5 DEF Begin

-----------------------------------------------------------------------------
\* Every thread is gone.
LEMMA StoppedFacts ==
    ASSUME Stopped
    PROVE  at' \in AtType /\ \A v \in Writers : at'[v].pc = "idle" /\ at'[v].checked = 0
    BY WritesAssumption, Basics DEF Stopped, Idle, AtType, Kinds

LEMMA KillInv ==
    ASSUME Inv, Kill
    PROVE  Inv'
<1>0. TypeOK /\ CallsInv /\ TmpsInv /\ RanksInv /\ FloorInv /\ BytesInv
    BY DEF Inv
<1>1. /\ dir' = dir /\ entry' = entry /\ maybe' = maybe /\ got' = got /\ safe' = safe
      /\ private' = private /\ res' = res /\ rank' = rank /\ top' = top /\ floor' = floor
      /\ calls' = calls
    BY ZenonT(30) DEF Kill, fs
<1>2. at' \in AtType /\ \A v \in Writers : at'[v].pc = "idle" /\ at'[v].checked = 0
    BY StoppedFacts, ZenonT(30) DEF Kill
<1>3. /\ faults' \in Nat /\ orphans' \subseteq Inodes /\ orphans \subseteq orphans'
      /\ \A v \in Writers : HasTmp(v) => at[v].call \in orphans'
    BY <1>0 DEF Kill, Fault, TypeOK
<1>t. TypeOK'
    BY <1>0, <1>1, <1>2, <1>3, ZenonT(30) DEF TypeOK, AtType
<1>4. CallsInv'
    BY <1>0, <1>1, <1>2 DEF CallsInv
<1>5. TmpsInv'
    BY <1>0, <1>1, <1>2, <1>3, TmpsKept, ZenonT(30)
<1>6. RanksInv'
  <2>1. \A v \in Writers : at'[v].checked <= top
    BY <1>0, <1>2 DEF TypeOK
  <2>2. \A i \in Inodes \ {0} : (res'[i] = "err" => rank[i] = 0) /\ (res'[i] = "ok" => rank[i] > 0)
    BY <1>0, <1>1 DEF RanksInv
  <2> QED
    BY <1>0, <1>1, <1>2, <2>1, <2>2, RanksKept, ZenonT(30)
<1>7. FloorInv' /\ BytesInv'
    BY <1>0, <1>1, <1>2, FilesKept
<1> QED
    BY <1>t, <1>4, <1>5, <1>6, <1>7 DEF Inv

\* Power loss picks among the values of maybe and keeps every synced byte.
LEMMA PowerLossInv ==
    ASSUME Inv, PowerLoss
    PROVE  Inv'
<1>0. TypeOK /\ CallsInv /\ RanksInv /\ FloorInv /\ BytesInv
    BY DEF Inv
<1>1. /\ private' = private /\ res' = res /\ rank' = rank /\ top' = top /\ floor' = floor
      /\ calls' = calls /\ safe' = got'
    BY ZenonT(30) DEF PowerLoss
<1>2. at' \in AtType /\ \A v \in Writers : at'[v].pc = "idle" /\ at'[v].checked = 0
    BY StoppedFacts DEF PowerLoss
<1>c. /\ calls \in Nat /\ calls \in Inodes /\ top \in Nat /\ Target \in Paths /\ Tmps \subseteq Paths
      /\ None \notin Inodes /\ 0 .. calls \subseteq Inodes
    BY <1>0, Basics DEF TypeOK
<1>3. /\ entry' \in [Paths -> Inodes \cup {None}]
      /\ \A p \in Paths : entry'[p] \in maybe[p] \cup {None}
      /\ dir' \in {"none", "fresh", "kept"}
      /\ dir' # "kept" => dir # "kept"
      /\ dir = "kept" => entry'[Target] \in maybe[Target]
  <2>1. CASE dir = "fresh" /\ dir' = "none" /\ entry' = [p \in Paths |-> None]
    BY <2>1, ZenonT(30)
  <2>2. CASE dir' = (IF dir = "fresh" THEN "kept" ELSE dir) /\ entry' \in Fallback
    <3>1. UNION {maybe[p] : p \in Paths} \subseteq Inodes \cup {None}
      BY <1>0 DEF TypeOK
    <3>2. entry' \in [Paths -> UNION {maybe[p] : p \in Paths}] /\ \A p \in Paths : entry'[p] \in maybe[p]
      BY <2>2 DEF Fallback
    <3>3. entry' \in [Paths -> Inodes \cup {None}]
      BY <3>1, <3>2, ZenonT(30)
    <3> QED
      BY <1>0, <1>c, <2>2, <3>2, <3>3 DEF TypeOK
  <2> QED
    BY <2>1, <2>2 DEF PowerLoss
<1>4. /\ maybe' \in [Paths -> SUBSET (Inodes \cup {None})]
      /\ \A p \in Paths : maybe'[p] = {entry'[p]}
    BY <1>3, ZenonT(30) DEF PowerLoss
<1>5. /\ got' \in [Inodes -> Lengths]
      /\ \A i \in Inodes : (\E p \in Paths : entry'[p] = i) => safe[i] <= got'[i] /\ got'[i] <= got[i]
  <2> DEFINE named == {i \in Inodes : \E p \in Paths : entry'[p] = i}
  <2>1. PICK g \in [named -> Lengths] :
            /\ \A i \in named : safe[i] <= g[i] /\ g[i] <= got[i]
            /\ got' = [i \in Inodes |-> IF i \in named THEN g[i] ELSE got[i]]
    BY ZenonT(30) DEF PowerLoss, CutShort
  <2> QED
    BY <1>0, <2>1 DEF TypeOK
<1>6. \A p \in Paths : entry'[p] # None => entry'[p] \in maybe[p] /\ entry'[p] \in Inodes
                                           /\ entry'[p] <= calls
    BY <1>0, <1>3, ZenonT(30) DEF CallsInv
<1>7. faults' \in Nat /\ orphans' \subseteq Inodes /\ 0 .. calls \subseteq orphans'
    BY <1>0, <1>c DEF PowerLoss, Fault, TypeOK
<1>t. TypeOK'
    BY <1>0, <1>1, <1>2, <1>3, <1>4, <1>5, <1>7, ZenonT(30) DEF TypeOK, AtType
<1>8. CallsInv'
    BY <1>0, <1>1, <1>2, <1>4, <1>6 DEF CallsInv
<1>9. TmpsInv'
  <2>1. \A p \in Paths : entry'[p] # None => entry'[p] \in 0 .. calls
    BY <1>c, <1>6, Basics
  <2> QED
    BY <1>2, <1>7, <1>c, <2>1 DEF TmpsInv, TmpsAreAccountedFor
<1>10. RanksInv'
    BY <1>0, <1>1, <1>2, <1>4, <1>6, <1>c DEF RanksInv
<1>11. FloorInv'
    BY <1>0, <1>1, <1>3, <1>4, <1>c DEF FloorInv
<1>12. BytesInv'
  <2>1. \A i \in Inodes : safe'[i] <= got'[i]
    <3>1. \A i \in Inodes : got'[i] \in Int
      BY <1>5, Numbers
    <3> QED
      BY <1>1, <3>1
  <2>2. \A i \in maybe'[Target] : i # None => safe'[i] = RecLen /\ got'[i] = RecLen
    <3> SUFFICES ASSUME entry'[Target] # None
                 PROVE  got'[entry'[Target]] = RecLen
      BY <1>1, <1>4, <1>c
    <3>1. entry'[Target] \in Inodes /\ entry'[Target] \in maybe[Target]
      BY <1>6, <1>c, ZenonT(30)
    <3>2. safe[entry'[Target]] = RecLen /\ got[entry'[Target]] = RecLen
      BY <1>0, <3>1 DEF BytesInv
    <3>3. RecLen <= got'[entry'[Target]] /\ got'[entry'[Target]] <= RecLen
      BY <1>5, <1>c, <3>1, <3>2, ZenonT(30)
    <3>4. got'[entry'[Target]] \in Int /\ RecLen \in Int
      BY <1>5, <3>1, Numbers, Basics, ZenonT(30)
    <3> QED
      BY <3>3, <3>4
  <2> QED
    BY <1>2, <2>1, <2>2 DEF BytesInv
<1> QED
    BY <1>t, <1>8, <1>9, <1>10, <1>11, <1>12 DEF Inv

LEMMA NextInv == Inv /\ [Next]_vars => Inv'
<1> SUFFICES ASSUME Inv, [Next]_vars PROVE Inv'
    OBVIOUS
<1>1. ASSUME NEW w \in Writers, Step(w) PROVE Inv'
    BY <1>1, PreCheckInv, CreateTmpInv, WriteAllInv, SyncFileInv, AbandonInv,
       RenameTmpInv, LinkInv, UnlinkInv, SyncDirInv DEF Step
<1>2. ASSUME NEW w \in Writers, NEW k \in Kinds, Begin(w, k) PROVE Inv'
    BY <1>2, BeginInv
<1>3. CASE UNCHANGED vars
  <2>1. /\ dir' = dir /\ entry' = entry /\ maybe' = maybe /\ got' = got /\ safe' = safe
        /\ private' = private /\ at' = at /\ res' = res /\ rank' = rank /\ top' = top
        /\ floor' = floor /\ orphans' = orphans /\ calls' = calls /\ faults' = faults
    BY <1>3 DEF vars, fs, history
  <2>2. TypeOK /\ CallsInv /\ TmpsInv /\ RanksInv /\ FloorInv /\ BytesInv
    BY DEF Inv
  <2>3. TypeOK' /\ TmpsInv'
    BY <2>1, <2>2, TmpsKept, ZenonT(30) DEF TypeOK
  <2>4. CallsInv'
    BY <2>1, <2>2, ZenonT(30) DEF CallsInv
  <2>5. RanksInv'
    BY <2>1, <2>2, ZenonT(30) DEF RanksInv
  <2>6. FloorInv' /\ BytesInv'
    BY <2>1, <2>2 DEF FloorInv, BytesInv
  <2> QED
    BY <2>3, <2>4, <2>5, <2>6 DEF Inv
<1> QED
    BY <1>1, <1>2, <1>3, KillInv, PowerLossInv DEF Next

LEMMA SpecInv == Spec => []Inv
    BY InitInv, NextInv, PTL DEF Spec

-----------------------------------------------------------------------------
(***************************************************************************)
(* The state stays well formed whatever the number of threads and faults;  *)
(* in particular create_private_tmp never draws more than MaxTries names.  *)
(***************************************************************************)
THEOREM WritesTyped == Spec => []TypeOK
    BY SpecInv, PTL DEF Inv

(***************************************************************************)
(* A keyfile whose directory sync worked survives every kill and every     *)
(* power loss, unless a later write replaced it (keyfile.rs:174-178).      *)
(***************************************************************************)
THEOREM DurableWrites == Spec => []SyncedWritesSurvive
<1>1. Inv => SyncedWritesSurvive
    BY Basics, ZenonT(30) DEF Inv, SyncedWritesSurvive, FloorInv, CallsInv
<1> QED
    BY <1>1, SpecInv, PTL

(***************************************************************************)
(* The result of write_secure and its siblings tells whether the file is   *)
(* at the path (keyfile.rs:152-262).                                       *)
(***************************************************************************)
THEOREM TrueResults == Spec => []ResultsAreTrue
<1>1. Inv => ResultsAreTrue
  <2> SUFFICES ASSUME Inv PROVE ResultsAreTrue
    OBVIOUS
  <2>1. \A i \in 1 .. calls : i \in Inodes /\ i # 0
    BY Basics DEF Inv, TypeOK
  <2>2. \A i \in Inodes : i # 0 /\ res[i] = "ok" => rank[i] > 0
    BY ZenonT(30) DEF Inv, RanksInv
  <2>3. \A i \in Inodes : i # 0 /\ res[i] = "err" => i \notin maybe[Target]
    <3>1. \A i \in Inodes : rank[i] \in Nat /\ i # None
      BY Basics, ZenonT(30) DEF Inv, TypeOK
    <3> QED
      BY <3>1 DEF Inv, RanksInv
  <2>4. entry[Target] \in maybe[Target]
    BY Basics DEF Inv, CallsInv
  <2>5. \A i \in Inodes : i \notin maybe[Target] => entry[Target] # i
    BY <2>4
  <2> QED
    BY <2>1, <2>2, <2>3, <2>5 DEF ResultsAreTrue
<1> QED
    BY <1>1, SpecInv, PTL

(***************************************************************************)
(* Tmp files are left behind only by a stop, a failed removal or the       *)
(* failed rename of write_secure (keyfile.rs:172).                         *)
(***************************************************************************)
THEOREM AccountedTmps == Spec => []TmpsAreAccountedFor
<1>1. Inv => TmpsAreAccountedFor
    BY ZenonT(30) DEF Inv, TmpsInv
<1> QED
    BY <1>1, SpecInv, PTL

-----------------------------------------------------------------------------
\* Steps before the publication, and the removal of a tmp, do not touch the path.
LEMMA TargetKept ==
    ASSUME Inv, NEW w \in Writers,
           \/ PreCheck(w) \/ CreateTmp(w) \/ WriteAll(w) \/ SyncFile(w)
           \/ Abandon(w) \/ Unlink(w)
    PROVE  dir' = dir /\ top' = top /\ entry'[Target] = entry[Target]
           /\ maybe'[Target] = maybe[Target]
<1>0. TypeOK /\ CallsInv /\ TmpsInv /\ entry \in [Paths -> Inodes \cup {None}]
    BY DEF Inv, TypeOK
<1>1. ASSUME NEW n \in Tmps, NEW x \in Inodes \cup {None}, Point([entry EXCEPT ![n] = x])
      PROVE  entry'[Target] = entry[Target] /\ maybe'[Target] = maybe[Target]
  <2>1. n \in Paths /\ Target \in Paths /\ n # Target
    BY Basics
  <2>2. /\ [entry EXCEPT ![n] = x] \in [Paths -> Inodes \cup {None}]
        /\ [entry EXCEPT ![n] = x][Target] = entry[Target]
    BY <1>0, <2>1, ZenonT(30)
  <2> QED
    BY <1>0, <1>1, <2>1, <2>2, PointFacts, ZenonT(30)
<1>2. CASE PreCheck(w) \/ WriteAll(w) \/ SyncFile(w)
    BY <1>2 DEF PreCheck, WriteAll, SyncFile, fs, history
<1>3. CASE CreateTmp(w)
  <2>1. at[w].call \in Inodes /\ dir' = dir /\ top' = top
    BY <1>0, <1>3 DEF CreateTmp, TypeOK
  <2>2. (entry' = entry /\ maybe' = maybe)
        \/ \E n \in Tmps : Point([entry EXCEPT ![n] = at[w].call])
    BY <1>3 DEF CreateTmp
  <2> QED
    BY <1>1, <2>1, <2>2, ZenonT(30)
<1>4. CASE Abandon(w) \/ Unlink(w)
  <2>1. dir' = dir /\ top' = top /\ RemoveTmp(w) /\ TmpOf(w) \in Tmps
    BY <1>0, <1>4, TmpOfFacts, ZenonT(30) DEF Abandon, Unlink
  <2>2. (entry' = entry /\ maybe' = maybe) \/ Point([entry EXCEPT ![TmpOf(w)] = None])
    BY <2>1 DEF RemoveTmp
  <2> QED
    BY <1>1, <2>1, <2>2
<1> QED
    BY <1>2, <1>3, <1>4, ZenonT(30)

(***************************************************************************)
(* Neither create-only variant replaces a file it could have seen          *)
(* (keyfile.rs:203 and keyfile.rs:231-254).                                *)
(***************************************************************************)
THEOREM CreateIsCreate == Spec => CreateNeverReplaces
<1> DEFINE Kept == top' # top /\ entry[Target] # None =>
          \E w \in Writers :
             /\ at[w].call = entry'[Target]
             /\ \/ at[w].kind = "replace"
                \/ at[w].kind = "best_effort" /\ rank[entry[Target]] > at[w].checked
<1>1. Inv /\ [Next]_vars => [Kept]_vars
  <2> SUFFICES ASSUME Inv, Next PROVE Kept
    OBVIOUS
  <2>1. ASSUME NEW w \in Writers, RenameTmp(w), top' # top, entry[Target] # None
        PROVE  Kept
    <3>1. entry'[Target] = at[w].call
      BY <2>1, RenameTmpCases, ZenonT(30) DEF Publishes, GivesUp, Pauses, Quiet, history
    <3>2. at[w].kind \in {"replace", "best_effort"} /\ at[w].pc = "publish"
      BY <2>1 DEF RenameTmp, Inv, TypeOK, Kinds
    <3>3. at[w].kind = "best_effort" => rank[entry[Target]] > at[w].checked
      BY <2>1, <3>2, ZenonT(30) DEF Inv, RanksInv
    <3> QED
      BY <3>1, <3>2, <3>3, ZenonT(30)
  <2>2. ASSUME NEW w \in Writers, Link(w) PROVE Kept
    BY <2>2, ZenonT(30) DEF Link
  <2>3. ASSUME NEW w \in Writers, SyncDir(w) PROVE Kept
    BY <2>3, ZenonT(30) DEF SyncDir
  <2>4. ASSUME NEW w \in Writers, NEW k \in Kinds, Begin(w, k) PROVE Kept
    BY <2>4, ZenonT(30) DEF Begin
  <2>5. CASE Kill \/ PowerLoss
    BY <2>5, ZenonT(30) DEF Kill, PowerLoss
  <2> QED
    BY <2>1, <2>2, <2>3, <2>4, <2>5, TargetKept, ZenonT(30) DEF Next, Step
<1> QED
    BY <1>1, SpecInv, PTL DEF Spec, CreateNeverReplaces

-----------------------------------------------------------------------------
\* The refinement mapping hides nothing: files that can be at the path are complete.
Unhidden ==
    /\ Seen(entry[Target]) = entry[Target]
    /\ {IF i # None /\ safe[i] # RecLen THEN Torn ELSE i : i \in maybe[Target]}
         = maybe[Target]

LEMMA Mapped == Inv => Unhidden
<1> SUFFICES ASSUME Inv PROVE Unhidden
    OBVIOUS
<1>1. entry[Target] \in maybe[Target]
    BY Basics DEF Inv, CallsInv
<1>2. \A i \in maybe[Target] : i # None => safe[i] = RecLen /\ got[i] = RecLen
    BY DEF Inv, BytesInv
<1> QED
    BY <1>1, <1>2 DEF Seen, Unhidden

(***************************************************************************)
(* The system calls of write_secure, write_secure_new and the best-effort  *)
(* variant implement a file that changes atomically, to complete records   *)
(* only, under kills and power losses (keyfile.rs:111-262).                *)
(***************************************************************************)
THEOREM WritesAreAtomic == Spec => ImplementsAtomicFile
<1>1. Init => Atomic!Init
  <2> SUFFICES ASSUME Init PROVE Atomic!Init
    OBVIOUS
  <2>0. Inv
    BY InitInv
  <2>1. /\ entry[Target] \in Inodes \cup {None} /\ maybe[Target] = {entry[Target]}
        /\ dir # "kept" => entry[Target] = None
    BY Basics DEF Init
  <2> QED
    BY <2>0, <2>1, Mapped DEF Atomic!Init, Unhidden
<1>2. Inv /\ Inv' /\ [Next]_vars => [Atomic!Next]_Atomic!vars
  <2> SUFFICES ASSUME Inv, Inv', [Next]_vars PROVE [Atomic!Next]_Atomic!vars
    OBVIOUS
  <2>m. /\ Seen(entry[Target]) = entry[Target]
        /\ {IF i # None /\ safe[i] # RecLen THEN Torn ELSE i : i \in maybe[Target]}
                = maybe[Target]
    BY Mapped DEF Unhidden
  <2>n. /\ Seen(entry[Target])' = entry'[Target]
        /\ {IF i # None /\ safe[i] # RecLen THEN Torn ELSE i : i \in maybe[Target]}'
                = maybe'[Target]
  <3>1. Unhidden'
    BY Mapped, PTL
  <3> QED
    BY <3>1 DEF Unhidden
  <2>s. ASSUME entry'[Target] = entry[Target], maybe'[Target] = maybe[Target],
               (dir' = "kept") <=> (dir = "kept")
        PROVE  UNCHANGED Atomic!vars
    BY <2>m, <2>n, <2>s, ZenonT(30) DEF Atomic!vars
  <2>p. ASSUME NEW w \in Writers, Publishes(w) PROVE Atomic!Next
  <3>1. /\ entry'[Target] = at[w].call /\ maybe'[Target] = maybe[Target] \cup {at[w].call}
        /\ dir' = dir /\ at[w].call \in Inodes
    BY <2>p DEF Publishes, Inv, TypeOK
  <3> QED
    BY <2>m, <2>n, <3>1, ZenonT(30) DEF Atomic!Next, Atomic!Write
  <2>1. ASSUME NEW w \in Writers, RenameTmp(w) \/ Link(w) PROVE [Atomic!Next]_Atomic!vars
  <3>1. CASE GivesUp(w) \/ Pauses(w)
    BY <3>1, <2>s, ZenonT(30) DEF GivesUp, Pauses, Quiet, fs
  <3> QED
    BY <2>1, <2>p, <3>1, RenameTmpCases, LinkCases
  <2>2. ASSUME NEW w \in Writers, SyncDir(w) PROVE [Atomic!Next]_Atomic!vars
  <3>1. entry'[Target] = entry[Target] /\ dir' = dir
        /\ (maybe'[Target] = {entry[Target]} \/ maybe'[Target] = maybe[Target])
    BY <2>2, Basics, ZenonT(30) DEF SyncDir
  <3>2. CASE maybe'[Target] = {entry[Target]}
    BY <2>m, <2>n, <3>1, <3>2, ZenonT(30) DEF Atomic!Next, Atomic!Harden
  <3> QED
    BY <3>1, <3>2, <2>s
  <2>3. ASSUME NEW w \in Writers, NEW k \in Kinds, Begin(w, k) PROVE [Atomic!Next]_Atomic!vars
    BY <2>3, <2>s, ZenonT(30) DEF Begin, ensure_private_dir
  <2>4. CASE Kill
    BY <2>4, <2>s DEF Kill, fs
  <2>5. CASE PowerLoss
  <3>0. maybe'[Target] = {entry'[Target]} /\ Target \in Paths
    BY <2>5, Basics DEF PowerLoss
  <3>1. CASE dir = "fresh" /\ dir' = "none" /\ entry' = [p \in Paths |-> None]
    <4>1. entry'[Target] = None /\ dir # "kept" /\ dir' # "kept"
      BY <3>0, <3>1
    <4> QED
      BY <2>m, <2>n, <3>0, <4>1, ZenonT(30) DEF Atomic!Next, Atomic!Vanish
  <3>2. CASE dir' = (IF dir = "fresh" THEN "kept" ELSE dir) /\ entry' \in Fallback
    <4>1. entry'[Target] \in maybe[Target] /\ (dir = "kept" => dir' = "kept")
      BY <3>0, <3>2, ZenonT(30) DEF Fallback
    <4> QED
      BY <2>m, <2>n, <3>0, <4>1, ZenonT(30) DEF Atomic!Next, Atomic!LosePower
  <3> QED
    BY <2>5, <3>1, <3>2 DEF PowerLoss
  <2>6. CASE UNCHANGED vars
    BY <2>6, <2>s DEF vars, fs
  <2>7. ASSUME NEW w \in Writers, Step(w) PROVE [Atomic!Next]_Atomic!vars
    BY <2>7, <2>1, <2>2, <2>s, TargetKept, ZenonT(30) DEF Step
  <2> QED
    BY <2>3, <2>4, <2>5, <2>6, <2>7 DEF Next
<1> QED
    BY <1>1, <1>2, SpecInv, PTL DEF Spec, ImplementsAtomicFile, Atomic!Spec
=============================================================================
