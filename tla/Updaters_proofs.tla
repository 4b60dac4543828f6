---------------------------- MODULE Updaters_proofs ----------------------------
(* Theorems about Updaters, for any number of versions, of versions kept and of  *)
(* faults, and for whatever packages and names the server sends.                 *)
EXTENDS Updaters, FiniteSetTheorems, WellFoundedInduction, TLAPS

-----------------------------------------------------------------------------
(* The steps, without what tells the four SDKs apart. *)

Starting ==
  \E v \in Versions :
    \/ /\ Begin("apply", v, "fetch") \/ (Begin("stage", v, "fetch") /\ sdk = "php")
       /\ ~(pointer = v /\ IsDir(Final(v))) /\ marred' = marred
    \/ /\ Begin("switch", v, "switch") /\ IsDir(Final(v))
       /\ marred' = IF disk[Final(v)] = Broken THEN marred \cup {v} ELSE marred

Fetching ==
  /\ pc = "fetch"
  /\ \/ Keep /\ (End("failed") \/ (pc' = "unpack" /\ got' = target /\ UNCHANGED <<call, victims, outcome>>))
     \/ CutShort("unpack")
Unpacking ==
  /\ pc = "unpack"
  /\ \/ Keep /\ (End("failed") \/ (pc' = "clean" /\ UNCHANGED <<call, got, victims, outcome>>))
     \/ CutShort("clean")

Delete(d) == Erase(d) \/ Stuck(d)
Cleaning ==
  /\ pc = "clean" /\ Delete(Pending(target))
  /\ Goto("move") \/ End("failed")
Moving ==
  /\ pc = "move"
  /\ \/ PutPending /\ Goto("clear")
     \/ /\ IsDir(Pending(target)) /\ disk' = [disk EXCEPT ![Pending(target)] = Broken]
        /\ marred' = marred \cup {target} /\ UNCHANGED <<pointer, faults>> /\ Goto("clear")
     \/ (Keep \/ Thwarted) /\ End("failed")
Clearing ==
  /\ pc = "clear"
  /\ \/ Erase(Final(target)) /\ Goto("place")
     \/ Stuck(Final(target)) /\ (Goto("place") \/ End("failed"))
Placing ==
  /\ pc = "place"
  /\ \/ PutFinal /\ (Goto("switch") \/ (Goto("after") /\ op # "apply" /\ sdk = "php"))
     \/ /\ (Keep /\ IsDir(Final(target))) \/ Thwarted \/ Delete(Pending(target))
           \/ (Fault /\ disk' = [disk EXCEPT ![Pending(target)] = Absent] /\ UNCHANGED <<pointer, marred>>)
        /\ End("failed")

Switched == IF op = "apply" THEN Goto("prune") ELSE End("switched")
Switching ==
  /\ pc = "switch"
  /\ \/ Repoint(target) /\ Switched
     \/ Fault /\ pointer' = Null /\ UNCHANGED <<disk, marred>> /\ (Switched \/ (Goto("repoint") /\ sdk = "csharp"))
     \/ Keep /\ Goto("repoint") /\ sdk = "csharp"
     \/ Thwarted /\ End("failed")
Repointing ==
  /\ pc = "repoint"
  /\ (Repoint(target) /\ Switched) \/ (Thwarted /\ End("failed"))

Deciding(installed) == NothingToPrune(installed) \/ ListVictims(installed)
Pruning ==
  \/ Deciding({d \in Dirs : IsDir(d)})
  \/ Deciding({d \in Dirs : IsDir(d) /\ d[2] # "pending"})
  \/ /\ pc = "prune" /\ victims # {}
     /\ \/ Delete(NextVictim) /\ Drop(NextVictim)
        \/ Stuck(NextVictim) /\ End("late")
Finishing ==
  /\ pc = "after" /\ Keep
  /\ (End("applied") /\ (op = "apply" \/ sdk # "php")) \/ End("staged") \/ End("late")

LEMMA NothingIsNone ==
  /\ Null \notin Versions /\ Absent \notin Versions /\ Broken \notin Versions /\ Absent # Broken /\ Null # Broken
  /\ Versions \subseteq Nat /\ IsFiniteSet(Versions) /\ KeepVersions \in Nat \ {0}
BY UpdaterAssumption DEF UpdaterAssumption

(* Whatever the plan says and whoever sent the bytes: what is accepted for a
   version is that version.                                                  *)
LEMMA AcceptedIsGenuine ==
  ASSUME NEW v \in Versions
  PROVE  NodeAccepted[v] \subseteq {v} /\ PyAccepted[v] \subseteq {v} /\ CsAccepted[v] \subseteq {v} /\ PhpAccepted[v] \subseteq {v}
<1>1. ASSUME NEW plan \in Plans, NEW w \in Versions, plan.signed # Null, plan.signed = <<v, w, plan.size>>
      PROVE  w = v
  <2>1. plan.signed \in {<<u, u, Size(u)>> : u \in Versions}
    BY <1>1 DEF Plans
  <2>2. PICK u \in Versions : plan.signed = <<u, u, Size(u)>>
    BY <2>1
  <2> QED
    BY <1>1, <2>2
<1> QED
  BY <1>1 DEF NodeAccepted, PyAccepted, CsAccepted, PhpAccepted, NodeVerifies, PyVerifies, CsVerifies, PhpVerifies

LEMMA NodeSteps ==
  ASSUME target \in Versions, NodeReceive \/ NodeInstall
  PROVE  Fetching \/ Unpacking \/ Cleaning \/ Moving \/ Clearing \/ Placing \/ Switching \/ Pruning
         \/ (Finishing \/ sdk = "php")
<1>1. NodeFetch => Fetching
  BY AcceptedIsGenuine DEF NodeFetch, Fetch, Fetching
<1>2. NodeUnpack => Unpacking
  BY DEF NodeUnpack, Unpack, Unpacking
<1>3. /\ NodeClean => Cleaning
      /\ NodeMove => Moving
      /\ NodeClear => Clearing
      /\ NodePlace => Placing
      /\ NodeSwitch => Switching
  BY DEF NodeClean, NodeMove, NodeClear, NodePlace, NodeSwitch, Cleaning, Moving, Clearing, Placing, Switching, Switched, Delete
<1>4. NodePrune => Pruning
  BY DEF NodePrune, Pruning, Deciding, NodeInstalled, Delete
<1>5. NodeAfter => Finishing \/ sdk = "php"
  BY DEF NodeAfter, Finishing
<1> QED
  BY <1>1, <1>2, <1>3, <1>4, <1>5 DEF NodeReceive, NodeInstall

LEMMA PySteps ==
  ASSUME target \in Versions, PyReceive \/ PyInstall
  PROVE  Fetching \/ Unpacking \/ Cleaning \/ Moving \/ Clearing \/ Placing \/ Switching \/ Pruning
         \/ (Finishing \/ sdk = "php")
<1>1. PyFetch => Fetching
  BY AcceptedIsGenuine DEF PyFetch, Fetch, Fetching
<1>2. PyUnpack => Unpacking
  BY DEF PyUnpack, Unpack, Unpacking
<1>3. /\ PyClean => Cleaning
      /\ PyMove => Moving
      /\ PyClear => Clearing
      /\ PyPlace => Placing
      /\ PySwitch => Switching
  BY DEF PyClean, PyMove, PyClear, PyPlace, PySwitch, Cleaning, Moving, Clearing, Placing, Switching, Switched, Delete
<1>4. PyPrune => Pruning
  BY DEF PyPrune, Pruning, Deciding, PyInstalled, Delete
<1>5. PyAfter => Finishing \/ sdk = "php"
  BY DEF PyAfter, Finishing
<1> QED
  BY <1>1, <1>2, <1>3, <1>4, <1>5 DEF PyReceive, PyInstall

LEMMA CsSteps ==
  ASSUME target \in Versions, CsReceive \/ CsInstall, sdk = "csharp"
  PROVE  Fetching \/ Unpacking \/ Cleaning \/ Moving \/ Clearing \/ Placing \/ Switching \/ Repointing \/ Pruning \/ Finishing
<1>1. CsFetch => Fetching
  BY AcceptedIsGenuine DEF CsFetch, Fetch, Fetching
<1>2. CsUnpack => Unpacking
  BY DEF CsUnpack, Unpack, Unpacking
<1>3. /\ CsClean => Cleaning
      /\ CsMove => Moving
      /\ CsClear => Clearing
      /\ CsPlace => Placing
      /\ CsSwitch => Switching
      /\ CsRepoint => Repointing
  BY DEF CsClean, CsMove, CsClear, CsPlace, CsSwitch, CsRepoint, TryDelete, Cleaning, Moving, Clearing, Placing, Switching,
         Repointing, Switched, Delete
<1>4. CsPrune => Pruning
  BY DEF CsPrune, Pruning, Deciding, CsInstalled, TryDelete, Delete
<1>5. CsAfter => Finishing
  BY DEF CsAfter, Finishing
<1> QED
  BY <1>1, <1>2, <1>3, <1>4, <1>5 DEF CsReceive, CsInstall

LEMMA PhpSteps ==
  ASSUME target \in Versions, PhpReceive \/ PhpInstall, sdk = "php"
  PROVE  Fetching \/ Unpacking \/ Cleaning \/ Moving \/ Clearing \/ Placing \/ Switching \/ Pruning \/ Finishing
<1>1. PhpFetch => Fetching
  BY AcceptedIsGenuine DEF PhpFetch, Fetch, Fetching
<1>2. PhpUnpack => Unpacking
  BY DEF PhpUnpack, Unpack, Unpacking
<1>3. /\ PhpClean => Cleaning
      /\ PhpMove => Moving
      /\ PhpClear => Clearing
      /\ PhpPlace => Placing
      /\ PhpSwitchTo => Switching
  BY DEF PhpClean, PhpMove, PhpClear, PhpPlace, PhpSwitchTo, RmTree, Cleaning, Moving, Clearing, Placing, Switching, Switched,
         Delete
<1>4. PhpPrune => Pruning
  BY DEF PhpPrune, Pruning, Deciding, PhpInstalled, RmTree, Delete
<1>5. PhpAfter => Finishing
  BY DEF PhpAfter, Finishing
<1> QED
  BY <1>1, <1>2, <1>3, <1>4, <1>5 DEF PhpReceive, PhpInstall

LEMMA Steps ==
  ASSUME [Next]_vars, pc # "idle" => target \in Versions
  PROVE  \/ Starting \/ Fetching \/ Unpacking \/ Cleaning \/ Moving \/ Clearing \/ Placing \/ Switching \/ Repointing
         \/ Pruning \/ Finishing \/ Crash \/ UNCHANGED vars
<1>1. Start => Starting
  BY DEF Start, Starting, NodeApply, PyApply, CsApply, PhpApply, PhpStage, NodeRollback, PyRollback, CsRollback, PhpRollback
<1>2. Receive => pc # "idle"
  BY DEF Receive, NodeReceive, PyReceive, CsReceive, PhpReceive, NodeFetch, PyFetch, CsFetch, PhpFetch, Fetch,
         NodeUnpack, PyUnpack, CsUnpack, PhpUnpack, Unpack
<1>3. Install => pc # "idle"
  BY DEF Install, NodeInstall, PyInstall, CsInstall, PhpInstall,
         NodeClean, NodeMove, NodeClear, NodePlace, NodeSwitch, NodePrune, NodeAfter,
         PyClean, PyMove, PyClear, PyPlace, PySwitch, PyPrune, PyAfter,
         CsClean, CsMove, CsClear, CsPlace, CsSwitch, CsRepoint, CsPrune, CsAfter,
         PhpClean, PhpMove, PhpClear, PhpPlace, PhpSwitchTo, PhpPrune, PhpAfter, NothingToPrune, ListVictims
<1> QED
  BY <1>1, <1>2, <1>3, NodeSteps, PySteps, CsSteps, PhpSteps DEF Next, Receive, Install
-----------------------------------------------------------------------------
(* Directories and their order. *)

LEMMA Directories ==
  ASSUME NEW v \in Versions, NEW w \in Versions
  PROVE  /\ Final(v) \in Dirs /\ Pending(v) \in Dirs
         /\ Final(v)[1] = v /\ Pending(v)[1] = v
         /\ Final(v) # Pending(w)
         /\ Final(v) = Final(w) => v = w
         /\ Pending(v) = Pending(w) => v = w
         /\ Final(v)[2] = "final" /\ Pending(v)[2] = "pending"
BY DEF Final, Pending, Dirs

LEMMA OneOrTheOther ==
  ASSUME NEW d \in Dirs
  PROVE  d[1] \in Versions /\ (d = Final(d[1]) \/ d = Pending(d[1]))
<1>1. PICK v \in Versions, k \in {"final", "pending"} : d = <<v, k>>
  BY DEF Dirs
<1> QED
  BY <1>1 DEF Final, Pending

LEMMA FinitelyMany ==
  IsFiniteSet(Dirs)
<1>1. IsFiniteSet({"final"} \cup {"pending"})
  BY FS_Singleton, FS_Union
<1>2. {"final", "pending"} = {"final"} \cup {"pending"}
  OBVIOUS
<1> QED
  BY <1>1, <1>2, NothingIsNone, FS_Product DEF Dirs

(* No two directories have one rank. *)
LEMMA Ranks ==
  /\ \A d \in Dirs : Rank(d) \in Nat
  /\ \A d, e \in Dirs : Rank(d) = Rank(e) => d = e
<1>1. ASSUME NEW d \in Dirs
      PROVE  d[1] \in Nat /\ (d[2] = "final" \/ d[2] = "pending") /\ d = <<d[1], d[2]>>
  <2>1. PICK v \in Versions, k \in {"final", "pending"} : d = <<v, k>>
    BY DEF Dirs
  <2> QED
    BY <2>1, NothingIsNone
<1>2. ASSUME NEW d \in Dirs
      PROVE  Rank(d) \in Nat
  BY <1>1 DEF Rank
<1>3. ASSUME NEW d \in Dirs, NEW e \in Dirs, Rank(d) = Rank(e)
      PROVE  d = e
  <2>1. /\ d[1] \in Nat /\ e[1] \in Nat
        /\ d[2] = "final" \/ d[2] = "pending"
        /\ e[2] = "final" \/ e[2] = "pending"
    BY <1>1
  <2>2. d[1] = e[1] /\ d[2] = e[2]
    BY <1>3, <2>1, SMTT(30) DEF Rank
  <2>3. d = <<d[1], d[2]>> /\ e = <<e[1], e[2]>>
    BY <1>1
  <2> QED
    BY <2>2, <2>3
<1> QED
  BY <1>2, <1>3

(* A set of naturals with an element has a least one. *)
LEMMA Least ==
  ASSUME NEW S \in SUBSET Nat, S # {}
  PROVE  \E x \in S : \A y \in S : x <= y
<1> DEFINE R == OpToRel(<, Nat)
<1>1. \A x, y \in Nat : x < y => <<x, y>> \in R
  BY Zenon DEF OpToRel
<1>2. IsWellFoundedOn(R, Nat)
  BY NatLessThanWellFounded, Zenon
<1> HIDE DEF R
<1>3. PICK x \in S : \A y \in S : ~(<<y, x>> \in R)
  BY <1>2, WFMin, Zenon
<1>4. ASSUME NEW y \in S
      PROVE  ~(y < x)
  BY <1>1, <1>3, Zenon
<1>5. \A y \in S : x <= y
  BY <1>4
<1> QED
  BY <1>5

LEMMA Lowest ==
  ASSUME NEW S \in SUBSET Dirs, S # {}
  PROVE  \E d \in S : \A e \in S : Rank(d) <= Rank(e)
<1>1. {Rank(d) : d \in S} \subseteq Nat /\ {Rank(d) : d \in S} # {}
  BY Ranks
<1>2. PICK r \in {Rank(d) : d \in S} : \A s \in {Rank(d) : d \in S} : r <= s
  BY <1>1, Least
<1> QED
  BY <1>2

LEMMA NextVictimIsOne ==
  ASSUME victims \subseteq Dirs, victims # {}
  PROVE  NextVictim \in victims
BY Lowest DEF NextVictim

-----------------------------------------------------------------------------
(* The invariant behind the theorems, part by part. *)

(* The variables' types. *)
Typed ==
  /\ disk \in [Dirs -> Versions \cup {Absent, Broken}]
  /\ pointer \in Versions \cup {Null} /\ before \in Versions \cup {Null}
  /\ pc # "idle" => target \in Versions
  /\ victims \subseteq Dirs
  /\ faults \in Nat

(* Where a call is and what it is. *)
Control ==
  /\ pc # "idle" => outcome = "none"
  /\ victims # {} => pc = "prune"
  /\ pc = "repoint" => sdk = "csharp"
  /\ pc = "prune" => op = "apply"
  /\ pc = "after" /\ op # "apply" => sdk = "php"

(* What is in full is its own version's, and so is what has been received. *)
Genuine ==
  /\ \A d \in Dirs : disk[d] \in {d[1], Absent, Broken}
  /\ pc \in {"unpack", "clean", "move"} => got = target \/ (got = Broken /\ target \in marred)

(* In full, as far as anybody looked. *)
Full(d, v) == IsDir(d) /\ (disk[d] = v \/ v \in marred)

(* What is moved into place is there in full, and so is what is switched to. *)
Whole ==
  /\ pc \in {"clear", "place"} => Full(Pending(target), target)
  /\ pc \in {"switch", "repoint"} => Full(Final(target), target)

(* So is the version current.txt names. *)
Current == pointer # Null => Full(Final(pointer), pointer)

(* A call that deletes and moves is about another version than the current
   one, and the current one is not on the list to delete. *)
Apart ==
  /\ pc \in {"fetch", "unpack", "clean", "move", "clear", "place"} => pointer # target
  /\ \A v \in Versions : pointer = v => Final(v) \notin victims

(* Until the switch the pointer is what it was when the call began. *)
Unswitched ==
  /\ pc \in {"fetch", "unpack", "clean", "move", "clear", "place", "switch"} => pointer = before
  /\ outcome = "failed" /\ sdk # "csharp" => pointer = before

Safe == Typed /\ Control /\ Genuine /\ Whole /\ Current /\ Apart /\ Unswitched

-----------------------------------------------------------------------------
(* What a step does to one directory. *)

LEMMA OneDirectory ==
  ASSUME Typed, NEW d \in Dirs, NEW e \in Dirs
  PROVE  /\ Erase(d) => disk'[d] = Absent /\ (e # d => disk'[e] = disk[e])
         /\ Stuck(d) => disk'[d] \in {disk[d], Broken} /\ IsDir(d) /\ (e # d => disk'[e] = disk[e])
         /\ Delete(d) => disk'[d] \in {disk[d], Broken, Absent} /\ (e # d => disk'[e] = disk[e])
BY DEF Typed, Erase, Stuck, Delete

LEMMA Deletes ==
  ASSUME NEW d, Delete(d)
  PROVE  pointer' = pointer /\ marred' = marred
BY DEF Delete, Erase, Stuck

(* A call deletes, moves and unpacks beside the current version. *)
LEMMA SparesTheCurrent ==
  ASSUME Safe, pointer \in Versions,
         Starting \/ Fetching \/ Unpacking \/ Cleaning \/ Moving \/ Clearing \/ Placing \/ Switching \/ Repointing
         \/ Pruning \/ Finishing \/ Crash \/ UNCHANGED vars
  PROVE  disk'[Final(pointer)] = disk[Final(pointer)]
<1>0. Final(pointer) \in Dirs
  BY Directories
<1>1. CASE Starting
  BY <1>1 DEF Starting, Begin
<1>2. CASE Fetching \/ Unpacking \/ Finishing \/ UNCHANGED vars
  BY <1>2 DEF Fetching, Unpacking, CutShort, Finishing, Keep, vars
<1>3. CASE Cleaning
  <2>1. target \in Versions /\ Delete(Pending(target))
    BY <1>3 DEF Safe, Typed, Cleaning
  <2>2. Pending(target) \in Dirs /\ Pending(target) # Final(pointer)
    BY <2>1, Directories
  <2> QED
    BY <1>0, <2>1, <2>2, OneDirectory DEF Safe
<1>4. CASE Moving
  <2>1. target \in Versions /\ (disk' = disk \/ \E x : disk' = [disk EXCEPT ![Pending(target)] = x])
    BY <1>4 DEF Safe, Typed, Moving, PutPending, Keep, Thwarted
  <2>2. Pending(target) # Final(pointer)
    BY <2>1, Directories
  <2> QED
    BY <1>0, <2>1, <2>2 DEF Safe, Typed
<1>5. CASE Clearing
  <2>1. target \in Versions /\ pointer # target /\ Delete(Final(target))
    BY <1>5 DEF Safe, Typed, Apart, Clearing, Delete
  <2>2. Final(target) \in Dirs /\ Final(target) # Final(pointer)
    BY <2>1, Directories
  <2> QED
    BY <1>0, <2>1, <2>2, OneDirectory DEF Safe
<1>6. CASE Placing
  <2>1. target \in Versions /\ pointer # target
    BY <1>6 DEF Safe, Typed, Apart, Placing
  <2>2. /\ Final(target) \in Dirs /\ Final(target) # Final(pointer)
        /\ Pending(target) \in Dirs /\ Pending(target) # Final(pointer)
    BY <2>1, Directories
  <2>3. CASE PutFinal
    BY <1>0, <2>2, <2>3 DEF PutFinal, Safe, Typed
  <2>4. CASE Delete(Pending(target))
    BY <1>0, <2>2, <2>4, OneDirectory DEF Safe
  <2>5. CASE disk' = disk \/ disk' = [disk EXCEPT ![Pending(target)] = Absent]
    BY <1>0, <2>2, <2>5 DEF Safe, Typed
  <2> QED
    BY <1>6, <2>3, <2>4, <2>5 DEF Placing, Keep, Thwarted
<1>7. CASE Switching \/ Repointing
  BY <1>7 DEF Switching, Repointing, Repoint, Keep, Thwarted
<1>8. CASE Pruning
  <2>1. CASE disk' = disk
    BY <2>1
  <2>2. CASE victims # {} /\ Delete(NextVictim)
    <3>1. NextVictim \in victims /\ NextVictim \in Dirs
      BY <2>2, NextVictimIsOne DEF Safe, Typed
    <3>2. NextVictim # Final(pointer)
      BY <3>1 DEF Safe, Apart
    <3> QED
      BY <1>0, <2>2, <3>1, <3>2, OneDirectory DEF Safe
  <2> QED
    BY <1>8, <2>1, <2>2 DEF Pruning, Deciding, NothingToPrune, ListVictims, Keep, Delete
<1>9. CASE Crash
  <2>1. CASE disk' = disk
    BY <2>1
  <2>2. CASE \E d \in Deleting : disk' = [disk EXCEPT ![d] = Broken]
    <3>1. PICK d \in Deleting : disk' = [disk EXCEPT ![d] = Broken]
      BY <2>2
    <3>2. d # Final(pointer)
      <4>1. CASE pc = "clean"
        BY <3>1, <4>1, Directories DEF Deleting, Safe, Typed
      <4>2. CASE pc = "clear"
        BY <3>1, <4>2, Directories DEF Deleting, Safe, Typed, Apart
      <4>3. CASE pc = "prune" /\ victims # {}
        BY <3>1, <4>3, NextVictimIsOne DEF Deleting, Safe, Typed, Apart
      <4> QED
        BY <3>1, <4>1, <4>2, <4>3 DEF Deleting
    <3> QED
      BY <1>0, <3>1, <3>2 DEF Safe, Typed
  <2> QED
    BY <1>9, <2>1, <2>2 DEF Crash
<1> QED
  BY <1>1, <1>2, <1>3, <1>4, <1>5, <1>6, <1>7, <1>8, <1>9

LEMMA CurrentStays ==
  ASSUME Safe, pointer' = pointer, pointer \in marred => pointer \in marred',
         pointer \in Versions => disk'[Final(pointer)] = disk[Final(pointer)]
  PROVE  Current'
<1> SUFFICES ASSUME pointer' # Null
             PROVE  Full(Final(pointer), pointer)'
  BY DEF Current
<1>1. pointer \in Versions /\ Full(Final(pointer), pointer)
  BY DEF Safe, Typed, Current
<1>2. disk'[Final(pointer')] = disk[Final(pointer)]
  BY <1>1
<1> QED
  BY <1>1, <1>2 DEF Full, IsDir

LEMMA StartingIsSafe ==
  ASSUME Safe, Starting
  PROVE  Safe'
<1>1. Typed'
  BY Directories, OneOrTheOther, NothingIsNone
     DEF Safe, Typed, Starting, Begin
<1>2. Control'
  BY DEF Safe, Typed, Control, Starting, Begin
<1>3. Genuine'
  BY Directories, OneOrTheOther, NothingIsNone
     DEF Safe, Typed, Genuine, Starting, Begin
<1>4. Whole'
  <2>1. CASE pc' = "fetch"
    BY <2>1 DEF Whole
  <2>2. CASE pc' # "fetch"
    <3>1. PICK v \in Versions : 
             /\ Begin("switch", v, "switch") /\ IsDir(Final(v))
             /\ marred' = IF disk[Final(v)] = Broken THEN marred \cup {v} ELSE marred
      BY <2>2 DEF Starting, Begin
    <3>2. pc' = "switch" /\ target' = v /\ disk' = disk
      BY <3>1 DEF Begin
    <3>3. disk[Final(v)] = Broken => v \in marred'
      BY <3>1
    <3>4. disk[Final(v)] = v \/ disk[Final(v)] = Broken
      BY <3>1, Directories DEF Safe, Genuine, IsDir
    <3>5. Final(target)' = Final(v)
      BY <3>2 DEF Final
    <3>6. IsDir(Final(target))' /\ (disk'[Final(v)] = v \/ v \in marred')
      BY <3>1, <3>2, <3>3, <3>4, <3>5 DEF IsDir
    <3> QED
      BY <3>2, <3>5, <3>6 DEF Whole, Full
  <2> QED
    BY <2>1, <2>2
<1>5. Current'
  <2>1. pointer' = pointer
    BY DEF Starting, Begin
  <2>2. pointer \in marred => pointer \in marred'
    BY DEF Starting
  <2> QED
    BY <2>1, <2>2, CurrentStays, SparesTheCurrent
<1>6. Apart'
  <2>1. pointer' = pointer /\ victims' = {}
    BY DEF Starting, Begin
  <2>2. pointer # Null => IsDir(Final(pointer))
    BY DEF Safe, Current, Full
  <2>3. pc' = "fetch" => pointer' # target'
    BY <2>1, <2>2, NothingIsNone DEF Starting, Begin
  <2>4. pc' \in {"fetch", "switch"}
    BY DEF Starting, Begin
  <2> QED
    BY <2>1, <2>3, <2>4 DEF Apart
<1>7. Unswitched'
  BY DEF Safe, Typed, Control, Unswitched, Starting, Begin
<1> QED
  BY <1>1, <1>2, <1>3, <1>4, <1>5, <1>6, <1>7 DEF Safe

LEMMA FetchingIsSafe ==
  ASSUME Safe, Fetching
  PROVE  Safe'
<1>1. Typed'
  BY Directories, OneOrTheOther, NothingIsNone
     DEF Safe, Typed, Fetching, CutShort, Fault, Keep, End, call
<1>2. Control'
  BY DEF Safe, Typed, Control, Fetching, CutShort, Fault, Keep, End, call
<1>3. Genuine'
  BY Directories, OneOrTheOther, NothingIsNone
     DEF Safe, Typed, Genuine, Fetching, CutShort, Fault, Keep, End, call
<1>4. Whole'
  BY Directories, OneOrTheOther, NothingIsNone
     DEF Safe, Typed, Control, Genuine, Whole, Full, IsDir, Fetching, CutShort, Fault, Keep, End, call
<1>5. Current'
  <2>1. pointer' = pointer /\ (pointer \in marred => pointer \in marred')
    BY DEF Fetching, CutShort, Fault, Keep, End, call
  <2> QED
    BY <2>1, CurrentStays, SparesTheCurrent
<1>6. Apart'
  BY DEF Safe, Typed, Control, Apart, Fetching, CutShort, Fault, Keep, End, call
<1>7. Unswitched'
  BY DEF Safe, Typed, Control, Unswitched, Fetching, CutShort, Fault, Keep, End, call
<1> QED
  BY <1>1, <1>2, <1>3, <1>4, <1>5, <1>6, <1>7 DEF Safe

LEMMA UnpackingIsSafe ==
  ASSUME Safe, Unpacking
  PROVE  Safe'
<1>1. Typed'
  BY Directories, OneOrTheOther, NothingIsNone
     DEF Safe, Typed, Unpacking, CutShort, Fault, Keep, End, call
<1>2. Control'
  BY DEF Safe, Typed, Control, Unpacking, CutShort, Fault, Keep, End, call
<1>3. Genuine'
  BY Directories, OneOrTheOther, NothingIsNone
     DEF Safe, Typed, Genuine, Unpacking, CutShort, Fault, Keep, End, call
<1>4. Whole'
  BY Directories, OneOrTheOther, NothingIsNone
     DEF Safe, Typed, Control, Genuine, Whole, Full, IsDir, Unpacking, CutShort, Fault, Keep, End, call
<1>5. Current'
  <2>1. pointer' = pointer /\ (pointer \in marred => pointer \in marred')
    BY DEF Unpacking, CutShort, Fault, Keep, End, call
  <2> QED
    BY <2>1, CurrentStays, SparesTheCurrent
<1>6. Apart'
  BY DEF Safe, Typed, Control, Apart, Unpacking, CutShort, Fault, Keep, End, call
<1>7. Unswitched'
  BY DEF Safe, Typed, Control, Unswitched, Unpacking, CutShort, Fault, Keep, End, call
<1> QED
  BY <1>1, <1>2, <1>3, <1>4, <1>5, <1>6, <1>7 DEF Safe

LEMMA CleaningIsSafe ==
  ASSUME Safe, Cleaning
  PROVE  Safe'
<1>1. Typed'
  BY Directories, OneOrTheOther, NothingIsNone
     DEF Safe, Typed, Cleaning, Delete, Erase, Stuck, Fault, Goto, End, call
<1>2. Control'
  BY DEF Safe, Typed, Control, Cleaning, Delete, Erase, Stuck, Fault, Goto, End, call
<1>3. Genuine'
  BY Directories, OneOrTheOther, NothingIsNone
     DEF Safe, Typed, Genuine, Cleaning, Delete, Erase, Stuck, Fault, Goto, End, call
<1>4. Whole'
  BY Directories, OneOrTheOther, NothingIsNone
     DEF Safe, Typed, Control, Genuine, Whole, Full, IsDir, Cleaning, Delete, Erase, Stuck, Fault, Goto, End, call
<1>5. Current'
  <2>1. pointer' = pointer /\ (pointer \in marred => pointer \in marred')
    BY DEF Cleaning, Delete, Erase, Stuck, Fault, Goto, End, call
  <2> QED
    BY <2>1, CurrentStays, SparesTheCurrent
<1>6. Apart'
  BY DEF Safe, Typed, Control, Apart, Cleaning, Delete, Erase, Stuck, Fault, Goto, End, call
<1>7. Unswitched'
  BY DEF Safe, Typed, Control, Unswitched, Cleaning, Delete, Erase, Stuck, Fault, Goto, End, call
<1> QED
  BY <1>1, <1>2, <1>3, <1>4, <1>5, <1>6, <1>7 DEF Safe

LEMMA MovingIsSafe ==
  ASSUME Safe, Moving
  PROVE  Safe'
<1>1. Typed'
  BY Directories, OneOrTheOther, NothingIsNone
     DEF Safe, Typed, Genuine, Moving, PutPending, Keep, Thwarted, Fault, Goto, End, call
<1>2. Control'
  BY DEF Safe, Typed, Control, Moving, PutPending, Keep, Thwarted, Fault, Goto, End, call
<1>3. Genuine'
  <2>1. target \in Versions /\ Pending(target) \in Dirs /\ Pending(target)[1] = target /\ got \in {target, Broken}
    BY Directories DEF Moving, Safe, Typed, Genuine
  <2>2. disk' = disk \/ disk' = [disk EXCEPT ![Pending(target)] = target] \/ disk' = [disk EXCEPT ![Pending(target)] = Broken]
    BY <2>1 DEF Moving, PutPending, Keep, Thwarted
  <2>3. \A d \in Dirs : disk'[d] \in {d[1], Absent, Broken}
    BY <2>1, <2>2 DEF Safe, Typed, Genuine
  <2>4. pc' \notin {"unpack", "clean", "move"}
    BY DEF Moving, Goto, End
  <2> QED
    BY <2>3, <2>4 DEF Genuine
<1>4. Whole'
  <2>1. CASE PutPending /\ Goto("clear")
    <3>1. /\ target' = target /\ marred' = marred /\ target \in Versions /\ Pending(target) \in Dirs
          /\ got = target \/ (got = Broken /\ target \in marred)
      BY <2>1, Directories DEF Goto, call, PutPending, Moving, Safe, Typed, Genuine
    <3>2. disk'[Pending(target)] = got /\ target # Absent /\ Broken # Absent
      BY <2>1, <3>1, NothingIsNone DEF PutPending, Safe, Typed
    <3> QED
      BY <2>1, <3>1, <3>2 DEF Goto, Whole, Full, IsDir
  <2>2. CASE disk' = [disk EXCEPT ![Pending(target)] = Broken] /\ marred' = marred \cup {target} /\ Goto("clear")
    <3>1. target' = target /\ target \in Versions /\ Pending(target) \in Dirs
      BY <2>2, Directories DEF Goto, call, Moving, Safe, Typed
    <3>2. disk'[Pending(target)] = Broken /\ Broken # Absent
      BY <2>2, <3>1, NothingIsNone DEF Safe, Typed
    <3> QED
      BY <2>2, <3>1, <3>2 DEF Goto, Whole, Full, IsDir
  <2>3. CASE End("failed")
    BY <2>3 DEF End, Whole
  <2> QED
    BY <2>1, <2>2, <2>3 DEF Moving
<1>5. Current'
  <2>1. pointer' = pointer /\ (pointer \in marred => pointer \in marred')
    BY DEF Moving, PutPending, Keep, Thwarted, Fault, Goto, End, call
  <2> QED
    BY <2>1, CurrentStays, SparesTheCurrent
<1>6. Apart'
  BY DEF Safe, Typed, Control, Apart, Moving, PutPending, Keep, Thwarted, Fault, Goto, End, call
<1>7. Unswitched'
  BY DEF Safe, Typed, Control, Unswitched, Moving, PutPending, Keep, Thwarted, Fault, Goto, End, call
<1> QED
  BY <1>1, <1>2, <1>3, <1>4, <1>5, <1>6, <1>7 DEF Safe

LEMMA ClearingIsSafe ==
  ASSUME Safe, Clearing
  PROVE  Safe'
<1>1. Typed'
  BY Directories, OneOrTheOther, NothingIsNone
     DEF Safe, Typed, Clearing, Erase, Stuck, Fault, Goto, End, call
<1>2. Control'
  BY DEF Safe, Typed, Control, Clearing, Erase, Stuck, Fault, Goto, End, call
<1>3. Genuine'
  BY Directories, OneOrTheOther, NothingIsNone
     DEF Safe, Typed, Genuine, Clearing, Erase, Stuck, Fault, Goto, End, call
<1>4. Whole'
  <2>1. CASE Goto("place") /\ Delete(Final(target))
    <3>1. /\ target' = target /\ target \in Versions
          /\ Final(target) \in Dirs /\ Pending(target) \in Dirs /\ Final(target) # Pending(target)
      BY <2>1, Directories DEF Goto, call, Clearing, Safe, Typed
    <3>2. disk'[Pending(target)] = disk[Pending(target)] /\ marred' = marred
      BY <2>1, <3>1, OneDirectory, Deletes DEF Safe
    <3>3. Full(Pending(target), target)
      BY DEF Clearing, Safe, Whole
    <3> QED
      BY <2>1, <3>1, <3>2, <3>3 DEF Goto, Whole, Full, IsDir
  <2>2. CASE End("failed")
    BY <2>2 DEF End, Whole
  <2> QED
    BY <2>1, <2>2 DEF Clearing, Delete
<1>5. Current'
  <2>1. pointer' = pointer /\ (pointer \in marred => pointer \in marred')
    BY DEF Clearing, Erase, Stuck, Fault, Goto, End, call
  <2> QED
    BY <2>1, CurrentStays, SparesTheCurrent
<1>6. Apart'
  BY DEF Safe, Typed, Control, Apart, Clearing, Erase, Stuck, Fault, Goto, End, call
<1>7. Unswitched'
  BY DEF Safe, Typed, Control, Unswitched, Clearing, Erase, Stuck, Fault, Goto, End, call
<1> QED
  BY <1>1, <1>2, <1>3, <1>4, <1>5, <1>6, <1>7 DEF Safe

LEMMA PlacingIsSafe ==
  ASSUME Safe, Placing
  PROVE  Safe'
<1>1. Typed'
  <2>1. /\ target \in Versions /\ Final(target) \in Dirs /\ Pending(target) \in Dirs
        /\ pointer' = pointer /\ before' = before /\ target' = target /\ victims' \subseteq victims
    BY Directories DEF Safe, Typed, Placing, PutFinal, Keep, Thwarted, Delete, Erase, Stuck, Goto, End, call
  <2>2. faults' \in Nat
    BY DEF Safe, Typed, Placing, PutFinal, Keep, Thwarted, Delete, Erase, Stuck, Fault
  <2>3. disk' \in [Dirs -> Versions \cup {Absent, Broken}]
    <3>1. CASE PutFinal
      BY <2>1, <3>1 DEF PutFinal, Safe, Typed
    <3>2. CASE Delete(Pending(target))
      BY <2>1, <3>2 DEF Delete, Erase, Stuck, Safe, Typed
    <3>3. CASE disk' = disk \/ disk' = [disk EXCEPT ![Pending(target)] = Absent]
      BY <2>1, <3>3 DEF Safe, Typed
    <3> QED
      BY <3>1, <3>2, <3>3 DEF Placing, Keep, Thwarted
  <2> QED
    BY <2>1, <2>2, <2>3 DEF Safe, Typed
<1>2. Control'
  BY DEF Safe, Typed, Control, Placing, PutFinal, Keep, Thwarted, Delete, Erase, Stuck, Fault, Goto, End, call
<1>3. Genuine'
  <2>1. /\ target \in Versions /\ Final(target) \in Dirs /\ Pending(target) \in Dirs
        /\ Final(target)[1] = target /\ Pending(target)[1] = target
    BY Directories DEF Safe, Typed, Placing
  <2>2. \A d \in Dirs : disk'[d] \in {d[1], Absent, Broken}
    <3>1. CASE PutFinal
      BY <2>1, <3>1 DEF PutFinal, Safe, Typed, Genuine
    <3>2. CASE Delete(Pending(target))
      BY <2>1, <3>2, OneDirectory DEF Safe, Genuine
    <3>3. CASE disk' = disk \/ disk' = [disk EXCEPT ![Pending(target)] = Absent]
      BY <2>1, <3>3 DEF Safe, Typed, Genuine
    <3> QED
      BY <3>1, <3>2, <3>3 DEF Placing, Keep, Thwarted
  <2>3. pc' \notin {"unpack", "clean", "move"}
    BY DEF Placing, Goto, End
  <2> QED
    BY <2>2, <2>3 DEF Genuine
<1>4. Whole'
  <2>1. CASE PutFinal /\ Goto("switch")
    <3>1. /\ target' = target /\ target \in Versions
          /\ Final(target) \in Dirs /\ Pending(target) \in Dirs /\ Final(target) # Pending(target)
      BY <2>1, Directories DEF Goto, call, Placing, Safe, Typed
    <3>2. /\ disk'[Final(target)] = disk[Pending(target)]
          /\ disk[Pending(target)] # target => marred' = marred
      BY <2>1, <3>1 DEF PutFinal, Safe, Typed
    <3>3. Full(Pending(target), target)
      BY DEF Placing, Safe, Whole
    <3> QED
      BY <2>1, <3>1, <3>2, <3>3 DEF Goto, Whole, Full, IsDir
  <2>2. CASE pc' \in {"idle", "after"}
    BY <2>2 DEF Whole
  <2> QED
    BY <2>1, <2>2 DEF Placing, Goto, End
<1>5. Current'
  <2>1. pointer' = pointer /\ (pointer \in marred => pointer \in marred')
    BY DEF Safe, Apart, Placing, PutFinal, Keep, Thwarted, Delete, Erase, Stuck, Fault, Goto, End, call
  <2> QED
    BY <2>1, CurrentStays, SparesTheCurrent
<1>6. Apart'
  BY DEF Safe, Typed, Control, Apart, Placing, PutFinal, Keep, Thwarted, Delete, Erase, Stuck, Fault, Goto, End, call
<1>7. Unswitched'
  BY DEF Safe, Typed, Control, Unswitched, Placing, PutFinal, Keep, Thwarted, Delete, Erase, Stuck, Fault, Goto, End, call
<1> QED
  BY <1>1, <1>2, <1>3, <1>4, <1>5, <1>6, <1>7 DEF Safe

LEMMA SwitchingIsSafe ==
  ASSUME Safe, Switching
  PROVE  Safe'
<1>1. Typed'
  BY Directories, OneOrTheOther, NothingIsNone
     DEF Safe, Typed, Switching, Switched, Repoint, Keep, Thwarted, Fault, Goto, End, call
<1>2. Control'
  BY DEF Safe, Typed, Control, Switching, Switched, Repoint, Keep, Thwarted, Fault, Goto, End, call
<1>3. Genuine'
  BY Directories, OneOrTheOther, NothingIsNone
     DEF Safe, Typed, Genuine, Switching, Switched, Repoint, Keep, Thwarted, Fault, Goto, End, call
<1>4. Whole'
  BY Directories, OneOrTheOther, NothingIsNone
     DEF Safe, Typed, Control, Genuine, Whole, Full, IsDir, Switching, Switched, Repoint, Keep, Thwarted, Fault, Goto, End, call
<1>5. Current'
  BY Directories, OneOrTheOther, NothingIsNone
     DEF Safe, Typed, Whole, Current, Full, IsDir, Switching, Switched, Repoint, Keep, Thwarted, Fault, Goto, End, call
<1>6. Apart'
  BY DEF Safe, Typed, Control, Apart, Switching, Switched, Repoint, Keep, Thwarted, Fault, Goto, End, call
<1>7. Unswitched'
  BY DEF Safe, Typed, Control, Unswitched, Switching, Switched, Repoint, Keep, Thwarted, Fault, Goto, End, call
<1> QED
  BY <1>1, <1>2, <1>3, <1>4, <1>5, <1>6, <1>7 DEF Safe

LEMMA RepointingIsSafe ==
  ASSUME Safe, Repointing
  PROVE  Safe'
<1>1. Typed'
  BY Directories, OneOrTheOther, NothingIsNone
     DEF Safe, Typed, Repointing, Switched, Repoint, Thwarted, Fault, Goto, End, call
<1>2. Control'
  BY DEF Safe, Typed, Control, Repointing, Switched, Repoint, Thwarted, Fault, Goto, End, call
<1>3. Genuine'
  BY Directories, OneOrTheOther, NothingIsNone
     DEF Safe, Typed, Genuine, Repointing, Switched, Repoint, Thwarted, Fault, Goto, End, call
<1>4. Whole'
  BY Directories, OneOrTheOther, NothingIsNone
     DEF Safe, Typed, Control, Genuine, Whole, Full, IsDir, Repointing, Switched, Repoint, Thwarted, Fault, Goto, End, call
<1>5. Current'
  BY Directories, OneOrTheOther, NothingIsNone
     DEF Safe, Typed, Whole, Current, Full, IsDir, Repointing, Switched, Repoint, Thwarted, Fault, Goto, End, call
<1>6. Apart'
  BY DEF Safe, Typed, Control, Apart, Repointing, Switched, Repoint, Thwarted, Fault, Goto, End, call
<1>7. Unswitched'
  BY DEF Safe, Typed, Control, Unswitched, Repointing, Switched, Repoint, Thwarted, Fault, Goto, End, call
<1> QED
  BY <1>1, <1>2, <1>3, <1>4, <1>5, <1>6, <1>7 DEF Safe

LEMMA PruningIsSafe ==
  ASSUME Safe, Pruning
  PROVE  Safe'
<1>1. Typed'
  <2>1. CASE Keep
    BY <2>1 DEF Keep, Safe, Typed, Pruning, Deciding, NothingToPrune, ListVictims, Superfluous, Drop, Goto, End, call
  <2>2. CASE victims # {} /\ Delete(NextVictim) /\ (Drop(NextVictim) \/ End("late"))
    <3>1. NextVictim \in Dirs
      BY <2>2, NextVictimIsOne DEF Safe, Typed
    <3>2. /\ pointer' = pointer /\ before' = before /\ target' = target /\ victims' \subseteq victims
          /\ pc # "idle"
      BY <2>2 DEF Delete, Erase, Stuck, Drop, End, call, Pruning, Deciding, NothingToPrune, ListVictims
    <3>3. disk' \in [Dirs -> Versions \cup {Absent, Broken}] /\ faults' \in Nat
      BY <2>2, <3>1 DEF Delete, Erase, Stuck, Fault, Safe, Typed
    <3> QED
      BY <3>2, <3>3 DEF Safe, Typed
  <2> QED
    BY <2>1, <2>2 DEF Pruning, Deciding, NothingToPrune, ListVictims, Delete
<1>2. Control'
  BY DEF Safe, Typed, Control, Pruning, Deciding, NothingToPrune, ListVictims, Delete, Erase, Stuck, Fault, Drop, Keep, Goto, End, call
<1>3. Genuine'
  BY Directories, OneOrTheOther, NothingIsNone
     DEF Safe, Typed, Genuine, Pruning, Deciding, NothingToPrune, ListVictims, Delete, Erase, Stuck, Fault, Drop, Keep, Goto, End, call
<1>4. Whole'
  BY Directories, OneOrTheOther, NothingIsNone
     DEF Safe, Typed, Control, Genuine, Whole, Full, IsDir, Pruning, Deciding, NothingToPrune, ListVictims, Delete, Erase, Stuck, Fault, Drop, Keep, Goto, End, call
<1>5. Current'
  <2>1. pointer' = pointer /\ (pointer \in marred => pointer \in marred')
    BY DEF Pruning, Deciding, NothingToPrune, ListVictims, Delete, Erase, Stuck, Fault, Drop, Keep, Goto, End, call
  <2> QED
    BY <2>1, CurrentStays, SparesTheCurrent
<1>6. Apart'
  <2>1. pointer' = pointer /\ pc' \notin {"fetch", "unpack", "clean", "move", "clear", "place"}
    BY DEF Pruning, Deciding, NothingToPrune, ListVictims, Delete, Erase, Stuck, Drop, Keep, Goto, End
  <2>2. Final(pointer) \notin victims \/ pointer \notin Versions
    BY DEF Safe, Apart
  <2>3. pointer \in Versions => Final(pointer) \notin victims'
    BY <2>2 DEF Pruning, Deciding, NothingToPrune, ListVictims, Superfluous, Drop, Goto, End
  <2> QED
    BY <2>1, <2>3 DEF Apart
<1>7. Unswitched'
  BY DEF Safe, Typed, Control, Unswitched, Pruning, Deciding, NothingToPrune, ListVictims, Delete, Erase, Stuck, Fault, Drop, Keep, Goto, End, call
<1> QED
  BY <1>1, <1>2, <1>3, <1>4, <1>5, <1>6, <1>7 DEF Safe

LEMMA FinishingIsSafe ==
  ASSUME Safe, Finishing
  PROVE  Safe'
<1>1. Typed'
  BY Directories, OneOrTheOther, NothingIsNone
     DEF Safe, Typed, Finishing, Keep, End, call
<1>2. Control'
  BY DEF Safe, Typed, Control, Finishing, Keep, End, call
<1>3. Genuine'
  BY Directories, OneOrTheOther, NothingIsNone
     DEF Safe, Typed, Genuine, Finishing, Keep, End, call
<1>4. Whole'
  BY Directories, OneOrTheOther, NothingIsNone
     DEF Safe, Typed, Control, Genuine, Whole, Full, IsDir, Finishing, Keep, End, call
<1>5. Current'
  <2>1. pointer' = pointer /\ (pointer \in marred => pointer \in marred')
    BY DEF Finishing, Keep, End, call
  <2> QED
    BY <2>1, CurrentStays, SparesTheCurrent
<1>6. Apart'
  BY DEF Safe, Typed, Control, Apart, Finishing, Keep, End, call
<1>7. Unswitched'
  BY DEF Safe, Typed, Control, Unswitched, Finishing, Keep, End, call
<1> QED
  BY <1>1, <1>2, <1>3, <1>4, <1>5, <1>6, <1>7 DEF Safe

LEMMA CrashIsSafe ==
  ASSUME Safe, Crash
  PROVE  Safe'
<1>1. Typed'
  BY Directories, OneOrTheOther, NothingIsNone
     DEF Safe, Typed, Crash, Deleting, Fault, End, call
<1>2. Control'
  BY DEF Safe, Typed, Control, Crash, Deleting, Fault, End, call
<1>3. Genuine'
  BY Directories, OneOrTheOther, NothingIsNone
     DEF Safe, Typed, Genuine, Crash, Deleting, Fault, End, call
<1>4. Whole'
  BY Directories, OneOrTheOther, NothingIsNone
     DEF Safe, Typed, Control, Genuine, Whole, Full, IsDir, Crash, Deleting, Fault, End, call
<1>5. Current'
  <2>1. pointer' = pointer /\ (pointer \in marred => pointer \in marred')
    BY DEF Crash, Deleting, Fault, End, call
  <2> QED
    BY <2>1, CurrentStays, SparesTheCurrent
<1>6. Apart'
  BY DEF Safe, Typed, Control, Apart, Crash, Deleting, Fault, End, call
<1>7. Unswitched'
  BY DEF Safe, Typed, Control, Unswitched, Crash, Deleting, Fault, End, call
<1> QED
  BY <1>1, <1>2, <1>3, <1>4, <1>5, <1>6, <1>7 DEF Safe

LEMMA InitIsSafe ==
  ASSUME Init
  PROVE  Safe
<1>1. Typed
  <2>1. ASSUME NEW d \in Dirs, d = Final(pointer)
        PROVE  pointer \in Versions
    BY <2>1 DEF Dirs, Final
  <2>2. disk \in [Dirs -> Versions \cup {Absent, Broken}]
    BY <2>1 DEF Init
  <2> QED
    BY <2>2 DEF Init, Typed
<1>2. Control /\ Whole /\ Apart /\ Unswitched
  BY DEF Init, Control, Whole, Apart, Unswitched
<1>3. Genuine
  BY <1>1, Directories DEF Init, Typed, Genuine
<1>4. Current
  BY <1>1, Directories, NothingIsNone DEF Init, Typed, Current, Full, IsDir
<1> QED
  BY <1>1, <1>2, <1>3, <1>4 DEF Safe

LEMMA StepIsSafe ==
  ASSUME Safe, [Next]_vars
  PROVE  Safe'
<1>1. pc # "idle" => target \in Versions
  BY DEF Safe, Typed
<1>2. CASE UNCHANGED vars
  BY <1>2 DEF vars, Safe, Typed, Control, Genuine, Whole, Current, Apart, Unswitched, Full, IsDir
<1> QED
  BY <1>1, <1>2, Steps, StartingIsSafe, FetchingIsSafe, UnpackingIsSafe, CleaningIsSafe, MovingIsSafe, ClearingIsSafe,
     PlacingIsSafe, SwitchingIsSafe, RepointingIsSafe, PruningIsSafe, FinishingIsSafe, CrashIsSafe

(* The inductive invariant of the updaters (updater.ts, updater.py, Updater.cs,
   Updater.php): a directory holds its own version's files, whole where its
   step needs them so, the pointer names a whole one, no step is under way in
   the one it names, and it has not moved before the switch.                 *)
THEOREM Safety == Spec => []Safe
<1>1. Init => Safe
  BY InitIsSafe
<1>2. Safe /\ [Next]_vars => Safe'
  BY StepIsSafe
<1> QED
  BY <1>1, <1>2, PTL DEF Spec

(* updater.ts:4-6: whatever is cut short, current.txt names a version that is
   there in full, and the launcher starts it, unless a failure its SDK did not
   look at went into that very version or a rollback took a broken one.      *)
THEOREM CurrentVersionStarts == Spec => []StartsTheCurrentVersion
<1>1. ASSUME Safe
      PROVE  StartsTheCurrentVersion
  <2> SUFFICES ASSUME pointer # Null, pointer \notin marred
               PROVE  disk[Final(pointer)] = pointer /\ MayStart = {Final(pointer)}
    BY DEF StartsTheCurrentVersion
  <2>1. pointer \in Versions /\ IsDir(Final(pointer)) /\ disk[Final(pointer)] = pointer /\ Final(pointer) \in Dirs
    BY <1>1, Directories DEF Safe, Typed, Current, Full
  <2>2. disk[Final(pointer)] # Broken
    BY <2>1, NothingIsNone
  <2>3. ASSUME NEW d \in Dirs, d # Final(pointer)
        PROVE  d \notin MayStart
    BY <2>1, <2>2, <2>3 DEF MayStart, Ahead
  <2>4. Final(pointer) \in MayStart
    BY <2>1 DEF MayStart, Ahead
  <2>5. MayStart \subseteq Dirs
    BY DEF MayStart
  <2> QED
    BY <2>1, <2>3, <2>4, <2>5
<1> QED
  BY <1>1, Safety, PTL

(* updater.py, Updater.cs: a directory that is in full is its own version's:
   neither a swapped package nor an old one under a new name is installed.   *)
THEOREM NothingForeignInstalled == Spec => []InstalledIsGenuine
<1>1. ASSUME Safe
      PROVE  InstalledIsGenuine
  BY <1>1, Directories DEF Safe, Genuine, InstalledIsGenuine
<1> QED
  BY <1>1, Safety, PTL

(* updater.ts:147: a call that fails before the switch leaves the current
   version current; C#'s delete-then-move is the exception.                  *)
THEOREM FailureChangesNothing == Spec => []FailedKeepsCurrent
<1>1. Safe => FailedKeepsCurrent
  BY DEF Safe, Unswitched, FailedKeepsCurrent
<1> QED
  BY <1>1, Safety, PTL

(* updater.ts:4: no step of any updater touches the directory of the version
   that is current.                                                          *)
THEOREM CurrentVersionUntouched == Spec => CurrentIsNeverTouched
<1>1. ASSUME Safe, [Next]_vars
      PROVE  [pointer # Null /\ IsDir(Final(pointer)) => disk'[Final(pointer)] = disk[Final(pointer)]]_disk
  <2>1. pc # "idle" => target \in Versions
    BY <1>1 DEF Safe, Typed
  <2>2. pointer # Null => pointer \in Versions
    BY <1>1 DEF Safe, Typed
  <2> QED
    BY <1>1, <2>1, <2>2, Steps, SparesTheCurrent
<1> QED
  BY <1>1, Safety, PTL DEF Spec, CurrentIsNeverTouched

-----------------------------------------------------------------------------
(* What prune's rule keeps. *)

Above(d, S) == {e \in S : Rank(e) > Rank(d)}

LEMMA FiniteParts ==
  ASSUME NEW S \in SUBSET Dirs
  PROVE  IsFiniteSet(S) /\ Cardinality(S) \in Nat
BY FinitelyMany, FS_Subset, FS_CardinalityType

(* The one with the fewest above it has none above it. *)
LEMMA Highest ==
  ASSUME NEW S \in SUBSET Dirs, S # {}
  PROVE  \E d \in S : Above(d, S) = {}
<1> DEFINE Sizes == {Cardinality(Above(d, S)) : d \in S}
<1>1. \A d \in S : IsFiniteSet(Above(d, S)) /\ Cardinality(Above(d, S)) \in Nat
  BY FiniteParts DEF Above
<1>2. Sizes \subseteq Nat /\ Sizes # {}
  BY <1>1
<1>3. PICK n \in Sizes : \A m \in Sizes : n <= m
  BY <1>2, Least
<1>4. PICK d \in S : n = Cardinality(Above(d, S))
  BY <1>3
<1>5. ASSUME NEW e \in Above(d, S)
      PROVE  FALSE
  <2>1. e \in S /\ Rank(e) \in Nat /\ Rank(d) \in Nat /\ Rank(e) > Rank(d)
    BY <1>5, Ranks DEF Above
  <2>2. Above(e, S) \subseteq Above(d, S)
    BY <2>1, Ranks DEF Above
  <2>3. e \notin Above(e, S)
    BY <2>1 DEF Above
  <2>4. Cardinality(Above(e, S)) <= Cardinality(Above(d, S)) /\ Cardinality(Above(e, S)) # Cardinality(Above(d, S))
    BY <1>1, <1>5, <2>2, <2>3, FS_Subset
  <2>5. Cardinality(Above(d, S)) <= Cardinality(Above(e, S))
    BY <1>3, <1>4, <2>1
  <2> QED
    BY <1>1, <2>1, <2>4, <2>5
<1> QED
  BY <1>5


(* No more than k have fewer than k above them. *)
LEMMA TopFew ==
  ASSUME NEW S \in SUBSET Dirs, NEW k \in Nat
  PROVE  Cardinality({d \in S : ~(Cardinality(Above(d, S)) >= k)}) <= k
<1> DEFINE T == {d \in S : ~(Cardinality(Above(d, S)) >= k)}
<1>1. T \subseteq Dirs /\ IsFiniteSet(T) /\ Cardinality(T) \in Nat
  BY FiniteParts
<1>2. CASE T = {}
  BY <1>2, FS_EmptySet
<1>3. CASE T # {}
  <2>1. PICK d \in T : \A e \in T : Rank(d) <= Rank(e)
    BY <1>1, <1>3, Lowest
  <2>2. T \ {d} \subseteq Above(d, S)
    <3> SUFFICES ASSUME NEW e \in T, e # d
                 PROVE  Rank(e) > Rank(d) /\ e \in S
      BY DEF Above
    <3>1. Rank(e) \in Nat /\ Rank(d) \in Nat /\ Rank(d) # Rank(e) /\ Rank(d) <= Rank(e)
      BY <1>1, <2>1, Ranks
    <3> QED
      BY <3>1
  <2>3. IsFiniteSet(Above(d, S)) /\ Cardinality(Above(d, S)) \in Nat
    BY FiniteParts DEF Above
  <2>4. Cardinality(T \ {d}) <= Cardinality(Above(d, S)) /\ Cardinality(T \ {d}) = Cardinality(T) - 1
    BY <1>1, <2>1, <2>2, <2>3, FS_Subset, FS_RemoveElement
  <2>5. ~(Cardinality(Above(d, S)) >= k)
    BY <2>1
  <2>6. Cardinality(T) # 0
    BY <1>1, <1>3, FS_EmptySet
  <2>7. Cardinality(T) <= k
    <3> HIDE DEF T
    <3> QED
      BY <1>1, <2>3, <2>4, <2>5, <2>6
  <2> QED
    BY <2>7
<1> QED
  BY <1>2, <1>3

(* A list to delete leaves at most keepVersions of the installed ones. *)
LEMMA PruneKeepsFew ==
  ASSUME NEW installed \in SUBSET Dirs
  PROVE  Cardinality(installed \ Superfluous(installed)) <= KeepVersions
<1> DEFINE others == installed \ {Final(pointer)}
           top == {d \in others : ~(Cardinality(Above(d, others)) >= KeepVersions - 1)}
<1>1. KeepVersions - 1 \in Nat /\ KeepVersions \in Nat
  BY NothingIsNone
<1>2. Cardinality(top) <= KeepVersions - 1
  BY <1>1, TopFew
<1>3. IsFiniteSet(top) /\ Cardinality(top) \in Nat
  BY FiniteParts
<1>4. installed \ Superfluous(installed) \subseteq top \cup {Final(pointer)}
  BY DEF Superfluous, Above
<1>5. /\ IsFiniteSet(top \cup {Final(pointer)})
      /\ Cardinality(top \cup {Final(pointer)}) = IF Final(pointer) \in top THEN Cardinality(top) ELSE Cardinality(top) + 1
  BY <1>3, FS_AddElement
<1>6. Cardinality(installed \ Superfluous(installed)) <= Cardinality(top \cup {Final(pointer)})
  BY <1>4, <1>5, FS_Subset
<1>7. Cardinality(installed \ Superfluous(installed)) \in Nat
  BY FiniteParts
<1> HIDE DEF top
<1> QED
  BY <1>1, <1>2, <1>3, <1>5, <1>6, <1>7

(* And for each one on it, when more than the current one is kept, one that
   comes after it by name.                                                   *)
LEMMA PruneKeepsLater ==
  ASSUME NEW installed \in SUBSET Dirs, NEW d \in Superfluous(installed), KeepVersions > 1
  PROVE  \E e \in installed \ Superfluous(installed) : e # Final(pointer) /\ Rank(e) > Rank(d)
<1> DEFINE others == installed \ {Final(pointer)}
<1>1. d \in others /\ Cardinality(Above(d, others)) >= KeepVersions - 1
  BY DEF Superfluous, Above
<1>2. Above(d, others) \in SUBSET Dirs /\ Above(d, others) # {}
  <2>1. Above(d, others) \in SUBSET Dirs
    BY DEF Above
  <2>2. ~(0 >= KeepVersions - 1)
    BY NothingIsNone
  <2> QED
    BY <1>1, <2>1, <2>2, FS_EmptySet
<1>3. PICK e \in Above(d, others) : Above(e, Above(d, others)) = {}
  BY <1>2, Highest
<1>4. e \in others /\ e \in Dirs /\ d \in Dirs /\ Rank(e) \in Nat /\ Rank(d) \in Nat /\ Rank(e) > Rank(d)
  BY <1>1, <1>3, Ranks DEF Above
<1>5. Above(e, others) = {}
  <2> SUFFICES ASSUME NEW f \in others, Rank(f) > Rank(e)
               PROVE  FALSE
    BY DEF Above
  <2>1. Rank(f) \in Nat
    BY Ranks
  <2>2. f \in Above(d, others) /\ f \in Above(e, Above(d, others))
    BY <1>4, <2>1 DEF Above
  <2> QED
    BY <1>3, <2>2
<1>6. e \notin Superfluous(installed)
  <2>1. Cardinality(Above(e, others)) = 0
    BY <1>5, FS_EmptySet
  <2>2. ~(0 >= KeepVersions - 1)
    BY NothingIsNone
  <2> QED
    BY <2>1, <2>2 DEF Superfluous, Above
<1> QED
  BY <1>4, <1>6

-----------------------------------------------------------------------------
(* What holds besides as long as nothing has failed. *)

(* What has been received and what is there is whole. *)
Intact == got # Broken /\ \A d \in Dirs : disk[d] # Broken

(* Nothing is under construction but what the call is about, and no directory
   of its name is in the way.                                                *)
Tidy ==
  /\ \A v \in Versions : IsDir(Pending(v)) => v = target /\ pc \in {"clear", "place"}
  /\ pc = "place" => ~IsDir(Final(target))

(* Directories that are there and not on the list; the list has been drawn up. *)
Staying == {d \in Dirs : IsDir(d) /\ d \notin victims}
Pruned  == (pc = "prune" /\ victims # {}) \/ (pc = "after" /\ op = "apply") \/ outcome = "applied"

Few == Pruned => Cardinality(Staying) <= KeepVersions

(* The pointer is the old one until it is the new one. *)
Landed ==
  /\ pc = "repoint" => pointer = before
  /\ pc = "prune" \/ Pruned => pointer = target

(* The version that was replaced is there, or a later one. *)
Replaced ==
  before \notin {Null, target} =>
    /\ pc = "prune" /\ victims = {} => IsDir(Final(before))
    /\ Pruned /\ KeepVersions > 1 => \E v \in Versions : v # target /\ v >= before /\ Final(v) \in Staying

Unfailed == faults = 0 => Intact /\ Tidy /\ Few /\ Landed /\ Replaced

(* Before prune has its list, and when a call has ended otherwise, the last
   three have little to say.                                                 *)
LEMMA NotPruned ==
  ASSUME Safe, ~Pruned', pc' \notin {"repoint", "prune"}
  PROVE  (Few /\ Landed /\ Replaced)'
BY DEF Few, Landed, Replaced

LEMMA IntactStays ==
  ASSUME Safe, Intact, Tidy, faults = 0, faults' = 0,
         Starting \/ Fetching \/ Unpacking \/ Cleaning \/ Moving \/ Clearing \/ Placing \/ Switching \/ Repointing
         \/ Pruning \/ Finishing
  PROVE  Intact'
<1>0. ~Fault /\ Absent # Broken /\ Null # Broken /\ (pc # "idle" => target \in Versions /\ target # Broken)
  BY UpdaterAssumption, NothingIsNone DEF Fault, Safe, Typed
<1>1. CASE UNCHANGED disk /\ got' \in {got, target, Null} /\ (got' = target => pc # "idle")
  BY <1>0, <1>1 DEF Intact
<1>2. ASSUME NEW d \in Dirs, Erase(d), got' \in {got, Null}
      PROVE  Intact'
  BY <1>0, <1>2, OneDirectory DEF Intact, Safe
<1>3. CASE Moving
  <2>1. Pending(target) \in Dirs /\ ~IsDir(Pending(target)) /\ target \in Versions
    BY <1>0, <1>3, Directories DEF Tidy, Moving
  <2>2. CASE PutPending
    BY <1>0, <1>3, <2>1, <2>2 DEF PutPending, Intact, Moving, Goto, End, Safe, Typed
  <2>3. CASE Keep
    BY <1>0, <1>3, <2>3 DEF Keep, Intact, Moving, Goto, End
  <2> QED
    BY <1>0, <1>3, <2>1, <2>2, <2>3 DEF Moving, Thwarted
<1>4. CASE Placing
  <2>1. Pending(target) \in Dirs /\ Final(target) \in Dirs
    BY <1>0, <1>4, Directories DEF Placing
  <2>2. got' \in {got, Null}
    BY <1>4 DEF Placing, Goto, End
  <2>3. CASE PutFinal
    BY <1>0, <2>1, <2>2, <2>3 DEF PutFinal, Intact, Safe, Typed
  <2>4. CASE Keep
    BY <1>0, <2>2, <2>4 DEF Keep, Intact
  <2> QED
    BY <1>0, <1>2, <1>4, <2>1, <2>2, <2>3, <2>4 DEF Placing, Thwarted, Delete, Stuck
<1>5. CASE Cleaning \/ Clearing
  <2>1. Pending(target) \in Dirs /\ Final(target) \in Dirs
    BY <1>0, <1>5, Directories DEF Cleaning, Clearing
  <2>2. got' \in {got, Null} /\ (Erase(Pending(target)) \/ Erase(Final(target)))
    BY <1>0, <1>5 DEF Cleaning, Clearing, Delete, Stuck, Goto, End
  <2> QED
    BY <1>2, <2>1, <2>2
<1>6. CASE Pruning
  <2>1. got' \in {got, Null}
    BY <1>6 DEF Pruning, Deciding, NothingToPrune, ListVictims, Drop, Goto, End
  <2>2. disk' = disk \/ (victims # {} /\ Erase(NextVictim))
    BY <1>0, <1>6 DEF Pruning, Deciding, NothingToPrune, ListVictims, Keep, Delete, Stuck
  <2>3. victims # {} => NextVictim \in Dirs
    BY NextVictimIsOne DEF Safe, Typed
  <2> QED
    BY <1>0, <1>2, <2>1, <2>2, <2>3 DEF Intact
<1>7. CASE Fetching \/ Unpacking \/ Finishing
  BY <1>0, <1>1, <1>7 DEF Fetching, Unpacking, CutShort, Finishing, Keep, End
<1>8. CASE Switching \/ Repointing
  BY <1>0, <1>1, <1>8 DEF Switching, Repointing, Switched, Repoint, Keep, Thwarted, Goto, End
<1>9. CASE Starting
  BY <1>0, <1>9 DEF Starting, Begin, Intact
<1> QED
  BY <1>3, <1>4, <1>5, <1>6, <1>7, <1>8, <1>9

LEMMA UnfailedStart ==
  ASSUME Safe, Tidy, Starting
  PROVE  (Tidy /\ Few /\ Landed /\ Replaced)'
<1>1. pc = "idle" /\ disk' = disk /\ pc' \in {"fetch", "switch"} /\ outcome' = "none"
  BY DEF Starting, Begin
<1>2. Tidy'
  BY <1>1 DEF Tidy, IsDir, Pending
<1>3. ~Pruned'
  BY <1>1 DEF Pruned
<1> QED
  BY <1>1, <1>2, <1>3, NotPruned

LEMMA UnfailedBuild ==
  ASSUME Safe, Tidy, faults = 0, faults' = 0,
         Fetching \/ Unpacking \/ Cleaning \/ Moving \/ Clearing \/ Placing
  PROVE  (Tidy /\ Few /\ Landed /\ Replaced)'
<1>0. target \in Versions /\ target' = target
  BY DEF Safe, Typed, Fetching, Unpacking, CutShort, Cleaning, Moving, Clearing, Placing, Goto, End, call
<1>1. ~Fault
  BY DEF Fault
<1>2. /\ Final(target) \in Dirs /\ Pending(target) \in Dirs
      /\ \A v \in Versions : Pending(v) \in Dirs /\ Pending(v) # Final(target) /\ (Pending(v) = Pending(target) => v = target)
  BY <1>0, Directories
<1>3. Tidy'
  <2>1. CASE Fetching \/ Unpacking
    BY <1>1, <2>1 DEF Fetching, Unpacking, CutShort, Keep, End, Tidy, IsDir, Pending
  <2>2. CASE Cleaning
    <3>1. Erase(Pending(target)) /\ pc = "clean" /\ pc' \in {"move", "idle"}
      BY <1>1, <2>2 DEF Cleaning, Delete, Stuck, Goto, End
    <3>2. \A v \in Versions : disk'[Pending(v)] = Absent
      BY <1>2, <3>1, OneDirectory DEF Safe, Tidy, IsDir
    <3> QED
      BY <3>1, <3>2 DEF Tidy, IsDir, Pending
  <2>3. CASE Moving
    <3>1. pc = "move" /\ \A v \in Versions : disk[Pending(v)] = Absent
      BY <2>3 DEF Moving, Tidy, IsDir
    <3>2. (PutPending /\ pc' = "clear") \/ (Keep /\ pc' = "idle")
      BY <1>0, <1>1, <2>3, <3>1 DEF Moving, Thwarted, IsDir, Goto, End
    <3>3. \A v \in Versions : disk'[Pending(v)] # Absent => v = target /\ pc' = "clear"
      BY <1>2, <3>1, <3>2 DEF PutPending, Keep, Safe, Typed
    <3> QED
      BY <1>0, <3>2, <3>3 DEF Tidy, IsDir, Pending
  <2>4. CASE Clearing
    <3>1. Erase(Final(target)) /\ pc = "clear" /\ pc' = "place"
      BY <1>1, <2>4 DEF Clearing, Stuck, Goto
    <3>2. disk'[Final(target)] = Absent /\ \A v \in Versions : disk'[Pending(v)] = disk[Pending(v)]
      BY <1>2, <3>1, OneDirectory DEF Safe
    <3> QED
      BY <1>0, <3>1, <3>2 DEF Tidy, IsDir, Pending, Final
  <2>5. CASE Placing
    <3>1. /\ pc = "place" /\ pc' \in {"switch", "after", "idle"}
          /\ \A v \in Versions : disk[Pending(v)] # Absent => v = target
          /\ ~IsDir(Final(target))
      BY <2>5 DEF Placing, Goto, End, Tidy, IsDir
    <3>2. PutFinal \/ Erase(Pending(target))
      BY <1>1, <2>5, <3>1 DEF Placing, Thwarted, Delete, Stuck
    <3>3. \A v \in Versions : disk'[Pending(v)] = Absent
      BY <1>2, <3>1, <3>2 DEF PutFinal, Erase, Safe, Typed
    <3> QED
      BY <3>1, <3>3 DEF Tidy, IsDir, Pending
  <2> QED
    BY <2>1, <2>2, <2>3, <2>4, <2>5
<1>4. ~Pruned' /\ pc' \notin {"repoint", "prune"}
  BY DEF Safe, Control, Pruned, Fetching, Unpacking, Cleaning, Moving, Clearing, Placing, CutShort, Goto, End, call
<1> QED
  BY <1>3, <1>4, NotPruned

LEMMA UnfailedSwitch ==
  ASSUME Safe, Tidy, Landed, faults = 0, faults' = 0, Switching \/ Repointing
  PROVE  (Tidy /\ Few /\ Landed /\ Replaced)'
<1>1. /\ target \in Versions /\ target' = target /\ before' = before /\ disk' = disk
      /\ pc \in {"switch", "repoint"} /\ pc' \in {"prune", "idle", "repoint"} /\ victims' = {}
      /\ outcome = "none" /\ outcome' # "applied" /\ pointer = before
  BY DEF Safe, Typed, Control, Unswitched, Landed, Switching, Repointing, Switched, Repoint, Keep, Thwarted, Goto, End, call
<1>2. ~Fault
  BY DEF Fault
<1>3. /\ pc' = "prune" => pointer' = target
      /\ pc' = "repoint" => pointer' = before
  BY <1>1, <1>2 DEF Switching, Repointing, Switched, Repoint, Keep, Thwarted, Goto, End
<1>4. Tidy'
  BY <1>1 DEF Tidy, IsDir, Pending
<1>5. ~Pruned'
  BY <1>1 DEF Pruned
<1>6. before # Null => IsDir(Final(before))'
  BY <1>1 DEF Safe, Current, Full, IsDir, Final
<1> QED
  BY <1>1, <1>3, <1>4, <1>5, <1>6 DEF Few, Landed, Replaced

LEMMA UnfailedPrune ==
  ASSUME Safe, Tidy, Few, Landed, Replaced, faults = 0, faults' = 0, Pruning
  PROVE  (Tidy /\ Few /\ Landed /\ Replaced)'
<1>1. /\ pc = "prune" /\ target \in Versions /\ target' = target /\ before' = before /\ op' = op /\ op = "apply"
      /\ pointer' = pointer /\ pointer = target /\ outcome = "none" /\ victims \subseteq Dirs
      /\ before \in Versions \cup {Null} /\ disk \in [Dirs -> Versions \cup {Absent, Broken}]
  BY DEF Safe, Typed, Control, Landed, Pruning, Deciding, NothingToPrune, ListVictims, Delete, Erase, Stuck, Drop, Keep,
         Goto, End, call
<1>2. ~Fault
  BY DEF Fault
<1>3. \A v \in Versions : ~IsDir(Pending(v))
  BY <1>1 DEF Tidy
<1> DEFINE there == {d \in Dirs : IsDir(d)}
<1>4. CASE Deciding(there)
  <2>1. /\ victims = {} /\ victims' = Superfluous(there) /\ disk' = disk
        /\ pc' = IF victims' = {} THEN "after" ELSE "prune"
        /\ outcome' = "none"
    BY <1>1, <1>4 DEF Deciding, NothingToPrune, ListVictims, Goto, Keep
  <2>2. Staying' = there \ Superfluous(there)
    BY <2>1 DEF Staying, IsDir
  <2>3. Tidy'
    BY <1>3, <2>1 DEF Tidy, IsDir, Pending
  <2>4. Few'
    BY <2>2, PruneKeepsFew DEF Few
  <2>5. Landed'
    BY <1>1, <2>1 DEF Landed
  <2>6. ASSUME before \notin {Null, target}, KeepVersions > 1
        PROVE  \E v \in Versions : v # target /\ v >= before /\ Final(v) \in there \ Superfluous(there)
    <3>1. before \in Versions /\ before \in Nat /\ Final(before) \in there
      BY <1>1, <2>1, <2>6, NothingIsNone, Directories DEF Replaced
    <3>2. CASE Final(before) \notin Superfluous(there)
      BY <2>6, <3>1, <3>2
    <3>3. CASE Final(before) \in Superfluous(there)
      <4>1. PICK e \in there \ Superfluous(there) : e # Final(pointer) /\ Rank(e) > Rank(Final(before))
        BY <2>6, <3>3, PruneKeepsLater
      <4>2. e[1] \in Versions /\ e[1] \in Nat /\ e = Final(e[1])
        BY <1>3, <4>1, OneOrTheOther, NothingIsNone
      <4>3. Rank(e) = 2 * e[1] /\ Rank(Final(before)) = 2 * before
        BY <3>1, <4>2, Directories DEF Rank
      <4>4. e[1] >= before /\ e[1] # target
        BY <1>1, <3>1, <4>1, <4>2, <4>3
      <4> QED
        BY <4>1, <4>2, <4>4
    <3> QED
      BY <3>2, <3>3
  <2>7. Replaced'
    <3>1. ~(pc' = "prune" /\ victims' = {})
      BY <2>1
    <3>2. ASSUME before' \notin {Null, target'}, KeepVersions > 1
          PROVE  \E v \in Versions : v # target' /\ v >= before' /\ Final(v) \in Staying'
      BY <1>1, <2>2, <2>6, <3>2
    <3> QED
      BY <3>1, <3>2 DEF Replaced, Final
  <2> QED
    BY <2>3, <2>4, <2>5, <2>7
<1>5. CASE victims # {} /\ Erase(NextVictim) /\ Drop(NextVictim)
  <2>1. NextVictim \in victims /\ NextVictim \in Dirs
    BY <1>1, <1>5, NextVictimIsOne
  <2>2. /\ \A d \in Dirs : disk'[d] = IF d = NextVictim THEN Absent ELSE disk[d]
        /\ victims' = victims \ {NextVictim} /\ outcome' = "none"
        /\ pc' = IF victims = {NextVictim} THEN "after" ELSE "prune"
    BY <1>1, <1>5, <2>1 DEF Erase, Drop
  <2>3. Staying' = Staying
    BY <2>1, <2>2 DEF Staying, IsDir
  <2>4. Tidy'
    <3>1. \A v \in Versions : disk'[Pending(v)] = Absent
      BY <1>3, <2>2, Directories DEF IsDir
    <3> QED
      BY <2>2, <3>1 DEF Tidy, IsDir, Pending
  <2>5. Pruned
    BY <1>1, <1>5 DEF Pruned
  <2>6. Few'
    BY <2>3, <2>5 DEF Few
  <2>7. Landed'
    BY <1>1, <2>2 DEF Landed
  <2>8. Replaced'
    <3>1. ~(pc' = "prune" /\ victims' = {})
      BY <1>5, <2>1, <2>2
    <3> QED
      BY <1>1, <2>3, <2>5, <3>1 DEF Replaced, Final
  <2> QED
    BY <2>4, <2>6, <2>7, <2>8
<1>6. {d \in Dirs : IsDir(d) /\ d[2] # "pending"} = there
  <2>1. ASSUME NEW d \in Dirs, IsDir(d)
        PROVE  d[2] # "pending"
    BY <1>3, <2>1, OneOrTheOther, Directories
  <2> QED
    BY <2>1
<1> QED
  BY <1>1, <1>2, <1>4, <1>5, <1>6 DEF Pruning, Delete, Stuck

LEMMA UnfailedFinish ==
  ASSUME Safe, Tidy, Few, Landed, Replaced, Finishing
  PROVE  (Tidy /\ Few /\ Landed /\ Replaced)'
<1>1. /\ pc = "after" /\ pc' = "idle" /\ disk' = disk /\ target' = target /\ before' = before /\ pointer' = pointer
      /\ victims = {} /\ victims' = {}
      /\ outcome' = "applied" => op = "apply"
  BY DEF Safe, Control, Finishing, Keep, End, call
<1>2. Tidy'
  BY <1>1 DEF Tidy, IsDir, Pending
<1>3. Staying' = Staying /\ (Pruned' => Pruned)
  BY <1>1 DEF Staying, IsDir, Pruned
<1> QED
  BY <1>1, <1>2, <1>3 DEF Few, Landed, Replaced, Final

LEMMA StepIsUnfailed ==
  ASSUME Safe, Unfailed, [Next]_vars
  PROVE  Unfailed'
<1> SUFFICES ASSUME faults' = 0
             PROVE  (Intact /\ Tidy /\ Few /\ Landed /\ Replaced)'
  BY DEF Unfailed
<1>1. pc # "idle" => target \in Versions
  BY DEF Safe, Typed
<1>2. faults = 0
  <2>1. faults' = faults \/ faults' = faults + 1
    BY <1>1, Steps DEF Starting, Begin, Fetching, Unpacking, CutShort, Cleaning, Moving, Clearing, Placing, Switching, Repointing,
       Pruning, Deciding, NothingToPrune, ListVictims, Finishing, Crash, PutPending, PutFinal, Keep, Thwarted, Delete,
       Erase, Stuck, Fault, Repoint, vars
  <2> QED
    BY <2>1 DEF Safe, Typed
<1>3. ~Crash
  BY <1>2 DEF Crash, Fault
<1>4. Intact /\ Tidy /\ Few /\ Landed /\ Replaced
  BY <1>2 DEF Unfailed
<1>5. CASE UNCHANGED vars
  BY <1>4, <1>5 DEF vars, Intact, Tidy, Few, Landed, Replaced, Pruned, Staying, IsDir, Final, Pending
<1> QED
  BY <1>1, <1>2, <1>3, <1>4, <1>5, Steps, IntactStays, UnfailedStart, UnfailedBuild, UnfailedSwitch, UnfailedPrune, UnfailedFinish

(* Until a step fails (updater.ts:4-6, prune): nothing is left over from an
   earlier call, the pointer is on the new version after the switch, and of the
   directories prune does not delete there are no more than are to be kept, the
   version before, or a later one, among them.                                *)
THEOREM OrderUntilAFault == Spec => []Unfailed
<1>1. Init => Unfailed
  BY UpdaterAssumption, NothingIsNone DEF UpdaterAssumption, Init, Unfailed, Intact, Tidy, Few, Landed, Replaced, Pruned, IsDir, Final, Pending, Dirs
<1>2. Safe /\ Unfailed /\ [Next]_vars => Unfailed'
  BY StepIsUnfailed
<1> QED
  BY <1>1, <1>2, Safety, PTL DEF Spec

(* prune: an update that ends well leaves at most keepVersions of them, unless
   a deletion failed on the way.                                             *)
FewAreThere ==
  outcome = "applied" /\ faults = 0 => Cardinality({v \in Versions : IsDir(Final(v))}) <= KeepVersions

THEOREM FewVersionsStay == Spec => []FewAreThere
<1>1. ASSUME Safe, Unfailed
      PROVE  FewAreThere
  <2> SUFFICES ASSUME outcome = "applied", faults = 0
               PROVE  Cardinality({v \in Versions : IsDir(Final(v))}) <= KeepVersions
    BY DEF FewAreThere
  <2> DEFINE there == {v \in Versions : IsDir(Final(v))}
             f == [v \in there |-> Final(v)]
  <2>1. victims = {} /\ Pruned /\ Cardinality(Staying) <= KeepVersions
    BY <1>1 DEF Safe, Control, Unfailed, Few, Pruned
  <2>2. IsFiniteSet(Staying) /\ Cardinality(Staying) \in Nat
    BY FiniteParts DEF Staying
  <2>3. f \in Injection(there, Staying)
    BY <2>1, Directories DEF Staying, Injection, IsInjective
  <2>4. IsFiniteSet(there) /\ Cardinality(there) <= Cardinality(Staying)
    BY <2>2, <2>3, FS_Injection
  <2>5. Cardinality(there) \in Nat /\ KeepVersions \in Nat
    BY <2>4, FS_CardinalityType, NothingIsNone
  <2>6. Cardinality(there) <= KeepVersions
    <3> HIDE DEF there
    <3> QED
      BY <2>1, <2>2, <2>4, <2>5
  <2> QED
    BY <2>6
<1> QED
  BY <1>1, Safety, OrderUntilAFault, PTL

(* updater.ts:361-368: after an update that met no failure there is a version in
   full to roll back to besides the new one, whichever versions were there and
   however prune's order of names takes them.                                *)
THEOREM RollbackStays == Spec => []RollbackRemains
<1>1. ASSUME Safe, Unfailed
      PROVE  RollbackRemains
  <2> SUFFICES ASSUME outcome = "applied", faults = 0, before \notin {Null, target}, KeepVersions > 1
               PROVE  \E v \in Versions \ {target} : disk[Final(v)] = v
    BY DEF RollbackRemains
  <2>1. PICK v \in Versions : v # target /\ v >= before /\ Final(v) \in Staying
    BY <1>1 DEF Unfailed, Replaced, Pruned
  <2>2. Final(v) \in Dirs /\ Final(v)[1] = v /\ disk[Final(v)] # Absent
    BY <2>1, Directories DEF Staying, IsDir
  <2>3. disk[Final(v)] = v
    BY <1>1, <2>2 DEF Safe, Genuine, Unfailed, Intact
  <2> QED
    BY <2>1, <2>3
<1> QED
  BY <1>1, Safety, OrderUntilAFault, PTL

-----------------------------------------------------------------------------
(* Where a package's files go. *)

LEMMA WrittenInside ==
  ASSUME NEW wanted, NEW entries, NEW strip, \A w \in wanted : Inside(Resolve(w.path))
  PROVE  \A file \in Write(wanted, entries, strip).files : Inside(file)
<1> DEFINE files == {Resolve(w.path) : w \in {x \in wanted : x.kind = "file"}}
<1>1. Write(wanted, entries, strip).files \in {{}, files}
  BY DEF Write, Refusal
<1> QED
  BY <1>1

LEMMA SingleInside ==
  ASSUME NEW name
  PROVE  \A file \in WriteSingle(name).files : Inside(file)
<1>1. WriteSingle(name).files = {Append(Dest, name)}
  BY DEF WriteSingle
<1>2. Inside(Append(Dest, name))
  BY DEF Inside, IsPrefix, Dest
<1> QED
  BY <1>1, <1>2

LEMMA NothingRefused ==
  \A file \in Refusal.files : Inside(file)
BY DEF Refusal

LEMMA NodeOutcomesInside ==
  ASSUME NEW out \in NodeOutcomes
  PROVE  \A file \in out.files : Inside(file)
<1>1. ASSUME NEW package \in Packages, NEW strip \in BOOLEAN
      PROVE  \A file \in NodeExtract(package, strip).files : Inside(file)
  <2>1. ASSUME NEW entries, NEW prefix
        PROVE  \A file \in NodeSafeExtract(entries, prefix, strip).files : Inside(file)
    BY WrittenInside, NothingRefused DEF NodeSafeExtract
  <2> QED
    BY <2>1, NothingRefused DEF NodeExtract
<1> QED
  BY <1>1, SingleInside, NothingRefused DEF NodeOutcomes

LEMMA PyOutcomesInside ==
  ASSUME NEW out \in PyOutcomes
  PROVE  \A file \in out.files : Inside(file)
<1>1. ASSUME NEW package \in Packages, NEW strip \in BOOLEAN
      PROVE  \A file \in PyExtract(package, strip).files : Inside(file)
  <2>1. ASSUME NEW members, NEW prefix
        PROVE  \A file \in PySafeExtract(members, prefix, strip).files : Inside(file)
    BY WrittenInside, NothingRefused DEF PySafeExtract
  <2> QED
    BY <2>1, NothingRefused DEF PyExtract
<1>2. ASSUME NEW name
      PROVE  \A file \in PySingle(name).files : Inside(file)
  BY SingleInside, NothingRefused DEF PySingle
<1> QED
  BY <1>1, <1>2 DEF PyOutcomes

LEMMA CsOutcomesInside ==
  ASSUME NEW out \in CsOutcomes
  PROVE  \A file \in out.files : Inside(file)
<1>1. ASSUME NEW package \in Packages, NEW strip \in BOOLEAN
      PROVE  \A file \in CsExtract(package, strip).files : Inside(file)
  BY WrittenInside, NothingRefused DEF CsExtract
<1> QED
  BY <1>1, SingleInside DEF CsOutcomes

LEMMA WhatIsUnpacked ==
  ASSUME [Next]_vars
  PROVE  /\ sdk' = sdk
         /\ unpacked' \in {Refusal, unpacked} \cup NodeOutcomes \cup PyOutcomes \cup CsOutcomes \/ sdk = "php"
<1>1. CASE Start
  BY <1>1 DEF Start, NodeApply, PyApply, CsApply, PhpApply, PhpStage, NodeRollback, PyRollback, CsRollback, PhpRollback, Begin
<1>2. CASE Receive
  BY <1>2 DEF Receive, NodeReceive, PyReceive, CsReceive, PhpReceive, NodeFetch, PyFetch, CsFetch, PhpFetch, Fetch,
     NodeUnpack, PyUnpack, CsUnpack, PhpUnpack, Unpack, CutShort, End, call
<1>3. CASE Install
  <2>1. CASE NodeInstall
    BY <2>1 DEF NodeInstall, NodeClean, NodeMove, NodeClear, NodePlace, NodeSwitch, NodePrune, NodeAfter, NothingToPrune,
       ListVictims, Drop, Goto, End, call
  <2>2. CASE PyInstall
    BY <2>2 DEF PyInstall, PyClean, PyMove, PyClear, PyPlace, PySwitch, PyPrune, PyAfter, NothingToPrune,
       ListVictims, Drop, Goto, End, call
  <2>3. CASE CsInstall
    BY <2>3 DEF CsInstall, CsClean, CsMove, CsClear, CsPlace, CsSwitch, CsRepoint, CsPrune, CsAfter, NothingToPrune,
       ListVictims, Drop, Goto, End, call
  <2>4. CASE PhpInstall
    BY <2>4 DEF PhpInstall, PhpClean, PhpMove, PhpClear, PhpPlace, PhpSwitchTo, PhpPrune, PhpAfter, NothingToPrune,
       ListVictims, Drop, Goto, End, call
  <2> QED
    BY <1>3, <2>1, <2>2, <2>3, <2>4 DEF Install
<1>4. CASE Crash
  BY <1>4 DEF Crash, End, call
<1>5. CASE UNCHANGED vars
  BY <1>5 DEF vars
<1> QED
  BY <1>1, <1>2, <1>3, <1>4, <1>5 DEF Next

(* archive.ts:76, updater.py, Updater.cs: no file of a package ends up outside
   the directory, whatever the names in it. PHP counts ".." part by part
   instead of resolving the name first; that this comes to the same takes an
   induction on the name and is left to TLC.                                 *)
THEOREM FilesStayInside == Spec => [](sdk # "php" => ExtractsInside)
<1> DEFINE Contained == sdk # "php" => ExtractsInside
<1>1. Init => Contained
  BY NothingRefused DEF Init, ExtractsInside
<1>2. Contained /\ [Next]_vars => Contained'
  <2> SUFFICES ASSUME Contained, [Next]_vars, sdk' # "php"
               PROVE  ExtractsInside'
    OBVIOUS
  <2>1. unpacked' \in {Refusal, unpacked} \cup NodeOutcomes \cup PyOutcomes \cup CsOutcomes
    BY WhatIsUnpacked
  <2>2. \A file \in unpacked'.files : Inside(file)
    BY <2>1, WhatIsUnpacked, NothingRefused, NodeOutcomesInside, PyOutcomesInside, CsOutcomesInside DEF ExtractsInside
  <2> QED
    BY <2>2 DEF ExtractsInside
<1> QED
  BY <1>1, <1>2, PTL DEF Spec

=============================================================================
