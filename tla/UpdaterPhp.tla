-------------------------------- MODULE UpdaterPhp --------------------------------
(***************************************************************************)
(* The PHP SDK's updater (Updater.php). stage puts a version in place and  *)
(* leaves the switch to a deployment script; rmTree ignores failures;      *)
(* names that end in .pending are no versions; what a write comes to is    *)
(* not looked at, neither of the package, of its files nor of the pointer. *)
(***************************************************************************)
EXTENDS Updater

(* apply looks at the pointer, stage at the directory alone. *)
PhpApply(v) ==
  /\ ~(pointer = v /\ IsDir(Final(v)))
  /\ Begin("apply", v, "fetch")
  /\ UNCHANGED marred

PhpStage(v) ==
  /\ ~IsDir(Final(v))
  /\ Begin("stage", v, "fetch")
  /\ UNCHANGED marred

PhpDownloads(plan, w) == plan.size # Null => Size(w) = plan.size

PhpVerifies(plan, w, v) ==
  /\ plan.sha \in {Null, w}
  /\ plan.signed # Null /\ plan.size # Null
  /\ plan.signed = <<v, w, plan.size>>

PhpAccepted ==
  [v \in Versions |-> {w \in Versions : \E plan \in Plans :
                         PhpDownloads(plan, w) /\ PhpVerifies(plan, w, v)}]

(* Bytes are lost on their way to the disk; the hash is of the bytes received. *)
CutShort(step) ==
  /\ Fault /\ got' = Broken /\ marred' = marred \cup {target}
  /\ pc' = step
  /\ UNCHANGED <<call, disk, pointer, victims, outcome>>

PhpFetch ==
  \/ Fetch(PhpAccepted[target])
  \/ pc = "fetch" /\ PhpAccepted[target] # {} /\ CutShort("unpack") /\ unpacked' = unpacked

(* Part by part: a ".." that leaves the directory is refused, even one that
   comes back, and so is a name that ends where it began. *)
Leaves(parts) ==
  \E i \in DOMAIN parts :
    Len(SelectSeq(SubSeq(parts, 1, i), LAMBDA p : p = "..")) >
      Len(SelectSeq(SubSeq(parts, 1, i), LAMBDA p : p \notin Dots))

PhpExtract(package, strip) ==
  LET entries == package.entries
      wanted  == {w \in Below(entries, StripPrefix(entries, strip)) : w.path \notin {<<d>> : d \in Dots}}
  IN  IF package.format = "zip" /\ \A w \in wanted : ~Leaves(w.path) /\ Resolve(w.path) # Dest
      THEN Write(wanted, entries, strip)
      ELSE Refusal

PhpEntryName(name) == IF Last(name) \in Dots THEN Refusal ELSE WriteSingle(Last(name))

PhpOutcomes ==
  {PhpExtract(package, strip) : package \in Packages, strip \in BOOLEAN}
  \cup {PhpEntryName(name) : name \in Entries}

PhpUnpack ==
  \/ Unpack(PhpOutcomes)
  \/ pc = "unpack" /\ CutShort("clean") /\ unpacked' \in {out \in PhpOutcomes : out.ok}

RmTree(d) == Erase(d) \/ Stuck(d)

PhpClean == pc = "clean" /\ RmTree(Pending(target)) /\ Goto("move")

PhpMove ==
  /\ pc = "move"
  /\ \/ ~IsDir(Pending(target)) /\ PutPending /\ Goto("clear")
     \/ IsDir(Pending(target)) /\ Keep /\ End("failed")
     \/ Thwarted /\ End("failed")

PhpClear == pc = "clear" /\ RmTree(Final(target)) /\ Goto("place")

(* Mutant of PhpPlace: apply leaves the switch out, too. *)
PhpPlaceOnly ==
  /\ pc = "place"
  /\ \/ ~IsDir(Final(target)) /\ PutFinal /\ Goto("after")
     \/ IsDir(Final(target)) /\ RmTree(Pending(target)) /\ End("failed")

PhpPlace ==
  /\ pc = "place"
  /\ \/ /\ ~IsDir(Final(target)) /\ PutFinal
        /\ IF op = "apply" THEN Goto("switch") ELSE Goto("after")
     \/ IsDir(Final(target)) /\ RmTree(Pending(target)) /\ End("failed")
     \/ /\ Fault /\ disk' = [disk EXCEPT ![Pending(target)] = Absent]
        /\ UNCHANGED <<pointer, marred>> /\ End("failed")

(* A short write goes unnoticed and the pointer is empty. *)
PhpSwitchTo ==
  /\ pc = "switch"
  /\ \/ /\ IsDir(Final(target))
        /\ \/ Repoint(target)
           \/ Fault /\ pointer' = Null /\ UNCHANGED <<disk, marred>>
        /\ IF op = "apply" THEN Goto("prune") ELSE End("switched")
     \/ Thwarted /\ End("failed")

PhpInstalled == {d \in Dirs : IsDir(d) /\ d[2] # "pending"}

PhpPrune ==
  \/ NothingToPrune(PhpInstalled)
  \/ ListVictims(PhpInstalled)
  \/ pc = "prune" /\ victims # {} /\ RmTree(NextVictim) /\ Drop(NextVictim)

(* The command after the install fails by its exit code, too. *)
PhpAfter ==
  /\ pc = "after" /\ Keep
  /\ End(IF op = "apply" THEN "applied" ELSE "staged") \/ End("late")

(* rollback, or switchTo from a deployment script. *)
PhpRollback(v) ==
  /\ IsDir(Final(v))
  /\ Begin("switch", v, "switch")
  /\ marred' = IF disk[Final(v)] = Broken THEN marred \cup {v} ELSE marred

PhpReceive == PhpFetch \/ PhpUnpack
PhpInstall == PhpClean \/ PhpMove \/ PhpClear \/ PhpPlace \/ PhpSwitchTo \/ PhpPrune \/ PhpAfter

=============================================================================
