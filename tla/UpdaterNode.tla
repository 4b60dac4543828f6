-------------------------------- MODULE UpdaterNode --------------------------------
(***************************************************************************)
(* The Node SDK's updater (updater.ts, archive.ts). rmSync throws what it  *)
(* cannot delete, so the call ends there, before or after the switch.      *)
(***************************************************************************)
EXTENDS Updater

(* apply: not again when the version is current and its directory there. *)
NodeApply(v) ==
  /\ ~(pointer = v /\ IsDir(Final(v)))
  /\ Begin("apply", v, "fetch")
  /\ UNCHANGED marred

(* The server's own length and every byte received are held against the
   plan's size, when the plan has one. *)
NodeReceives(plan, header, w) ==
  /\ plan.size # Null /\ header # Null => header = plan.size
  /\ plan.size # Null => Size(w) = plan.size

(* The signature is checked against the hash of what was received. *)
NodeVerifies(plan, w, v) ==
  /\ plan.sha \in {Null, w}
  /\ plan.signed # Null /\ plan.size # Null
  /\ plan.signed = <<v, w, plan.size>>

NodeAccepted ==
  [v \in Versions |-> {w \in Versions : \E plan \in Plans, header \in Headers :
                         NodeReceives(plan, header, w) /\ NodeVerifies(plan, w, v)}]

NodeFetch == Fetch(NodeAccepted[target])

(* Mutant of NodeSafeExtract: looks at how a name begins. *)
NodeExtractByName(entries, prefix, strip) ==
  LET wanted == Below(entries, prefix)
  IN  IF \A w \in wanted : w.path[1] # ".." THEN Write(wanted, entries, strip) ELSE Refusal

(* Entries are written under dest or refused; "." and ".." are passed over. *)
NodeSafeExtract(entries, prefix, strip) ==
  LET wanted == {w \in Below(entries, prefix) : ~(w.kind # "dir" /\ w.path \in {<<d>> : d \in Dots})}
  IN  IF \A w \in wanted : Inside(Resolve(w.path)) THEN Write(wanted, entries, strip) ELSE Refusal

NodeEntries(package) ==
  IF package.format = "zip" THEN package.entries ELSE TarEntries(package.entries)

NodeExtract(package, strip) ==
  LET entries == NodeEntries(package)
  IN  IF package.format \in {"zip", "tar"}
      THEN NodeSafeExtract(entries, StripPrefix(entries, strip), strip)
      ELSE Refusal

NodeOutcomes ==
  {NodeExtract(package, strip) : package \in Packages, strip \in BOOLEAN}
  \cup {IF Last(name) \in Dots THEN Refusal ELSE WriteSingle(Last(name)) : name \in Entries}

NodeUnpack == Unpack(NodeOutcomes)

(* install: what an earlier attempt left is deleted first. *)
NodeClean ==
  /\ pc = "clean"
  /\ \/ Erase(Pending(target)) /\ Goto("move")
     \/ Stuck(Pending(target)) /\ End("failed")

NodeMove ==
  /\ pc = "move"
  /\ \/ PutPending /\ Goto("clear")
     \/ Thwarted /\ End("failed")

NodeClear ==
  /\ pc = "clear"
  /\ \/ Erase(Final(target)) /\ Goto("place")
     \/ Stuck(Final(target)) /\ End("failed")

(* Mutant of NodePlace: copies file by file and goes on when a copy fails. *)
NodePlaceByCopy ==
  /\ pc = "place"
  /\ \/ PutFinal
     \/ /\ Fault /\ disk' = [disk EXCEPT ![Final(target)] = Broken]
        /\ UNCHANGED <<pointer, marred>>
  /\ Goto("switch")

NodePlace ==
  /\ pc = "place"
  /\ \/ PutFinal /\ Goto("switch")
     \/ Thwarted /\ End("failed")

(* Mutant of NodeSwitch: writes the pointer in place. *)
NodeSwitchInPlace ==
  /\ pc = "switch"
  /\ \/ Repoint(target) /\ IF op = "apply" THEN Goto("prune") ELSE End("switched")
     \/ Fault /\ pointer' = Null /\ UNCHANGED <<disk, marred>> /\ End("failed")

(* The pointer is written aside, synced and renamed. *)
NodeSwitch ==
  /\ pc = "switch"
  /\ \/ Repoint(target) /\ IF op = "apply" THEN Goto("prune") ELSE End("switched")
     \/ Thwarted /\ End("failed")

NodeInstalled == {d \in Dirs : IsDir(d)}

NodePrune ==
  \/ NothingToPrune(NodeInstalled)
  \/ ListVictims(NodeInstalled)
  \/ /\ pc = "prune" /\ victims # {}
     /\ \/ Erase(NextVictim) /\ Drop(NextVictim)
        \/ Stuck(NextVictim) /\ End("late")

(* The command after the install may not start; the version is in place. *)
NodeAfter ==
  /\ pc = "after" /\ Keep
  /\ End("applied") \/ End("late")

NodeRollback(v) ==
  /\ IsDir(Final(v))
  /\ Begin("switch", v, "switch")
  /\ marred' = IF disk[Final(v)] = Broken THEN marred \cup {v} ELSE marred

NodeReceive == NodeFetch \/ NodeUnpack
NodeInstall == NodeClean \/ NodeMove \/ NodeClear \/ NodePlace \/ NodeSwitch \/ NodePrune \/ NodeAfter

=============================================================================
