-------------------------------- MODULE UpdaterCsharp --------------------------------
(***************************************************************************)
(* The C# SDK's updater (Updater.cs). TryDeleteDirectory swallows every    *)
(* failure, Directory.Move refuses a directory that exists, and the        *)
(* pointer falls back to delete-then-move where File.Replace does not      *)
(* work.                                                                   *)
(***************************************************************************)
EXTENDS Updater

CsApply(v) ==
  /\ ~(pointer = v /\ IsDir(Final(v)))
  /\ Begin("apply", v, "fetch")
  /\ UNCHANGED marred

CsDownloads(plan, w) == plan.size # Null => Size(w) = plan.size

CsVerifies(plan, w, v) ==
  /\ plan.sha \in {Null, w}
  /\ plan.signed # Null /\ plan.size # Null
  /\ plan.signed = <<v, w, plan.size>>

CsAccepted ==
  [v \in Versions |-> {w \in Versions : \E plan \in Plans :
                         CsDownloads(plan, w) /\ CsVerifies(plan, w, v)}]

CsFetch == Fetch(CsAccepted[target])

CsExtract(package, strip) ==
  LET entries == package.entries
      wanted  == {w \in Below(entries, StripPrefix(entries, strip)) :
                    ~(w.kind # "dir" /\ w.path \in {<<d>> : d \in Dots})}
  IN  IF package.format = "zip" /\ \A w \in wanted : Inside(Resolve(w.path))
      THEN Write(wanted, entries, strip)
      ELSE Refusal

(* A name that says nothing becomes "app.exe". *)
CsEntryName(name) == IF Last(name) \in Dots THEN "app.exe" ELSE Last(name)

CsOutcomes ==
  {CsExtract(package, strip) : package \in Packages, strip \in BOOLEAN}
  \cup {WriteSingle(CsEntryName(name)) : name \in Entries}

CsUnpack == Unpack(CsOutcomes)

TryDelete(d) == Erase(d) \/ Stuck(d)

CsClean == pc = "clean" /\ TryDelete(Pending(target)) /\ Goto("move")

CsMove ==
  /\ pc = "move"
  /\ \/ ~IsDir(Pending(target)) /\ PutPending /\ Goto("clear")
     \/ IsDir(Pending(target)) /\ Keep /\ End("failed")

CsClear == pc = "clear" /\ TryDelete(Final(target)) /\ Goto("place")

CsPlace ==
  /\ pc = "place"
  /\ \/ ~IsDir(Final(target)) /\ PutFinal /\ Goto("switch")
     \/ IsDir(Final(target)) /\ Keep /\ End("failed")
     \/ Thwarted /\ End("failed")

(* File.Replace is atomic; the fallback deletes the pointer before it moves
   the new one there. *)
CsSwitch ==
  /\ pc = "switch"
  /\ \/ pointer # Null /\ Repoint(target) /\ IF op = "apply" THEN Goto("prune") ELSE End("switched")
     \/ pointer = Null /\ Keep /\ Goto("repoint")
     \/ pointer # Null /\ Fault /\ pointer' = Null /\ UNCHANGED <<disk, marred>> /\ Goto("repoint")
     \/ Thwarted /\ End("failed")

CsRepoint ==
  /\ pc = "repoint"
  /\ \/ Repoint(target) /\ IF op = "apply" THEN Goto("prune") ELSE End("switched")
     \/ Thwarted /\ End("failed")

CsInstalled == {d \in Dirs : IsDir(d)}

CsPrune ==
  \/ NothingToPrune(CsInstalled)
  \/ ListVictims(CsInstalled)
  \/ pc = "prune" /\ victims # {} /\ TryDelete(NextVictim) /\ Drop(NextVictim)

CsAfter ==
  /\ pc = "after" /\ Keep
  /\ End("applied") \/ End("late")

CsRollback(v) ==
  /\ IsDir(Final(v))
  /\ Begin("switch", v, "switch")
  /\ marred' = IF disk[Final(v)] = Broken THEN marred \cup {v} ELSE marred

CsReceive == CsFetch \/ CsUnpack
CsInstall == CsClean \/ CsMove \/ CsClear \/ CsPlace \/ CsSwitch \/ CsRepoint \/ CsPrune \/ CsAfter

=============================================================================
