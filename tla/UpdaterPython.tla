-------------------------------- MODULE UpdaterPython --------------------------------
(***************************************************************************)
(* The Python SDK's updater (updater.py). rmtree ignores what it cannot    *)
(* delete, and shutil.move puts a directory INTO one that is already       *)
(* there.                                                                  *)
(***************************************************************************)
EXTENDS Updater

PyApply(v) ==
  /\ ~(pointer = v /\ IsDir(Final(v)))
  /\ Begin("apply", v, "fetch")
  /\ UNCHANGED marred

PyDownloads(plan, header, w) ==
  /\ plan.size # Null /\ header # Null => header = plan.size
  /\ plan.size # Null => Size(w) = plan.size

(* Mutant of PyVerifies: the signature is checked against the hash the plan gives. *)
PyVerifiesPlan(plan, w, v) ==
  /\ plan.signed # Null /\ plan.size # Null /\ plan.sha # Null
  /\ plan.signed = <<v, plan.sha, plan.size>>

PyVerifies(plan, w, v) ==
  /\ plan.sha \in {Null, w}
  /\ plan.signed # Null /\ plan.size # Null
  /\ plan.signed = <<v, w, plan.size>>

PyAccepted ==
  [v \in Versions |-> {w \in Versions : \E plan \in Plans, header \in Headers :
                         PyDownloads(plan, header, w) /\ PyVerifies(plan, w, v)}]

PyFetch == Fetch(PyAccepted[target])

PySafeExtract(members, prefix, strip) ==
  LET wanted == {w \in Below(members, prefix) : ~(w.kind # "dir" /\ w.path \in {<<d>> : d \in Dots})}
  IN  IF \A w \in wanted : Inside(Resolve(w.path)) THEN Write(wanted, members, strip) ELSE Refusal

PyExtract(package, strip) ==
  LET members == IF package.format = "zip" THEN package.entries ELSE TarEntries(package.entries)
  IN  IF package.format \in {"zip", "tar"}
      THEN PySafeExtract(members, StripPrefix(members, strip), strip)
      ELSE Refusal

(* copy2 onto itself fails; into a directory it keeps the archive's own name. *)
PySingle(name) ==
  CASE name = ".." -> Refusal
    [] name = "."  -> WriteSingle("package.bin")
    [] OTHER       -> WriteSingle(name)

PyOutcomes ==
  {PyExtract(package, strip) : package \in Packages, strip \in BOOLEAN}
  \cup {PySingle(Last(name)) : name \in Entries}

PyUnpack == Unpack(PyOutcomes)

PyClean ==
  /\ pc = "clean" /\ Goto("move")
  /\ Erase(Pending(target)) \/ Stuck(Pending(target))

(* Into a directory left over, the new version lands one level too deep. *)
PyMove ==
  /\ pc = "move"
  /\ \/ ~IsDir(Pending(target)) /\ PutPending /\ Goto("clear")
     \/ /\ IsDir(Pending(target))
        /\ disk' = [disk EXCEPT ![Pending(target)] = Broken]
        /\ marred' = marred \cup {target} /\ UNCHANGED <<pointer, faults>>
        /\ Goto("clear")
     \/ Thwarted /\ End("failed")

PyClear ==
  /\ pc = "clear" /\ Goto("place")
  /\ Erase(Final(target)) \/ Stuck(Final(target))

(* rename refuses a directory that is still there. *)
PyPlace ==
  /\ pc = "place"
  /\ \/ ~IsDir(Final(target)) /\ PutFinal /\ Goto("switch")
     \/ IsDir(Final(target)) /\ Keep /\ End("failed")
     \/ Thwarted /\ End("failed")

PySwitch ==
  /\ pc = "switch"
  /\ \/ Repoint(target) /\ IF op = "apply" THEN Goto("prune") ELSE End("switched")
     \/ Thwarted /\ End("failed")

PyInstalled == {d \in Dirs : IsDir(d)}

PyPrune ==
  \/ NothingToPrune(PyInstalled)
  \/ ListVictims(PyInstalled)
  \/ /\ pc = "prune" /\ victims # {} /\ Drop(NextVictim)
     /\ Erase(NextVictim) \/ Stuck(NextVictim)

PyAfter ==
  /\ pc = "after" /\ Keep
  /\ End("applied") \/ End("late")

PyRollback(v) ==
  /\ IsDir(Final(v))
  /\ Begin("switch", v, "switch")
  /\ marred' = IF disk[Final(v)] = Broken THEN marred \cup {v} ELSE marred

PyReceive == PyFetch \/ PyUnpack
PyInstall == PyClean \/ PyMove \/ PyClear \/ PyPlace \/ PySwitch \/ PyPrune \/ PyAfter

(* The launcher's order: the pointer's directory first, then every other
   directory, the newest first. *)
Ahead(d, e) == d # Final(pointer) /\ (e = Final(pointer) \/ Rank(e) > Rank(d))

(* It starts the first one whose entry is there; a broken one may have it. *)
MayStart ==
  {d \in Dirs : IsDir(d) /\ \A e \in Dirs : IsDir(e) /\ Ahead(d, e) => disk[e] = Broken}

=============================================================================
