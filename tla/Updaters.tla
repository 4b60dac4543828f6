-------------------------------- MODULE Updaters -------------------------------
(***************************************************************************)
(* A program that updates itself with one of the four SDKs, crashes where  *)
(* it likes, is started again by the launcher and may be rolled back.      *)
(***************************************************************************)
EXTENDS UpdaterNode, UpdaterPython, UpdaterCsharp, UpdaterPhp

Start ==
  \E v \in Versions :
    \/ sdk = "node"   /\ (NodeApply(v) \/ NodeRollback(v))
    \/ sdk = "python" /\ (PyApply(v) \/ PyRollback(v))
    \/ sdk = "csharp" /\ (CsApply(v) \/ CsRollback(v))
    \/ sdk = "php"    /\ (PhpApply(v) \/ PhpStage(v) \/ PhpRollback(v))

Receive ==
  \/ sdk = "node"   /\ NodeReceive
  \/ sdk = "python" /\ PyReceive
  \/ sdk = "csharp" /\ CsReceive
  \/ sdk = "php"    /\ PhpReceive

Install ==
  \/ sdk = "node"   /\ NodeInstall
  \/ sdk = "python" /\ PyInstall
  \/ sdk = "csharp" /\ CsInstall
  \/ sdk = "php"    /\ PhpInstall

Next == Start \/ Receive \/ Install \/ Crash

(* What has been unpacked is installed unless the program dies. *)
Spec == Init /\ [][Next]_vars /\ WF_vars(Install)

-----------------------------------------------------------------------------
(* updater.ts:4-6: whatever is cut short, current.txt names a version that is
   there in full, and the launcher starts that one, unless a failure its SDK did
   not look at went into that very version (a write of PHP's cut short, Python's
   move into a directory left over) or a rollback took a broken one. *)
StartsTheCurrentVersion ==
  pointer # Null /\ pointer \notin marred => disk[Final(pointer)] = pointer /\ MayStart = {Final(pointer)}

(* updater.py, Updater.cs: a directory that is in full is its own version's:
   neither a swapped package nor an old one under a new name is installed. *)
InstalledIsGenuine ==
  \A v \in Versions : {disk[Final(v)], disk[Pending(v)]} \subseteq {v, Absent, Broken}

(* updater.ts:147: a call that fails before the switch leaves the current
   version current; C#'s delete-then-move is the exception. *)
FailedKeepsCurrent ==
  outcome = "failed" /\ sdk # "csharp" => pointer = before

(* updater.ts:4: no step of any updater touches the directory of the version
   that is current. *)
CurrentIsNeverTouched ==
  [][pointer # Null /\ IsDir(Final(pointer))
       => disk'[Final(pointer)] = disk[Final(pointer)]]_disk

(* Claimed: updater.ts:342, Updater.php:416, that no version is there by half.
   Violated by PHP, by Python and by a rollback to what a deletion left.     *)
CurrentIsWhole == pointer # Null => disk[Final(pointer)] = pointer

(* Claimed: Updater.cs:452, Updater.php:216, that no failure damages the pointer.
   Violated by C#'s delete-then-move and by PHP's unchecked write.           *)
PointerIsKept == [][pointer # Null => pointer' # Null]_pointer

(* updater.ts:361-368: after an update that met no failure there is a version
   in full to roll back to, though not always the one it replaced. *)
RollbackRemains ==
  outcome = "applied" /\ faults = 0 /\ before \notin {Null, target} /\ KeepVersions > 1
    => \E v \in Versions \ {target} : disk[Final(v)] = v

(* Claimed: updater.ts:364, INTEGRATION.md:688, that the latest versions are
   kept, so that the one an update replaced is. Violated, as versions are told
   apart by the order of their names: with 1.9.0 there, 1.10.0 goes.         *)
ReplacedIsKept ==
  outcome = "applied" /\ faults = 0 /\ before \notin {Null, target} /\ KeepVersions > 1
    => IsDir(Final(before))

(* archive.ts:76: no file of a package ends up outside the directory. *)
ExtractsInside == \A file \in unpacked.files : Inside(file)

(* resolveStripPrefix: whatever is stripped, every file of the package is
   unpacked and no two become one. *)
StrippingLosesNothing ==
  unpacked.ok => Cardinality(unpacked.files)
                   = Cardinality({Resolve(parts) : parts \in {p \in unpacked.named : p \notin {<<d>> : d \in Dots}}})

(* INTEGRATION.md:698: a package that is one directory is unpacked without it. *)
SingleRootIsStripped ==
  /\ unpacked.ok /\ unpacked.strip
  /\ Cardinality({p[1] : p \in unpacked.named}) = 1
  /\ \A p \in unpacked.named : Len(p) > 1
  => unpacked.files = {Dest \o Tail(p) : p \in unpacked.named}

(* A package that has been unpacked is current in the end, when nothing more
   goes wrong. *)
GoodUpdateLands ==
  (pc = "clean" /\ op = "apply" /\ faults = MaxFaults) ~> (pc = "idle" /\ pointer = target)

=============================================================================
