-------------------------------- MODULE Updater --------------------------------
(***************************************************************************)
(* What the updaters of the Node, Python, C# and PHP SDKs share: the       *)
(* application's directory and the primitives that change it. Each of them *)
(* downloads, verifies, unpacks, puts the version in place, repoints       *)
(* current.txt and prunes; they differ in what they do when a step fails.  *)
(* Deleting a directory is not atomic: it may stop half-way, at a crash or *)
(* at a file in use. Renaming one is. One program updates itself.          *)
(***************************************************************************)
EXTENDS Archive

CONSTANTS
  Sdks,          \* SDKs considered, of "node", "python", "csharp", "php"
  Versions,      \* version numbers, in the order of their names as strings
  Packages,      \* what a version may come as: [format, entries]
  Entries,       \* values the server may give for plan.entry
  KeepVersions,  \* the updater's keepVersions
  Null,          \* no pointer, no field
  Absent,        \* no such directory
  Broken,        \* a directory that holds part of a version, or parts of two
  MaxFaults      \* bound: crashes, failed deletions and failed writes

ASSUME UpdaterAssumption ==
  /\ Sdks \subseteq {"node", "python", "csharp", "php"}
  /\ Versions \subseteq Nat /\ IsFiniteSet(Versions)
  /\ KeepVersions \in Nat \ {0} /\ MaxFaults \in Nat
  /\ Null \notin Versions \cup {Absent, Broken} /\ {Absent, Broken} \cap Versions = {} /\ Absent # Broken

(* Directories of <root>/versions: a version's, and the one it is put together in. *)
Dirs == Versions \X {"final", "pending"}
Final(v)   == <<v, "final">>
Pending(v) == <<v, "pending">>

VARIABLES
  sdk,       \* which SDK the program uses
  disk,      \* directory -> the version its files are, Broken or Absent
  pointer,   \* content of current.txt, Null when it is missing or empty
  pc,        \* step of the call in progress, "idle" without one
  op,        \* that call: "apply", "stage" or "switch"
  target,    \* the version it is about
  before,    \* the pointer when it began
  got,       \* the version whose package has been downloaded, Broken if not in full
  unpacked,  \* what the package was unpacked to, until it is moved
  victims,   \* directories prune has yet to delete
  outcome,   \* how the last call ended: "failed" before the pointer was replaced,
             \*   "late" after it, ...
  marred,    \* history: versions whose directory is not whole through a failure
             \*   nothing looked at, or was taken so by a rollback
  faults

vars == <<sdk, disk, pointer, pc, op, target, before, got, unpacked, victims,
          outcome, marred, faults>>
call == <<sdk, op, target, before>>

(* A first install, or one that was shipped as some version. *)
Init ==
  /\ sdk \in Sdks
  /\ pointer \in Versions \cup {Null}
  /\ disk = [d \in Dirs |-> IF d = Final(pointer) THEN pointer ELSE Absent]
  /\ pc = "idle" /\ op = "apply" /\ target = Null /\ before = pointer
  /\ got = Null /\ unpacked = Refusal /\ victims = {}
  /\ outcome = "none" /\ marred = {} /\ faults = 0

Fault == faults < MaxFaults /\ faults' = faults + 1

IsDir(d) == disk[d] # Absent

-----------------------------------------------------------------------------
(* Control: a call begins, goes on, or ends and takes its staging with it.  *)

Begin(o, v, step) ==
  /\ pc = "idle"
  /\ pc' = step /\ op' = o /\ target' = v /\ before' = pointer
  /\ outcome' = "none" /\ got' = Null /\ unpacked' = Refusal /\ victims' = {}
  /\ UNCHANGED <<sdk, disk, pointer, faults>>

Goto(step) ==
  /\ pc' = step /\ unpacked' = Refusal
  /\ UNCHANGED <<call, got, victims, outcome>>

End(how) ==
  /\ pc' = "idle" /\ outcome' = how
  /\ got' = Null /\ unpacked' = Refusal /\ victims' = {}
  /\ UNCHANGED call

(* The disk and the pointer. *)
Erase(d)   == disk' = [disk EXCEPT ![d] = Absent] /\ UNCHANGED <<pointer, marred, faults>>
Stuck(d)   == /\ Fault /\ IsDir(d)
              /\ \E left \in {disk[d], Broken} : disk' = [disk EXCEPT ![d] = left]
              /\ UNCHANGED <<pointer, marred>>
Keep       == UNCHANGED <<disk, pointer, marred, faults>>
Thwarted   == Fault /\ UNCHANGED <<disk, pointer, marred>>
PutPending == disk' = [disk EXCEPT ![Pending(target)] = got]
              /\ UNCHANGED <<pointer, marred, faults>>
PutFinal   == /\ disk' = [disk EXCEPT ![Final(target)] = disk[Pending(target)],
                                      ![Pending(target)] = Absent]
              /\ marred' = IF disk[Pending(target)] = target THEN marred \ {target} ELSE marred
              /\ UNCHANGED <<pointer, faults>>
Repoint(v) == pointer' = v /\ UNCHANGED <<disk, marred, faults>>

(* A plan's fields and the bytes received, whoever sent them. A signature is
   the platform's for one version, one content and its size. *)
Size(v) == (v % 2) + 1
Plans ==
  [sha : Versions \cup {Null}, size : {Size(v) : v \in Versions} \cup {Null},
   signed : {<<v, v, Size(v)>> : v \in Versions} \cup {Null}]
Headers == {Size(v) : v \in Versions} \cup {Null}

Fetch(accepted) ==
  /\ pc = "fetch"
  /\ \/ /\ \E w \in accepted : got' = w
        /\ pc' = "unpack"
        /\ UNCHANGED <<call, unpacked, victims, outcome>>
     \/ End("failed")
  /\ Keep

Unpack(outs) ==
  /\ pc = "unpack"
  /\ \E out \in outs :
       \/ out.ok /\ pc' = "clean" /\ unpacked' = out
          /\ UNCHANGED <<call, got, victims, outcome>>
       \/ ~out.ok /\ End("failed")
  /\ Keep

(* Directories by name: "1.0" sorts before "1.0.pending". *)
Rank(d) == 2 * d[1] + (IF d[2] = "pending" THEN 1 ELSE 0)

(* Mutant of Superfluous: the current version is counted. *)
SuperfluousOfAll(installed) ==
  LET others == installed \ {Final(pointer)}
  IN  {d \in others : Cardinality({e \in others : Rank(e) > Rank(d)}) >= KeepVersions - 2}

(* All but the last KeepVersions - 1 of the installed ones, by name; the
   current one is not counted. *)
Superfluous(installed) ==
  LET others == installed \ {Final(pointer)}
  IN  {d \in others : Cardinality({e \in others : Rank(e) > Rank(d)}) >= KeepVersions - 1}

(* prune has its list; it deletes in the order of the names. *)
ListVictims(installed) ==
  /\ pc = "prune" /\ victims = {} /\ Superfluous(installed) # {}
  /\ victims' = Superfluous(installed)
  /\ UNCHANGED <<call, pc, got, unpacked, outcome>> /\ Keep

NextVictim == CHOOSE d \in victims : \A e \in victims : Rank(d) <= Rank(e)

Drop(d) ==
  /\ victims' = victims \ {d}
  /\ pc' = IF victims = {d} THEN "after" ELSE "prune"
  /\ UNCHANGED <<call, got, unpacked, outcome>>

NothingToPrune(installed) ==
  /\ pc = "prune" /\ victims = {} /\ Superfluous(installed) = {}
  /\ Goto("after") /\ Keep

(* The program dies; what a deletion had got to stays. *)
Deleting == CASE pc = "clean" -> {Pending(target)}
              [] pc = "clear" -> {Final(target)}
              [] pc = "prune" /\ victims # {} -> {NextVictim}
              [] OTHER -> {}

Crash ==
  /\ pc # "idle" /\ Fault
  /\ \/ disk' = disk
     \/ \E d \in Deleting : IsDir(d) /\ disk' = [disk EXCEPT ![d] = Broken]
  /\ End("none")
  /\ UNCHANGED <<pointer, marred>>

=============================================================================
