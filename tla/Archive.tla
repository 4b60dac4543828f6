-------------------------------- MODULE Archive --------------------------------
(***************************************************************************)
(* Unpacking an update package: what archive.ts, updater.py, Updater.cs    *)
(* and Updater.php have in common. A package has a format and entries; an  *)
(* entry has the parts of its name, split at "/", and a kind. A path is    *)
(* the sequence of its parts from the application's root.                  *)
(***************************************************************************)
EXTENDS Naturals, Sequences, FiniteSets, SequencesExt

(* <root>/.updates/<random>/unpacked, where every package is unpacked. *)
Dest == <<"updates", "staging", "unpacked">>

(* Mutant of StripPrefix: takes the first entry's directory off, whatever the
   others say. *)
StripPrefixOfFirst(entries, strip) ==
  IF strip /\ entries # <<>> /\ Len(entries[1].parts) > 1 THEN <<entries[1].parts[1]>> ELSE <<>>

(* The common directory to take off: every entry, an explicit one for the
   directory itself included, has to lie below it. *)
StripPrefix(entries, strip) ==
  LET tops == {e.parts[1] : e \in ToSet(entries)}
  IN  IF strip /\ Cardinality(tops) = 1 /\ \A e \in ToSet(entries) : Len(e.parts) > 1
      THEN <<entries[1].parts[1]>>
      ELSE <<>>

(* Entries below the prefix, by their names without it. *)
Below(entries, prefix) ==
  {[path |-> SubSeq(e.parts, Len(prefix) + 1, Len(e.parts)), kind |-> e.kind] :
     e \in {x \in ToSet(entries) : IsPrefix(prefix, x.parts) /\ x.parts # prefix}}

(* path.resolve, os.path.realpath, Path.GetFullPath: ".." takes a part off. *)
Resolve(parts) ==
  FoldLeft(LAMBDA path, part :
             CASE part = ".."  -> IF path = <<>> THEN path ELSE Front(path)
               [] part = "."   -> path
               [] OTHER        -> Append(path, part),
           Dest, parts)

Inside(path) == IsPrefix(Dest, path)

(* A link may point out of the directory: the tar readers pass it over. *)
TarEntries(entries) == SelectSeq(entries, LAMBDA e : e.kind # "link")

Ancestors(path) == {SubSeq(path, 1, i) : i \in 0..(Len(path) - 1)}

Refusal == [ok |-> FALSE, files |-> {}, named |-> {}, strip |-> FALSE]

(* Directories made and files written; a file where a directory has to be, or
   the other way round, ends it. *)
Write(wanted, entries, strip) ==
  LET files == {Resolve(w.path) : w \in {x \in wanted : x.kind = "file"}}
      dirs  == {Resolve(w.path) : w \in {x \in wanted : x.kind = "dir"}}
                 \cup UNION {Ancestors(Resolve(w.path)) : w \in wanted} \cup {Dest}
  IN  IF files \cap dirs # {}
      THEN Refusal
      ELSE [ok |-> TRUE, files |-> files, strip |-> strip,
            named |-> {e.parts : e \in {x \in ToSet(entries) : x.kind = "file"}}]

(* The package itself is the program: one file, under the last part of the
   name the server gives. *)
WriteSingle(name) ==
  [ok |-> TRUE, files |-> {Append(Dest, name)}, named |-> {<<name>>}, strip |-> FALSE]

Dots == {".", ".."}

=============================================================================
