------------------------------- MODULE MCUpdaters ------------------------------
(* Packages: names up to three parts deep, among them ones that leave the      *)
(* directory, with and without an entry for the root directory itself.         *)
EXTENDS Updaters

File(parts) == [parts |-> parts, kind |-> "file"]
Folder(parts) == [parts |-> parts, kind |-> "dir"]
Link(parts) == [parts |-> parts, kind |-> "link"]

MCEntries == {<<"app.exe">>, <<"..", "app.exe">>, <<"..">>, <<".">>}

Names == {<<"a">>, <<"r", "a">>, <<"r", "..", "a">>, <<"..", "a">>, <<"..", "x", "..", "..", "a">>, <<"..">>, <<"r", "..", "..", "a">>}
Pairs == {<<File(p), File(q)>> : p \in Names, q \in {<<"r", "a">>, <<"q", "a">>}}

MCPackages ==
  {[format |-> "zip", entries |-> pair] : pair \in Pairs}
  \cup {[format |-> "tar", entries |-> <<File(<<"r", "a">>), Link(<<"a">>)>>],
        [format |-> "zip", entries |-> <<Folder(<<"r">>), File(<<"r", "a">>)>>],
        [format |-> "zip", entries |-> <<File(<<"r">>), File(<<"r", "a">>)>>],
        [format |-> "zip", entries |-> <<Folder(<<"..">>), File(<<"r", "a">>)>>],
        [format |-> "exe", entries |-> <<>>]}

=============================================================================
