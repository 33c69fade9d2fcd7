------------------------------ MODULE MCRelease ------------------------------
(***************************************************************************)
(* Commits of one or two books, as built, with one golden that is not what *)
(* a rebuild gives, or with other books declared, listed or shipped.       *)
(***************************************************************************)
EXTENDS Release

MCUses == <<{0}, {0}>>
MCBuildable == Sources

\* The codes of the characters of "0.9.0" and "0.10.0", from the dot as 0.
V9  == <<1, 0, 10, 0, 1>>
V10 == <<1, 0, 2, 1, 0, 1>>

Built(source, lib) ==
  [source |-> source, lib |-> lib, ids |-> SourceDirs(source), dirs |-> SourceDirs(source),
   golden |-> [b \in Books |-> [f \in Files |->
                 IF source[b] = Absent THEN Absent ELSE Rendered(lib, f, source[b])]]]

Text(c) == [p \in Parts |-> c]

BothBooks == Built([b \in Books |-> Text("first")], "new")
OneBook   == Built([b \in Books |-> IF b = 1 THEN Text("first") ELSE Absent], "new")

Stale == {Absent, Torn, Rendered("old", 1, Text("first"))}

Trees ==
  {BothBooks, OneBook, [BothBooks EXCEPT !.ids = {1}]}
    \cup {[BothBooks EXCEPT !.golden[b][1] = g] : b \in Books, g \in Stale}

All == Books \X Files

MCCommits ==
  [tree : Trees, ships : {All, {}, All \ {<<2, 1>>}}, listed : {Books, {1}}, version : {V9, V10}]

=============================================================================
