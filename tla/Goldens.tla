------------------------------- MODULE Goldens -------------------------------
(***************************************************************************)
(* The working tree of the repository as far as the golden books go: the   *)
(* sources under fixtures/source, the goldens inside the package, the      *)
(* accessor through which goldens are read (fixtures/__init__.py), and the *)
(* tests that compare the two (tests/test_fixtures.py).                    *)
(*                                                                         *)
(* A book is a directory name; numbers stand for names, ordered as sorted()*)
(* orders them.  A source is its files: part 0 is def.json, and the others *)
(* are the scenes in the order in which def.json lists them.  What a file  *)
(* says is a member of Contents, what the library's code says (dataclasses,*)
(* builder, SCHEMA_VERSION) a member of Libraries.  A golden is named by   *)
(* its place in the order in which build() returns the artifacts, and its  *)
(* content is what it was rendered from.                                   *)
(***************************************************************************)
EXTENDS Naturals

CONSTANTS
  Books,      \* the names a book's directory may have
  NumScenes,  \* the number of scenes of a book
  Contents,   \* what a source file may say
  Libraries,  \* what the library's code may say
  NumFiles,   \* the number of artifacts build() returns
  Uses,       \* Uses[f]: the source files that golden f is built from
  Buildable,  \* the sources that build_fixture accepts: every quote found, every target resolved
  Absent,     \* there is no such file or directory
  Torn        \* an empty file, or one cut off: not JSON

Parts   == 0..NumScenes
Files   == 1..NumFiles
Sources == [Parts -> Contents]

ASSUME GoldensAssumption ==
  /\ Books \subseteq Nat /\ NumScenes \in Nat /\ NumFiles \in Nat \ {0}
  /\ Uses \in [Files -> SUBSET Parts]
  /\ Buildable \subseteq Sources
  /\ Absent \notin Sources /\ Absent \notin Books /\ Absent \notin Contents
  /\ Absent \notin Libraries

\* The text of golden f, built by the library l from the source s (build and render_golden).
Rendered(l, f, s) == [lib |-> l, from |-> [p \in Uses[f] |-> s[p]]]

Artifacts == {Rendered(l, f, s) : l \in Libraries, f \in Files, s \in Sources}

ASSUME SentinelAssumption == Absent \notin Artifacts /\ Torn \notin Artifacts /\ Absent # Torn

(***************************************************************************)
(* A tree t has the fields source, lib, ids (FIXTURE_IDS), dirs (the       *)
(* directories of golden/) and golden.                                     *)
(***************************************************************************)
SourceDirs(source) == {b \in Books : source[b] # Absent}

\* golden_path does not raise: the book is declared, the artifact too, and the file is there.
GoldenPath(t, b, f) == b \in t.ids /\ f \in Files /\ t.golden[b][f] # Absent

\* The goldens of every source book are what a rebuild by this library gives.
Mirrors(t) ==
  \A b \in SourceDirs(t.source) : \A f \in Files :
    t.golden[b][f] = Rendered(t.lib, f, t.source[b])

\* The rebuild raises nothing, and each golden is found and loads as what was rebuilt.
test_golden_matches_rebuild(t) ==
  \A b \in SourceDirs(t.source) :
    /\ t.source[b] \in Buildable
    /\ \A f \in Files : GoldenPath(t, b, f) /\ t.golden[b][f] = Rendered(t.lib, f, t.source[b])

\* The accessor finds each artifact of each declared book, and golden/ holds no other file.
test_the_accessor_resolves_every_artifact(t) ==
  /\ \A b \in t.ids : \A f \in Files : GoldenPath(t, b, f)
  /\ \A b \in Books : \A f \in Files : t.golden[b][f] # Absent => b \in t.ids

\* Mutant: FIXTURE_IDS is compared with the directories of golden/ only.
test_the_accessor_declares_the_golden_dirs(t) == t.dirs = t.ids

test_the_accessor_declares_the_same_fixtures(t) ==
  /\ t.ids = SourceDirs(t.source)
  /\ t.dirs = SourceDirs(t.source)

\* pytest is green, as far as goldens and accessor go.
TestsPass(t) ==
  /\ test_golden_matches_rebuild(t)
  /\ test_the_accessor_resolves_every_artifact(t)
  /\ test_the_accessor_declares_the_same_fixtures(t)

=============================================================================
