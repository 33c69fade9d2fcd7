------------------------------ MODULE Regenerate ------------------------------
(***************************************************************************)
(* tools/build_fixtures.py at work in a tree that an author edits.  The    *)
(* tool reads a book's files one after the other, builds all of its        *)
(* artifacts in memory or raises, and rewrites its goldens one after the   *)
(* other, each by truncating the file and then writing it.  It may be      *)
(* killed between any two steps.  A second run may not begin before the    *)
(* first has ended: one person works in the tree.                          *)
(***************************************************************************)
EXTENDS Goldens

CONSTANTS
  MaxEdits,   \* bound on the author's edits
  MaxKills    \* bound on the runs that are killed

ASSUME BoundsAssumption == MaxEdits \in Nat /\ MaxKills \in Nat

VARIABLES
  source,    \* fixtures/source: the files of each book, Absent where there is no directory
  lib,       \* the library's code
  ids,       \* FIXTURE_IDS
  golden,    \* what each golden holds
  dirs,      \* the directories of golden/
  pc,        \* where build_fixtures is
  imported,  \* the library's code that the running tool imported
  todo,      \* the books it has yet to build
  book,      \* the book it is building
  at,        \* the next source file to read, or the next golden to write
  snap,      \* what it has read
  clean,     \* no edit since the last run began
  exit,      \* how the last run ended
  edits, kills

treeVars == <<source, lib, ids, golden, dirs>>
toolVars == <<pc, imported, todo, book, at, snap>>
vars     == <<treeVars, toolVars, clean, exit, edits, kills>>

Tree == [source |-> source, lib |-> lib, ids |-> ids, golden |-> golden, dirs |-> dirs]

TypeOK ==
  /\ source \in [Books -> Sources \cup {Absent}]
  /\ lib \in Libraries /\ imported \in Libraries \cup {Absent}
  /\ ids \in SUBSET Books /\ dirs \in SUBSET Books /\ todo \in SUBSET Books
  /\ golden \in [Books -> [Files -> Artifacts \cup {Absent, Torn}]]
  /\ pc \in {"idle", "choosing", "reading", "writing", "truncated"}
  /\ book \in Books \cup {Absent}
  /\ at \in Nat
  /\ snap \in [Parts -> Contents \cup {Absent}]
  /\ clean \in BOOLEAN
  /\ exit \in {"none", "ok", "failed"}
  /\ edits \in Nat /\ kills \in Nat

Unread == [p \in Parts |-> Absent]

\* The repository as committed: the goldens of every book are built and declared.
Init ==
  /\ source \in [Books -> Buildable \cup {Absent}]
  /\ lib \in Libraries
  /\ ids = SourceDirs(source) /\ dirs = SourceDirs(source)
  /\ golden = [b \in Books |-> [f \in Files |->
                 IF source[b] = Absent THEN Absent ELSE Rendered(lib, f, source[b])]]
  /\ pc = "idle" /\ imported = Absent /\ todo = {} /\ book = Absent /\ at = 0 /\ snap = Unread
  /\ clean = TRUE /\ exit = "none"
  /\ edits = 0 /\ kills = 0

(***************************************************************************)
(* The author.                                                             *)
(***************************************************************************)
Edit == edits < MaxEdits /\ edits' = edits + 1 /\ clean' = FALSE /\ UNCHANGED <<toolVars, exit, kills>>

\* Saves one file of a book.
EditSource(b, p, c) ==
  /\ Edit
  /\ source[b] # Absent
  /\ source' = [source EXCEPT ![b] = [@ EXCEPT ![p] = c]]
  /\ UNCHANGED <<lib, ids, golden, dirs>>

\* Adds a book, or removes one.
ReplaceBook(b, s) ==
  /\ Edit
  /\ source' = [source EXCEPT ![b] = s]
  /\ UNCHANGED <<lib, ids, golden, dirs>>

\* Changes the dataclasses, the builder or SCHEMA_VERSION.
EditLibrary(l) ==
  /\ Edit
  /\ lib' = l
  /\ UNCHANGED <<source, ids, golden, dirs>>

\* Rewrites FIXTURE_IDS.
Declare(S) ==
  /\ Edit
  /\ ids' = S
  /\ UNCHANGED <<source, lib, golden, dirs>>

\* Deletes the goldens of a book.
DeleteGoldens(b) ==
  /\ Edit
  /\ dirs' = dirs \ {b}
  /\ golden' = [golden EXCEPT ![b] = [f \in Files |-> Absent]]
  /\ UNCHANGED <<source, lib, ids>>

Author ==
  \/ \E b \in Books : \E p \in Parts : \E c \in Contents : EditSource(b, p, c)
  \/ \E b \in Books : \E s \in Sources \cup {Absent} : ReplaceBook(b, s)
  \/ \E l \in Libraries : EditLibrary(l)
  \/ \E S \in SUBSET Books : Declare(S)
  \/ \E b \in Books : DeleteGoldens(b)

(***************************************************************************)
(* build_fixtures.main                                                     *)
(***************************************************************************)
\* The library is imported, and the source directories are listed.
Start ==
  /\ pc = "idle"
  /\ pc' = "choosing" /\ imported' = lib /\ todo' = SourceDirs(source) /\ clean' = TRUE
  /\ UNCHANGED <<treeVars, book, at, snap, exit, edits, kills>>

\* The next directory, in sorted order; FixtureBuilder begins to read it.
Choose(b) ==
  /\ pc = "choosing" /\ b \in todo /\ \A c \in todo : b <= c
  /\ pc' = "reading" /\ book' = b /\ todo' = todo \ {b} /\ at' = 0
  /\ UNCHANGED <<treeVars, imported, snap, clean, exit, edits, kills>>

\* def.json, or the text of the next scene.
Read ==
  /\ pc = "reading" /\ at \in Parts /\ source[book] # Absent
  /\ snap' = [snap EXCEPT ![at] = source[book][at]]
  /\ at' = at + 1
  /\ UNCHANGED <<treeVars, pc, imported, todo, book, clean, exit, edits, kills>>

\* Mutant: nothing is validated.
BuildAnything ==
  /\ pc = "reading" /\ at \notin Parts
  /\ pc' = "writing" /\ at' = 1
  /\ dirs' = dirs \cup {book}
  /\ UNCHANGED <<source, lib, ids, golden, imported, todo, book, snap, clean, exit, edits, kills>>

\* Mutant: the directory must be new (mkdir without exist_ok).
BuildIntoNewDirectory ==
  /\ pc = "reading" /\ at \notin Parts /\ snap \in Buildable /\ book \notin dirs
  /\ pc' = "writing" /\ at' = 1
  /\ dirs' = dirs \cup {book}
  /\ UNCHANGED <<source, lib, ids, golden, imported, todo, book, snap, clean, exit, edits, kills>>

\* build returns the artifacts, and the directory is made.
Build ==
  /\ pc = "reading" /\ at \notin Parts /\ snap \in Buildable
  /\ pc' = "writing" /\ at' = 1
  /\ dirs' = dirs \cup {book}
  /\ UNCHANGED <<source, lib, ids, golden, imported, todo, book, snap, clean, exit, edits, kills>>

\* write_text opens the golden.
Truncate ==
  /\ pc = "writing" /\ at \in Files /\ book \in dirs
  /\ pc' = "truncated"
  /\ golden' = [golden EXCEPT ![book] = [@ EXCEPT ![at] = Torn]]
  /\ UNCHANGED <<source, lib, ids, dirs, imported, todo, book, at, snap, clean, exit, edits, kills>>

\* Mutant: the first artifact is written again and again.
WriteManuscript ==
  /\ pc = "truncated"
  /\ pc' = "writing" /\ at' = at + 1
  /\ golden' = IF golden[book][at] = Torn
               THEN [golden EXCEPT ![book] = [@ EXCEPT ![at] = Rendered(imported, 1, snap)]]
               ELSE golden
  /\ UNCHANGED <<source, lib, ids, dirs, imported, todo, book, snap, clean, exit, edits, kills>>

\* ... and writes it, unless the file was deleted in between: then the text is lost with it.
Write ==
  /\ pc = "truncated"
  /\ pc' = "writing" /\ at' = at + 1
  /\ golden' = IF golden[book][at] = Torn
               THEN [golden EXCEPT ![book] = [@ EXCEPT ![at] = Rendered(imported, at, snap)]]
               ELSE golden
  /\ UNCHANGED <<source, lib, ids, dirs, imported, todo, book, snap, clean, exit, edits, kills>>

\* The last golden of the book is written.
NextBook ==
  /\ pc = "writing" /\ at \notin Files
  /\ pc' = "choosing" /\ book' = Absent /\ at' = 0 /\ snap' = Unread
  /\ UNCHANGED <<treeVars, imported, todo, clean, exit, edits, kills>>

\* The process is gone, and what it held in memory.
Exit(outcome) ==
  /\ pc' = "idle" /\ exit' = outcome
  /\ imported' = Absent /\ todo' = {} /\ book' = Absent /\ at' = 0 /\ snap' = Unread

Complete ==
  /\ pc = "choosing" /\ todo = {}
  /\ Exit("ok")
  /\ UNCHANGED <<treeVars, clean, edits, kills>>

\* A file to read, or the directory to write to, is gone, or the source is not buildable.
MustRaise ==
  \/ pc = "reading" /\ at \in Parts /\ source[book] = Absent
  \/ pc = "reading" /\ at \notin Parts /\ snap \notin Buildable
  \/ pc = "writing" /\ at \in Files /\ book \notin dirs

\* Mutant: a book that cannot be built is passed over.
RaiseAndGoOn ==
  /\ MustRaise
  /\ pc' = "choosing" /\ book' = Absent /\ at' = 0 /\ snap' = Unread
  /\ UNCHANGED <<treeVars, imported, todo, clean, exit, edits, kills>>

\* The exception ends the tool: the books it has not come to are left as they are.
Raise ==
  /\ MustRaise
  /\ Exit("failed")
  /\ UNCHANGED <<treeVars, clean, edits, kills>>

Kill ==
  /\ pc # "idle" /\ kills < MaxKills
  /\ Exit("failed") /\ kills' = kills + 1
  /\ UNCHANGED <<treeVars, clean, edits>>

Working ==
  \/ \E b \in Books : Choose(b)
  \/ Read \/ Build \/ Truncate \/ Write \/ NextBook \/ Complete \/ Raise

Next == Author \/ Start \/ Working \/ Kill

Spec == Init /\ [][Next]_vars

\* The tool is sequential code that waits for nothing, and it is run again while the drift test
\* says "run tools/build_fixtures.py".
FairSpec == Spec /\ WF_vars(Working) /\ WF_vars(~Mirrors(Tree) /\ Start)

-----------------------------------------------------------------------------
\* A run that ends well and that no edit has disturbed leaves every golden as the present
\* sources and the present library give it: whatever an earlier run, killed or failed half
\* way, has left, and whatever was added or removed since.
CompletedRunMirrors == exit = "ok" /\ clean /\ pc = "idle" => Mirrors(Tree)

\* Every golden that is whole was built from one source that the builder accepts: a book that
\* raises keeps the goldens it had, since all its artifacts are built before the first is
\* written.
GoldensOfBuildable ==
  \A b \in Books : \A f \in Files : golden[b][f] \notin {Absent, Torn} =>
    \E l \in Libraries : \E s \in Buildable : golden[b][f] = Rendered(l, f, s)

\* If the tests are green there is nothing under golden/ but the goldens of the present books,
\* each as the present source and library give it: no torn file, no golden of a book removed,
\* of an older source, or of a mixture of two.
GreenIsExact ==
  TestsPass(Tree) =>
    \A b \in Books : \A f \in Files :
      golden[b][f] = IF source[b] = Absent THEN Absent ELSE Rendered(lib, f, source[b])

\* A tool that fails or is killed needs nothing but to be run again: when the author has stopped
\* and every book can be built, the goldens match the sources again and again.
Repaired == []<>(Mirrors(Tree) \/ \E b \in SourceDirs(source) : source[b] \notin Buildable)

-----------------------------------------------------------------------------
(***************************************************************************)
(* The inductive invariant.                                                *)
(***************************************************************************)
\* What the tool holds at each place in its code.
ToolState ==
  /\ pc # "idle" => imported \in Libraries
  /\ pc \in {"reading", "writing", "truncated"} => book \in Books \ todo
  /\ pc \in {"idle", "choosing"} => book = Absent
  /\ pc = "reading" => /\ at \in 0..NumScenes + 1
                       /\ \A p \in Parts : p < at => snap[p] \in Contents
  /\ pc = "writing" => at \in 1..NumFiles + 1
  /\ pc = "truncated" => at \in Files
  /\ pc \in {"writing", "truncated"} => snap \in Buildable

\* What an undisturbed run has read is what the source still says.
CleanRead ==
  clean /\ pc # "idle" =>
    /\ imported = lib
    /\ todo \subseteq SourceDirs(source)
    /\ pc = "reading" => /\ source[book] # Absent
                         /\ \A p \in Parts : p < at => snap[p] = source[book][p]
    /\ pc \in {"writing", "truncated"} => snap = source[book]

\* What an undisturbed run has written is as it should be: the books it has done, and of the
\* present book the goldens before the next one.
CleanWritten ==
  clean /\ pc # "idle" =>
    /\ \A b \in SourceDirs(source) \ (todo \cup {book}) : \A f \in Files :
         golden[b][f] = Rendered(lib, f, source[b])
    /\ pc \in {"writing", "truncated"} =>
         \A f \in Files : f < at => golden[book][f] = Rendered(lib, f, source[book])
    /\ pc = "truncated" => golden[book][at] = Torn

\* The invariant of the tool: how far it has got, and, if nothing disturbs it, how much of the
\* tree is up to date by then.
IInv ==
  /\ TypeOK
  /\ ToolState
  /\ GoldensOfBuildable
  /\ CleanRead
  /\ CleanWritten
  /\ CompletedRunMirrors

-----------------------------------------------------------------------------
\* The run as Freshness sees it.
Run == IF pc = "idle" THEN "idle" ELSE IF clean THEN "clean" ELSE "dirty"

Abstract == INSTANCE Freshness WITH fresh <- Mirrors(Tree), run <- Run

\* build_fixtures does what a regeneration tool promises.
KeepsFreshness == Abstract!Spec

=============================================================================
