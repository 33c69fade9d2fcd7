--------------------------- MODULE RegenerateProofs ---------------------------
(***************************************************************************)
(* Theorems about Regenerate, for every set of books, every number of      *)
(* scenes and artifacts, and every notion of what can be built.            *)
(***************************************************************************)
EXTENDS Regenerate, TLAPS

USE DEF Files, Parts

\* What is rendered is an artifact, and neither sentinel is.
LEMMA RenderedFacts ==
  ASSUME NEW l \in Libraries, NEW f \in Files, NEW s \in Sources
  PROVE  /\ Rendered(l, f, s) \in Artifacts
         /\ Rendered(l, f, s) # Absent /\ Rendered(l, f, s) # Torn
<1>1. Rendered(l, f, s) \in Artifacts
  BY DEF Artifacts
<1>. QED
  BY <1>1, SentinelAssumption

\* The repository as committed satisfies the invariant.
LEMMA InitInv == Init => IInv
<1>. SUFFICES ASSUME Init PROVE IInv
  OBVIOUS
<1>1. source \in [Books -> Sources \cup {Absent}]
  BY GoldensAssumption DEF Init
<1>2. \A b \in Books : source[b] # Absent => source[b] \in Buildable /\ source[b] \in Sources
  BY GoldensAssumption DEF Init
<1>3. golden \in [Books -> [Files -> Artifacts \cup {Absent, Torn}]]
  BY <1>2, RenderedFacts DEF Init
<1>4. TypeOK
  BY <1>1, <1>3 DEF Init, TypeOK, SourceDirs, Unread
<1>5. GoldensOfBuildable
  BY <1>2 DEF Init, GoldensOfBuildable
<1>. QED
  BY <1>4, <1>5 DEF Init, IInv, ToolState, CleanRead, CleanWritten, CompletedRunMirrors

\* An edit disturbs the run, and touches no golden except to delete it.
LEMMA AuthorInv == IInv /\ Author => IInv'
<1>. SUFFICES ASSUME IInv, Author PROVE IInv'
  OBVIOUS
<1>1. clean' = FALSE /\ UNCHANGED <<toolVars, exit>>
  BY DEF Author, EditSource, ReplaceBook, EditLibrary, Declare, DeleteGoldens, Edit
<1>2. /\ source' \in [Books -> Sources \cup {Absent}]
      /\ lib' \in Libraries /\ ids' \in SUBSET Books /\ dirs' \in SUBSET Books
      /\ edits' \in Nat /\ kills' \in Nat
  <2>1. CASE \E b \in Books : \E p \in Parts : \E c \in Contents : EditSource(b, p, c)
    <3>1. PICK b \in Books, p \in Parts, c \in Contents : EditSource(b, p, c)
      BY <2>1
    <3>2. source[b] \in Sources /\ [source[b] EXCEPT ![p] = c] \in Sources
      BY <3>1 DEF EditSource, IInv, TypeOK, Sources
    <3>. QED
      BY <3>1, <3>2 DEF EditSource, Edit, IInv, TypeOK
  <2>2. CASE \E b \in Books : \E s \in Sources \cup {Absent} : ReplaceBook(b, s)
    BY <2>2 DEF ReplaceBook, Edit, IInv, TypeOK
  <2>3. CASE \E l \in Libraries : EditLibrary(l)
    BY <2>3 DEF EditLibrary, Edit, IInv, TypeOK
  <2>4. CASE \E S \in SUBSET Books : Declare(S)
    BY <2>4 DEF Declare, Edit, IInv, TypeOK
  <2>5. CASE \E b \in Books : DeleteGoldens(b)
    BY <2>5 DEF DeleteGoldens, Edit, IInv, TypeOK
  <2>. QED
    BY <2>1, <2>2, <2>3, <2>4, <2>5 DEF Author
<1>3. /\ golden' \in [Books -> [Files -> Artifacts \cup {Absent, Torn}]]
      /\ \A b \in Books : \A f \in Files : golden'[b][f] \in {golden[b][f], Absent}
  <2>1. CASE \E b \in Books : DeleteGoldens(b)
    BY <2>1 DEF DeleteGoldens, IInv, TypeOK
  <2>2. CASE ~ \E b \in Books : DeleteGoldens(b)
    BY <2>2 DEF Author, EditSource, ReplaceBook, EditLibrary, Declare, IInv, TypeOK
  <2>. QED
    BY <2>1, <2>2
<1>4. TypeOK'
  BY <1>1, <1>2, <1>3 DEF IInv, TypeOK, toolVars
<1>5. GoldensOfBuildable'
  BY <1>3 DEF IInv, GoldensOfBuildable
<1>6. ToolState'
  BY <1>1 DEF IInv, ToolState, toolVars
<1>. QED
  BY <1>1, <1>4, <1>5, <1>6 DEF IInv, CleanRead, CleanWritten, CompletedRunMirrors

\* A step that leaves tree and goldens alone keeps what GoldensOfBuildable says.
LEMMA QuietStep ==
  ASSUME IInv, UNCHANGED golden
  PROVE  GoldensOfBuildable'
BY DEF IInv, GoldensOfBuildable

LEMMA StartInv == IInv /\ Start => IInv'
<1>. SUFFICES ASSUME IInv, Start PROVE IInv'
  OBVIOUS
<1>1. TypeOK'
  BY DEF IInv, TypeOK, Start, treeVars, SourceDirs
<1>2. GoldensOfBuildable'
  BY QuietStep DEF Start, treeVars
<1>3. /\ pc' = "choosing" /\ imported' = lib /\ todo' = SourceDirs(source)
      /\ source' = source /\ lib' = lib /\ book' = book
  BY DEF Start, treeVars
<1>4. book = Absent
  BY DEF IInv, ToolState, Start
<1>. QED
  BY <1>1, <1>2, <1>3, <1>4 DEF IInv, TypeOK, ToolState, CleanRead, CleanWritten, CompletedRunMirrors, Start

\* The tool goes on to a book that an undisturbed run knows to be there.
LEMMA ChooseInv == ASSUME NEW b \in Books, IInv, Choose(b) PROVE IInv'
<1>1. TypeOK'
  BY DEF IInv, TypeOK, Choose, treeVars
<1>2. GoldensOfBuildable'
  BY QuietStep DEF Choose, treeVars
<1>3. ToolState'
  BY GoldensAssumption DEF IInv, ToolState, Choose
<1>4. CleanRead'
  BY GoldensAssumption DEF IInv, TypeOK, CleanRead, Choose, treeVars, SourceDirs
<1>5. CleanWritten'
  <2>1. SourceDirs(source)' \ (todo' \cup {book'}) \subseteq SourceDirs(source) \ (todo \cup {book})
    BY GoldensAssumption DEF IInv, ToolState, Choose, treeVars, SourceDirs
  <2>. QED
    BY <2>1 DEF IInv, CleanWritten, Choose, treeVars
<1>6. CompletedRunMirrors'
  BY DEF Choose, CompletedRunMirrors
<1>. QED
  BY <1>1, <1>2, <1>3, <1>4, <1>5, <1>6 DEF IInv

\* One more file of the source is in memory.
LEMMA ReadInv == ASSUME IInv, Read PROVE IInv'
<1>0. /\ book \in Books /\ source[book] \in Sources /\ at \in Parts
      /\ snap \in [Parts -> Contents \cup {Absent}]
  BY DEF IInv, TypeOK, ToolState, Read
<1>1. source[book][at] \in Contents /\ snap' = [snap EXCEPT ![at] = source[book][at]]
  BY <1>0 DEF Read, Sources
<1>2. TypeOK'
  BY <1>0, <1>1 DEF IInv, TypeOK, Read, treeVars
<1>3. GoldensOfBuildable'
  BY QuietStep DEF Read, treeVars
<1>4. \A p \in Parts : p < at + 1 => p = at \/ p < at
  BY <1>0, GoldensAssumption
<1>5. ToolState'
  BY <1>0, <1>1, <1>4, GoldensAssumption DEF IInv, ToolState, Read
<1>6. CleanRead'
  BY <1>0, <1>1, <1>4 DEF IInv, CleanRead, Read, treeVars
<1>7. CleanWritten' /\ CompletedRunMirrors'
  BY DEF IInv, CleanWritten, CompletedRunMirrors, Read, treeVars
<1>. QED
  BY <1>2, <1>3, <1>5, <1>6, <1>7 DEF IInv

\* All files are read, and the artifacts are built from what an undisturbed source still says.
LEMMA BuildInv == ASSUME IInv, Build PROVE IInv'
<1>0. book \in Books /\ \A p \in Parts : p < at
  BY GoldensAssumption DEF IInv, ToolState, Build
<1>1. TypeOK'
  BY <1>0 DEF IInv, TypeOK, Build
<1>2. GoldensOfBuildable'
  BY QuietStep DEF Build
<1>3. ToolState'
  BY <1>0, GoldensAssumption DEF IInv, ToolState, Build
<1>4. CleanRead'
  <2>. SUFFICES ASSUME clean PROVE imported = lib /\ todo \subseteq SourceDirs(source) /\ snap = source[book]
    BY DEF CleanRead, Build
  <2>1. /\ imported = lib /\ todo \subseteq SourceDirs(source)
        /\ source[book] # Absent /\ \A p \in Parts : snap[p] = source[book][p]
    BY <1>0 DEF IInv, CleanRead, Build
  <2>2. source[book] \in [Parts -> Contents] /\ snap \in [Parts -> Contents]
    BY <1>0, <2>1, GoldensAssumption DEF IInv, TypeOK, Sources, Build
  <2>3. /\ snap = [p \in Parts |-> snap[p]]
        /\ source[book] = [p \in Parts |-> source[book][p]]
    BY <2>2
  <2>4. [p \in Parts |-> snap[p]] = [p \in Parts |-> source[book][p]]
    BY <2>1
  <2>. QED
    BY <2>1, <2>3, <2>4
<1>5. CleanWritten' /\ CompletedRunMirrors'
  BY GoldensAssumption DEF IInv, CleanWritten, CompletedRunMirrors, Build
<1>. QED
  BY <1>1, <1>2, <1>3, <1>4, <1>5 DEF IInv

\* The next golden of the present book is torn; nothing else changes.
LEMMA TruncateInv == ASSUME IInv, Truncate PROVE IInv'
<1>0. /\ book \in Books /\ at \in Files
      /\ golden \in [Books -> [Files -> Artifacts \cup {Absent, Torn}]]
  BY DEF IInv, TypeOK, ToolState, Truncate
<1>1. golden' = [golden EXCEPT ![book] = [golden[book] EXCEPT ![at] = Torn]]
  BY DEF Truncate
<1>2. TypeOK'
  BY <1>0, <1>1 DEF IInv, TypeOK, Truncate
<1>3. GoldensOfBuildable'
  BY <1>0, <1>1 DEF IInv, GoldensOfBuildable
<1>4. ToolState' /\ CleanRead'
  BY <1>0 DEF IInv, ToolState, CleanRead, Truncate
<1>5. CleanWritten'
  <2>1. \A b \in Books : b # book => golden'[b] = golden[b]
    BY <1>0, <1>1
  <2>2. golden'[book][at] = Torn /\ \A f \in Files : f < at => golden'[book][f] = golden[book][f]
    <3>1. \A f \in Files : f < at => f # at
      BY <1>0, GoldensAssumption
    <3>. QED
      BY <1>0, <1>1, <3>1
  <2>3. \A b \in SourceDirs(source) \ (todo \cup {book}) : b \in Books /\ b # book
    BY DEF SourceDirs
  <2>. QED
    BY <2>1, <2>2, <2>3 DEF IInv, CleanWritten, Truncate
<1>6. CompletedRunMirrors'
  BY DEF CompletedRunMirrors, Truncate
<1>. QED
  BY <1>2, <1>3, <1>4, <1>5, <1>6 DEF IInv

\* The next golden is written from what was read.
LEMMA WriteInv == ASSUME IInv, Write PROVE IInv'
<1>0. /\ book \in Books /\ at \in Files /\ imported \in Libraries /\ snap \in Buildable
      /\ snap \in Sources
      /\ golden \in [Books -> [Files -> Artifacts \cup {Absent, Torn}]]
  BY GoldensAssumption DEF IInv, TypeOK, ToolState, Write
<1>1. /\ golden' \in [Books -> [Files -> Artifacts \cup {Absent, Torn}]]
      /\ \A b \in Books : \A f \in Files :
           golden'[b][f] = IF b = book /\ f = at /\ golden[book][at] = Torn
                           THEN Rendered(imported, at, snap) ELSE golden[b][f]
  <2>1. CASE golden[book][at] = Torn
    <3>1. golden' = [golden EXCEPT ![book] = [golden[book] EXCEPT ![at] = Rendered(imported, at, snap)]]
      BY <2>1 DEF Write
    <3>. QED
      BY <1>0, <2>1, <3>1, RenderedFacts
  <2>2. CASE golden[book][at] # Torn
    BY <1>0, <2>2 DEF Write
  <2>. QED
    BY <2>1, <2>2
<1>2. TypeOK'
  BY <1>0, <1>1 DEF IInv, TypeOK, Write
<1>3. GoldensOfBuildable'
  BY <1>0, <1>1 DEF IInv, GoldensOfBuildable
<1>4. ToolState' /\ CleanRead'
  BY <1>0, GoldensAssumption DEF IInv, ToolState, CleanRead, Write
<1>5. CleanWritten'
  <2>. SUFFICES ASSUME clean
                PROVE  /\ \A b \in SourceDirs(source) \ (todo \cup {book}) : \A f \in Files :
                            golden'[b][f] = Rendered(lib, f, source[b])
                       /\ \A f \in Files : f < at + 1 => golden'[book][f] = Rendered(lib, f, source[book])
    BY DEF CleanWritten, Write
  <2>1. imported = lib /\ snap = source[book] /\ golden[book][at] = Torn
    BY DEF IInv, CleanRead, CleanWritten, Write
  <2>2. \A b \in SourceDirs(source) \ (todo \cup {book}) : b \in Books /\ b # book
    BY DEF SourceDirs
  <2>3. \A f \in Files : f < at => golden[book][f] = Rendered(lib, f, source[book])
    BY DEF IInv, CleanWritten, Write
  <2>4. \A b \in SourceDirs(source) \ (todo \cup {book}) : \A f \in Files :
          golden'[b][f] = Rendered(lib, f, source[b])
    BY <1>1, <2>2 DEF IInv, CleanWritten, Write
  <2>5. \A f \in Files : f < at + 1 => f = at \/ f < at
    BY <1>0, GoldensAssumption
  <2>. QED
    BY <1>0, <1>1, <2>1, <2>3, <2>4, <2>5
<1>6. CompletedRunMirrors'
  BY DEF CompletedRunMirrors, Write
<1>. QED
  BY <1>2, <1>3, <1>4, <1>5, <1>6 DEF IInv

\* The present book is done.
LEMMA NextBookInv == ASSUME IInv, NextBook PROVE IInv'
<1>0. \A f \in Files : f < at
  BY GoldensAssumption DEF IInv, ToolState, NextBook
<1>1. TypeOK' /\ ToolState'
  BY DEF IInv, TypeOK, ToolState, NextBook, treeVars, Unread
<1>2. GoldensOfBuildable'
  BY QuietStep DEF NextBook, treeVars
<1>3. CleanRead' /\ CompletedRunMirrors'
  BY DEF IInv, CleanRead, CompletedRunMirrors, NextBook, treeVars
<1>4. CleanWritten'
  <2>. SUFFICES ASSUME clean, NEW b \in SourceDirs(source) \ todo, NEW f \in Files
                PROVE  golden[b][f] = Rendered(lib, f, source[b])
    BY DEF CleanWritten, NextBook, treeVars
  <2>1. CASE b = book
    BY <1>0, <2>1 DEF IInv, CleanWritten, NextBook
  <2>2. CASE b # book
    BY <2>2 DEF IInv, CleanWritten, NextBook
  <2>. QED
    BY <2>1, <2>2
<1>. QED
  BY <1>1, <1>2, <1>3, <1>4 DEF IInv

\* After the last book of an undisturbed run, all goldens are as they should be.
LEMMA LoopEnd ==
  ASSUME IInv, pc = "choosing", todo = {}, clean
  PROVE  Mirrors(Tree)
<1>1. \A b \in SourceDirs(source) : b # book
  BY GoldensAssumption DEF IInv, ToolState, SourceDirs
<1>2. \A b \in SourceDirs(source) : \A f \in Files : golden[b][f] = Rendered(lib, f, source[b])
  BY <1>1 DEF IInv, CleanWritten
<1>. QED
  BY <1>2 DEF Mirrors, Tree

\* A run that ends, well or not, leaves the tree alone.
LEMMA ExitInv ==
  ASSUME IInv, Complete \/ Raise \/ Kill
  PROVE  IInv'
<1>1. /\ pc' = "idle" /\ todo' = {} /\ book' = Absent /\ at' = 0 /\ snap' = Unread
      /\ imported' = Absent /\ exit' \in {"ok", "failed"}
      /\ UNCHANGED <<treeVars, clean, edits>> /\ kills' \in Nat
  BY DEF Complete, Raise, Kill, Exit, IInv, TypeOK
<1>2. TypeOK' /\ ToolState' /\ CleanRead' /\ CleanWritten'
  BY <1>1 DEF IInv, TypeOK, ToolState, CleanRead, CleanWritten, treeVars, Unread
<1>3. GoldensOfBuildable'
  BY <1>1, QuietStep DEF treeVars
<1>4. CompletedRunMirrors'
  <2>1. CASE Complete
    <3>1. clean => Mirrors(Tree)
      BY <2>1, LoopEnd DEF Complete
    <3>2. Mirrors(Tree)' <=> Mirrors(Tree)
      BY <1>1 DEF Mirrors, Tree, treeVars, SourceDirs
    <3>. QED
      BY <1>1, <3>1, <3>2 DEF CompletedRunMirrors
  <2>2. CASE Raise \/ Kill
    BY <2>2 DEF Raise, Kill, Exit, CompletedRunMirrors
  <2>. QED
    BY <2>1, <2>2
<1>. QED
  BY <1>2, <1>3, <1>4 DEF IInv

\* Nothing changes.
LEMMA StutterInv == IInv /\ UNCHANGED vars => IInv'
BY DEF IInv, TypeOK, ToolState, GoldensOfBuildable, CleanRead, CleanWritten, CompletedRunMirrors,
       Mirrors, Tree, SourceDirs, vars, treeVars, toolVars

\* The invariant of the tool holds in every state of every behaviour.
THEOREM RegenerateInvariant == Spec => []IInv
<1>1. Init => IInv
  BY InitInv
<1>2. IInv /\ [Next]_vars => IInv'
  <2>. SUFFICES ASSUME IInv, [Next]_vars PROVE IInv'
    OBVIOUS
  <2>1. CASE Author
    BY <2>1, AuthorInv
  <2>2. CASE Start
    BY <2>2, StartInv
  <2>3. CASE Working
    BY <2>3, ChooseInv, ReadInv, BuildInv, TruncateInv, WriteInv, NextBookInv, ExitInv DEF Working
  <2>4. CASE Kill
    BY <2>4, ExitInv
  <2>5. CASE UNCHANGED vars
    BY <2>5, StutterInv
  <2>. QED
    BY <2>1, <2>2, <2>3, <2>4, <2>5 DEF Next
<1>. QED
  BY <1>1, <1>2, PTL DEF Spec

\* Running the tool again to its end, undisturbed, repairs whatever a run that was killed or
\* that raised has left, for any number of books, scenes and artifacts.
THEOREM CompletedRunIsComplete == Spec => []CompletedRunMirrors
<1>1. IInv => CompletedRunMirrors
  BY DEF IInv
<1>. QED
  BY <1>1, RegenerateInvariant, PTL

\* No golden is ever written from a source that the builder rejects.
THEOREM NothingFromRejectedSources == Spec => []GoldensOfBuildable
<1>1. IInv => GoldensOfBuildable
  BY DEF IInv
<1>. QED
  BY <1>1, RegenerateInvariant, PTL

\* Green tests mean that golden/ holds the goldens of the present books and nothing else.
THEOREM GreenTreeIsExact == Spec => []GreenIsExact
<1>1. IInv => GreenIsExact
  <2>. SUFFICES ASSUME IInv, TestsPass(Tree), NEW b \in Books, NEW f \in Files
                PROVE  golden[b][f] = IF source[b] = Absent THEN Absent ELSE Rendered(lib, f, source[b])
    BY DEF GreenIsExact
  <2>1. CASE source[b] = Absent
    <3>1. b \notin ids
      BY <2>1 DEF TestsPass, test_the_accessor_declares_the_same_fixtures, Tree, SourceDirs
    <3>. QED
      BY <2>1, <3>1 DEF TestsPass, test_the_accessor_resolves_every_artifact, Tree
  <2>2. CASE source[b] # Absent
    BY <2>2 DEF TestsPass, test_golden_matches_rebuild, Tree, SourceDirs
  <2>. QED
    BY <2>1, <2>2
<1>. QED
  BY <1>1, RegenerateInvariant, PTL

\* A step that leaves source, library and goldens alone does not change what Mirrors says.
LEMMA MirrorsStable ==
  ASSUME UNCHANGED <<source, lib, golden>>
  PROVE  Mirrors(Tree)' = Mirrors(Tree)
BY DEF Mirrors, Tree, SourceDirs

\* The committed tree is fresh.
LEMMA InitRefines == Init => Abstract!Init
<1>. SUFFICES ASSUME Init PROVE Abstract!Init
  OBVIOUS
<1>1. Mirrors(Tree)
  BY DEF Init, Mirrors, Tree, SourceDirs
<1>. QED
  BY <1>1 DEF Init, Abstract!Init, Run

\* Every step of author and tool is a step of Freshness, or leaves it alone.
LEMMA NextRefines == IInv /\ [Next]_vars => [Abstract!Next]_(Abstract!vars)
<1>. SUFFICES ASSUME IInv, [Next]_vars PROVE [Abstract!Next]_(Abstract!vars)
  OBVIOUS
<1>0. Mirrors(Tree)' \in BOOLEAN
  BY DEF Mirrors
<1>1. CASE Author
  <2>1. clean' = FALSE /\ UNCHANGED <<toolVars, exit>>
    BY <1>1 DEF Author, EditSource, ReplaceBook, EditLibrary, Declare, DeleteGoldens, Edit
  <2>2. Run' = IF Run = "idle" THEN "idle" ELSE "dirty"
    BY <2>1 DEF Run, toolVars
  <2>. QED
    BY <1>0, <2>1, <2>2 DEF Abstract!Next, Abstract!Edit
<1>2. CASE Start
  <2>1. Mirrors(Tree)' = Mirrors(Tree)
    BY <1>2, MirrorsStable DEF Start, treeVars
  <2>. QED
    BY <1>2, <2>1 DEF Start, Run, Abstract!Next, Abstract!Start
<1>3. CASE \/ \E b \in Books : Choose(b)
           \/ Read \/ Build \/ NextBook
  <2>1. UNCHANGED <<source, lib, golden, clean, exit>> /\ pc # "idle" /\ pc' # "idle"
    BY <1>3 DEF Choose, Read, Build, NextBook, treeVars
  <2>2. Mirrors(Tree)' = Mirrors(Tree)
    BY <2>1, MirrorsStable
  <2>. QED
    BY <2>1, <2>2 DEF Run, Abstract!vars
<1>4. CASE Truncate \/ Write
  <2>1. UNCHANGED <<clean, exit>> /\ pc # "idle" /\ pc' # "idle"
    BY <1>4 DEF Truncate, Write
  <2>2. Run # "idle" /\ UNCHANGED <<Run, exit>>
    BY <2>1 DEF Run
  <2>. QED
    BY <1>0, <2>2 DEF Abstract!Next, Abstract!Work
<1>5. CASE Complete
  <2>1. /\ UNCHANGED <<source, lib, golden>> /\ pc = "choosing" /\ todo = {}
        /\ pc' = "idle" /\ exit' = "ok"
    BY <1>5 DEF Complete, Exit, treeVars
  <2>2. Mirrors(Tree)' = Mirrors(Tree)
    BY <2>1, MirrorsStable
  <2>3. Run = "clean" => Mirrors(Tree)
    BY <2>1, LoopEnd DEF Run
  <2>4. Run # "idle" /\ Run' = "idle"
    BY <2>1 DEF Run
  <2>. QED
    BY <2>1, <2>2, <2>3, <2>4 DEF Abstract!Next, Abstract!Complete
<1>6. CASE Raise \/ Kill
  <2>1. UNCHANGED <<source, lib, golden>> /\ pc # "idle" /\ pc' = "idle" /\ exit' = "failed"
    BY <1>6 DEF Raise, MustRaise, Kill, Exit, treeVars
  <2>2. Mirrors(Tree)' = Mirrors(Tree)
    BY <2>1, MirrorsStable
  <2>3. Run # "idle" /\ Run' = "idle"
    BY <2>1 DEF Run
  <2>. QED
    BY <2>1, <2>2, <2>3 DEF Abstract!Next, Abstract!Abort
<1>7. CASE UNCHANGED vars
  <2>1. UNCHANGED <<source, lib, golden, pc, clean, exit>>
    BY <1>7 DEF vars, treeVars, toolVars
  <2>2. Mirrors(Tree)' = Mirrors(Tree)
    BY <2>1, MirrorsStable
  <2>. QED
    BY <2>1, <2>2 DEF Run, Abstract!vars
<1>. QED
  BY <1>1, <1>2, <1>3, <1>4, <1>5, <1>6, <1>7 DEF Next, Working

\* build_fixtures implements Freshness: goldens go stale only by an edit or while it works, and
\* an undisturbed run that ends well leaves them fresh.
THEOREM BuildFixturesKeepsFreshness == Spec => KeepsFreshness
<1>1. Init => Abstract!Init
  BY InitRefines
<1>2. IInv /\ [Next]_vars => [Abstract!Next]_(Abstract!vars)
  BY NextRefines
<1>. QED
  BY <1>1, <1>2, RegenerateInvariant, PTL DEF Spec, KeepsFreshness, Abstract!Spec

=============================================================================
