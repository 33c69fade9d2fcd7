------------------------------- MODULE Release -------------------------------
(***************************************************************************)
(* From a commit to what its consumers read.  CI checks out a commit and,  *)
(* in two jobs, runs the tests in the source tree, and builds the wheel    *)
(* and opens it with tools/check_wheel_fixtures.py.  Consumers pin the     *)
(* commit, install the wheel that is built from it, and read the goldens   *)
(* through the accessor.  A developer runs the same commands in a working  *)
(* tree, whose dist/ git ignores: there, wheels of earlier builds stay.    *)
(*                                                                         *)
(* A commit has a tree (see Goldens), the goldens that the build backend's *)
(* configuration lets into the wheel (ships), the books that the tool      *)
(* lists (listed) and a version.                                           *)
(***************************************************************************)
EXTENDS Goldens, LexOrder

CONSTANT Commits   \* the commits considered

ASSUME ReleaseAssumption == \A c \in Commits : c.version \in Seq(Nat)

VARIABLES
  ci,       \* is this a runner of CI, where dist/ is empty after a checkout?
  commit,   \* what is checked out
  tests,    \* what pytest said of it: "none", "passed", "failed"
  dist,     \* dist/: the goldens in each wheel, by version
  built,    \* uv build has run since the checkout
  verdict   \* what check_wheel_fixtures has returned since; None before it has
vars == <<ci, commit, tests, dist, built, verdict>>

None == 3

\* What uv build puts into the wheel: the goldens that exist and that the configuration ships.
Wheel(c) ==
  [bf \in {x \in c.ships : c.tree.golden[x[1]][x[2]] # Absent} |-> c.tree.golden[bf[1]][bf[2]]]

NoWheels == [v \in {} |-> {}]

Init ==
  /\ ci \in BOOLEAN
  /\ commit \in Commits
  /\ dist = NoWheels
  /\ tests = "none" /\ built = FALSE /\ verdict = None

\* Mutant: dist/ is kept from one checkout to the next.
CheckoutKeepingDist(c) ==
  /\ commit' = c
  /\ tests' = "none" /\ built' = FALSE /\ verdict' = None
  /\ UNCHANGED <<ci, dist>>

\* Another commit is checked out, or made in the working tree.
Checkout(c) ==
  /\ commit' = c
  /\ dist' = IF ci THEN NoWheels ELSE dist
  /\ tests' = "none" /\ built' = FALSE /\ verdict' = None
  /\ UNCHANGED ci

\* The job "quality".
RunTests ==
  /\ tests = "none"
  /\ tests' = IF TestsPass(commit.tree) THEN "passed" ELSE "failed"
  /\ UNCHANGED <<ci, commit, dist, built, verdict>>

\* uv build --wheel: the wheel of this version replaces the one of the same name.
BuildWheel ==
  /\ ~built
  /\ dist' = [v \in DOMAIN dist \cup {commit.version} |->
                IF v = commit.version THEN Wheel(commit) ELSE dist[v]]
  /\ built' = TRUE
  /\ UNCHANGED <<ci, commit, tests, verdict>>

\* Mutant: the difference is taken the wrong way round.
CheckUnexpected(wheels, listed) ==
  IF DOMAIN wheels = {} THEN 2
  ELSE LET last == CHOOSE v \in DOMAIN wheels : \A w \in DOMAIN wheels : ~LexLess(v, w)
       IN  IF DOMAIN wheels[last] \ (listed \X Files) # {} THEN 1 ELSE 0

\* Mutant: the first wheel is opened.
CheckFirst(wheels, listed) ==
  IF DOMAIN wheels = {} THEN 2
  ELSE LET first == CHOOSE v \in DOMAIN wheels : \A w \in DOMAIN wheels : ~LexLess(w, v)
       IN  IF (listed \X Files) \ DOMAIN wheels[first] # {} THEN 1 ELSE 0

\* main of check_wheel_fixtures.py: 2 without a wheel; otherwise the last one by name is opened,
\* and the result is 1 if a golden is missing.
CheckWheels(wheels, listed) ==
  IF DOMAIN wheels = {} THEN 2
  ELSE LET last == CHOOSE v \in DOMAIN wheels : \A w \in DOMAIN wheels : ~LexLess(v, w)
       IN  IF (listed \X Files) \ DOMAIN wheels[last] # {} THEN 1 ELSE 0

\* The last step of the job "wheel", which runs when the one before it has not failed.
CheckWheel ==
  /\ built /\ verdict = None
  /\ verdict' = CheckWheels(dist, commit.listed)
  /\ UNCHANGED <<ci, commit, tests, dist, built>>

Next ==
  \/ \E c \in Commits : Checkout(c)
  \/ RunTests \/ BuildWheel \/ CheckWheel

Spec == Init /\ [][Next]_vars

-----------------------------------------------------------------------------
\* golden_path does not raise in an installation of the wheel w.
Installed(w, ids, b, f) == b \in ids /\ <<b, f>> \in DOMAIN w

\* No wheel in dist/ comes behind that of this commit by name, as 0.9.0 does behind 0.10.0.
LastByName == \A v \in DOMAIN dist : ~LexLess(commit.version, v)

\* What CI calls green is what consumers get: for a commit that passed both jobs, the accessor of
\* an installation of its wheel finds every artifact of every declared book that the tool lists,
\* and each is what the library of that commit builds from the sources of that commit.  Neither
\* job shows this alone: the tests read the source tree, and the tool only the names of files.
\* (ci.yml; check_wheel_fixtures.py; fixtures/__init__.py)
GreenIsShipped ==
  tests = "passed" /\ verdict = 0 /\ (ci \/ LastByName) =>
    \A b \in commit.tree.ids \cap commit.listed : \A f \in Files :
      /\ Installed(dist[commit.version], commit.tree.ids, b, f)
      /\ dist[commit.version][<<b, f>>] =
           Rendered(commit.tree.lib, f, commit.tree.source[b])

\* "Assert a built wheel actually carries the golden fixtures.  Run after `uv build --wheel`"
\* (check_wheel_fixtures.py:1): run after the build, the tool speaks of the wheel that was built.
\* That is so in CI, and in a working tree only if no other wheel there comes later by name.
VerdictIsAboutBuilt ==
  built /\ verdict # None /\ (ci \/ LastByName) =>
    (verdict = 0 <=> commit.listed \X Files \subseteq DOMAIN dist[commit.version])

\* The inductive invariant: the wheel of this commit is in dist/ once it is built, alone if this
\* is CI, and the results are about this commit.
IInv ==
  /\ ci \in BOOLEAN /\ commit \in Commits
  /\ tests \in {"none", "passed", "failed"} /\ built \in BOOLEAN /\ verdict \in 0..None
  /\ DOMAIN dist \subseteq {c.version : c \in Commits}
  /\ built => commit.version \in DOMAIN dist /\ dist[commit.version] = Wheel(commit)
  /\ ci => DOMAIN dist = IF built THEN {commit.version} ELSE {}
  /\ verdict # None => built /\ verdict = CheckWheels(dist, commit.listed)
  /\ tests = "passed" => TestsPass(commit.tree)

=============================================================================
