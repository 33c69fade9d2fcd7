---------------------------- MODULE ReleaseProofs ----------------------------
(***************************************************************************)
(* Proofs about Release, for every set of commits.                         *)
(***************************************************************************)
EXTENDS Release, LexOrderProofs

\* The last wheel by name is opened, and its names are compared with the tool's list.
LEMMA OpenedWheel ==
  ASSUME NEW wheels, DOMAIN wheels \subseteq Seq(Nat), NEW v \in DOMAIN wheels,
         \A w \in DOMAIN wheels : ~LexLess(v, w), NEW listed
  PROVE  CheckWheels(wheels, listed) = IF (listed \X Files) \ DOMAIN wheels[v] # {} THEN 1 ELSE 0
<1>1. v = CHOOSE x \in DOMAIN wheels : \A w \in DOMAIN wheels : ~LexLess(x, w)
  BY LastIsChosen
<1>2. DOMAIN wheels # {}
  OBVIOUS
<1> QED BY <1>1, <1>2 DEF CheckWheels

LEMMA VerdictType ==
  ASSUME NEW wheels, NEW listed
  PROVE  CheckWheels(wheels, listed) \in 0..None
BY DEF CheckWheels, None

LEMMA NoWheelsAtFirst == DOMAIN NoWheels = {} /\ None \in 0..None
BY DEF NoWheels, None

LEMMA InitIInv == Init => IInv
BY NoWheelsAtFirst DEF Init, IInv

LEMMA NextIInv == IInv /\ [Next]_vars => IInv'
<1> SUFFICES ASSUME IInv, [Next]_vars PROVE IInv'
  OBVIOUS
<1>1. CASE \E c \in Commits : Checkout(c)
  <2>1. PICK c \in Commits : Checkout(c)
    BY <1>1
  <2>2. /\ commit' \in Commits /\ ci' = ci
        /\ tests' = "none" /\ built' = FALSE /\ verdict' = None
    BY <2>1 DEF Checkout
  <2>3. /\ DOMAIN dist' \subseteq {x.version : x \in Commits}
        /\ ci => DOMAIN dist' = {}
    BY <2>1, NoWheelsAtFirst DEF Checkout, IInv
  <2> QED BY <2>2, <2>3, NoWheelsAtFirst DEF IInv
<1>2. CASE RunTests
  <2>1. UNCHANGED <<ci, commit, dist, built, verdict>>
    BY <1>2 DEF RunTests
  <2>2. tests' \in {"none", "passed", "failed"} /\ (tests' = "passed" => TestsPass(commit.tree))
    BY <1>2 DEF RunTests
  <2> QED BY <2>1, <2>2 DEF IInv, Wheel
<1>3. CASE BuildWheel
  <2>1. /\ UNCHANGED <<ci, commit, tests, verdict>> /\ built' = TRUE /\ ~built
        /\ DOMAIN dist' = DOMAIN dist \cup {commit.version}
        /\ dist'[commit.version] = Wheel(commit)
    BY <1>3 DEF BuildWheel
  <2>2. verdict' = None
    BY <2>1 DEF IInv
  <2>3. Wheel(commit)' = Wheel(commit)
    BY <2>1 DEF Wheel
  <2>4. DOMAIN dist' \subseteq {c.version : c \in Commits}
    BY <2>1 DEF IInv
  <2>5. ci => DOMAIN dist' = {commit.version}
    BY <2>1 DEF IInv
  <2> QED BY <2>1, <2>2, <2>3, <2>4, <2>5 DEF IInv
<1>4. CASE CheckWheel
  <2>1. UNCHANGED <<ci, commit, tests, dist, built>> /\ built
    BY <1>4 DEF CheckWheel
  <2>2. verdict' = CheckWheels(dist, commit.listed)
    BY <1>4 DEF CheckWheel
  <2>3. verdict' \in 0..None
    BY <2>2, VerdictType
  <2> QED BY <2>1, <2>2, <2>3 DEF IInv, Wheel
<1>5. CASE UNCHANGED vars
  BY <1>5 DEF vars, IInv, Wheel
<1> QED BY <1>1, <1>2, <1>3, <1>4, <1>5 DEF Next

\* What is known of a commit is about that commit, in CI and in a working tree.
THEOREM ReleaseInvariant == Spec => []IInv
<1> QED BY InitIInv, NextIInv, PTL DEF Spec

\* Where the wheel that was built comes last by name, as it does in CI, where it is alone, the
\* tool's verdict is about it.
LEMMA CheckedWheel ==
  ASSUME IInv, verdict # None, ci \/ LastByName
  PROVE  /\ dist[commit.version] = Wheel(commit)
         /\ verdict = 0 <=> commit.listed \X Files \subseteq DOMAIN Wheel(commit)
<1>1. /\ built /\ commit.version \in DOMAIN dist /\ dist[commit.version] = Wheel(commit)
      /\ verdict = CheckWheels(dist, commit.listed)
  BY DEF IInv
<1>2. DOMAIN dist \subseteq Seq(Nat) /\ commit.version \in Seq(Nat)
  BY ReleaseAssumption DEF IInv
<1>3. \A w \in DOMAIN dist : ~LexLess(commit.version, w)
  <2>1. CASE ci
    <3>1. DOMAIN dist = {commit.version}
      BY <1>1, <2>1 DEF IInv
    <3> QED BY <1>2, <3>1, LexIrreflexive
  <2>2. CASE LastByName
    BY <2>2 DEF LastByName
  <2> QED BY <2>1, <2>2
<1>4. verdict = IF (commit.listed \X Files) \ DOMAIN Wheel(commit) # {} THEN 1 ELSE 0
  BY <1>1, <1>2, <1>3, OpenedWheel
<1> QED BY <1>1, <1>4

\* A commit that is green in both jobs ships the goldens of its own sources, for every commit.
\* (ci.yml; check_wheel_fixtures.py)
THEOREM GreenCommitsShip == Spec => []GreenIsShipped
<1>1. IInv => GreenIsShipped
  <2> SUFFICES ASSUME IInv, tests = "passed", verdict = 0, ci \/ LastByName,
                      NEW b \in commit.tree.ids \cap commit.listed, NEW f \in Files
               PROVE  /\ Installed(dist[commit.version], commit.tree.ids, b, f)
                      /\ dist[commit.version][<<b, f>>] =
                           Rendered(commit.tree.lib, f, commit.tree.source[b])
    BY DEF GreenIsShipped
  <2>1. dist[commit.version] = Wheel(commit) /\ <<b, f>> \in DOMAIN Wheel(commit)
    BY CheckedWheel DEF None
  <2>2. Wheel(commit)[<<b, f>>] = commit.tree.golden[b][f]
    BY <2>1 DEF Wheel
  <2>3. b \in SourceDirs(commit.tree.source)
    BY DEF IInv, TestsPass, test_the_accessor_declares_the_same_fixtures
  <2>4. commit.tree.golden[b][f] = Rendered(commit.tree.lib, f, commit.tree.source[b])
    BY <2>3 DEF IInv, TestsPass, test_golden_matches_rebuild
  <2> QED BY <2>1, <2>2, <2>4 DEF Installed
<1> QED BY <1>1, ReleaseInvariant, PTL

\* The verdict is about the wheel that was just built: always in CI, and in a working tree if none
\* there comes later by name.  (check_wheel_fixtures.py)
THEOREM VerdictsAreAboutBuilt == Spec => []VerdictIsAboutBuilt
<1>1. IInv => VerdictIsAboutBuilt
  BY CheckedWheel DEF VerdictIsAboutBuilt
<1> QED BY <1>1, ReleaseInvariant, PTL

=============================================================================
