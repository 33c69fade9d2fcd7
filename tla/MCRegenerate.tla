---------------------------- MODULE MCRegenerate ----------------------------
(***************************************************************************)
(* Regenerate with two books of two source files (def.json and a scene)    *)
(* and two artifacts: one built from both files, as the manuscript is, and *)
(* one from def.json only, as the plans are.                               *)
(***************************************************************************)
EXTENDS Regenerate

MCUses == <<{0, 1}, {0}>>

\* The second def.json quotes what only the second text of the scene says.
MCBuildable == {s \in Sources : s[0] = "second" => s[1] = "second"}

=============================================================================
