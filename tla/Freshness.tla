------------------------------ MODULE Freshness ------------------------------
(***************************************************************************)
(* What a regeneration tool promises: generated files go stale only by an  *)
(* edit or while the tool works on them, and a run that nothing disturbed  *)
(* and that ends well leaves them fresh, whatever state it found them in.  *)
(* tools/build_fixtures.py and tools/generate_schemas.py both implement it.*)
(***************************************************************************)
VARIABLES
  fresh,   \* the generated files are what the present sources give
  run,     \* "idle", or the present run: "clean", or "dirty" once an edit has disturbed it
  exit     \* how the last run ended: "none" before the first, "ok" or "failed"

vars == <<fresh, run, exit>>

Init == fresh = TRUE /\ run = "idle" /\ exit = "none"

\* The author edits: the files may go stale, and may match again.
Edit ==
  /\ fresh' \in BOOLEAN
  /\ run' = (IF run = "idle" THEN "idle" ELSE "dirty")
  /\ UNCHANGED exit

Start == run = "idle" /\ run' = "clean" /\ UNCHANGED <<fresh, exit>>

\* The tool writes.
Work == run # "idle" /\ fresh' \in BOOLEAN /\ UNCHANGED <<run, exit>>

\* The run ends well: undisturbed, it leaves the files fresh.
Complete ==
  /\ run # "idle" /\ (run = "clean" => fresh)
  /\ run' = "idle" /\ exit' = "ok" /\ UNCHANGED fresh

\* The run raises or is killed.
Abort == run # "idle" /\ run' = "idle" /\ exit' = "failed" /\ UNCHANGED fresh

Next == Edit \/ Start \/ Work \/ Complete \/ Abort

Spec == Init /\ [][Next]_vars

=============================================================================
