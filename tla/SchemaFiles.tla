----------------------------- MODULE SchemaFiles -----------------------------
(***************************************************************************)
(* tools/generate_schemas.py at work in a tree whose dataclasses an author *)
(* edits, and tests/test_schemas.py, which compares schemas/ with the      *)
(* dataclasses.  The tool renders one schema after the other, in the order *)
(* of their names, and writes each by truncating the file and then writing *)
(* it.  It deletes nothing, and may be killed between any two steps.       *)
(*                                                                         *)
(* Numbers stand for the names of ALL_SCHEMA_TYPES, ordered as sorted()    *)
(* orders them.  What the dataclasses behind a name say is a shape, and a  *)
(* schema is the shape it was rendered from (SchemaGen).                   *)
(***************************************************************************)
EXTENDS Naturals

CONSTANTS
  TypeNames,   \* the names that ALL_SCHEMA_TYPES may have
  Shapes,      \* what the dataclasses behind a name may say
  Renderable,  \* the shapes for which json_schema does not raise TypeError
  Absent,      \* there is no such name, or no such file
  Torn,        \* an empty file, or one cut off
  MaxEdits,    \* bound on the author's edits
  MaxKills     \* bound on the runs that are killed

ASSUME SchemaFilesAssumption ==
  /\ TypeNames \subseteq Nat /\ Absent \notin TypeNames
  /\ Renderable \subseteq Shapes /\ Absent \notin Shapes /\ Torn \notin Shapes /\ Absent # Torn
  /\ MaxEdits \in Nat /\ MaxKills \in Nat

VARIABLES
  types,     \* ALL_SCHEMA_TYPES: the shape behind each name, Absent where there is none
  schema,    \* schemas/: what each file holds
  pc,        \* where generate_schemas is
  imported,  \* the types the running tool imported
  todo,      \* the names it has yet to come to
  name,      \* the name whose file is open
  clean,     \* no edit since the last run began
  exit,      \* how the last run ended
  edits, kills

toolVars == <<pc, imported, todo, name>>
vars     == <<types, schema, toolVars, clean, exit, edits, kills>>

Types    == [TypeNames -> Shapes \cup {Absent}]
Named(t) == {n \in TypeNames : t[n] # Absent}
Nothing  == [n \in TypeNames |-> Absent]

TypeOK ==
  /\ types \in Types /\ imported \in Types
  /\ schema \in [TypeNames -> Renderable \cup {Absent, Torn}]
  /\ pc \in {"idle", "choosing", "truncated"}
  /\ todo \in SUBSET TypeNames
  /\ name \in TypeNames \cup {Absent}
  /\ clean \in BOOLEAN
  /\ exit \in {"none", "ok", "failed"}
  /\ edits \in Nat /\ kills \in Nat

\* The repository as committed: there is a schema for each type.
Init ==
  /\ types \in [TypeNames -> Renderable \cup {Absent}]
  /\ schema = types
  /\ pc = "idle" /\ imported = Nothing /\ todo = {} /\ name = Absent
  /\ clean = TRUE /\ exit = "none"
  /\ edits = 0 /\ kills = 0

(***************************************************************************)
(* The author.                                                             *)
(***************************************************************************)
Edit == edits < MaxEdits /\ edits' = edits + 1 /\ clean' = FALSE /\ UNCHANGED <<toolVars, exit, kills>>

\* Edits the dataclasses behind a name, adds a name or removes one.
EditType(n, s) ==
  /\ Edit
  /\ types' = [types EXCEPT ![n] = s]
  /\ UNCHANGED schema

\* Deletes a schema.
DeleteSchema(n) ==
  /\ Edit
  /\ schema' = [schema EXCEPT ![n] = Absent]
  /\ UNCHANGED types

Author == \E n \in TypeNames : DeleteSchema(n) \/ \E s \in Shapes \cup {Absent} : EditType(n, s)

(***************************************************************************)
(* generate_schemas.main                                                   *)
(***************************************************************************)
Start ==
  /\ pc = "idle"
  /\ pc' = "choosing" /\ imported' = types /\ todo' = Named(types) /\ clean' = TRUE
  /\ UNCHANGED <<types, schema, name, exit, edits, kills>>

IsNext(n) == n \in todo /\ \A m \in todo : n <= m

\* Mutant: a file that is already there is left alone.
TruncateNew(n) ==
  /\ pc = "choosing" /\ IsNext(n) /\ imported[n] \in Renderable
  /\ pc' = "truncated" /\ name' = n /\ todo' = todo \ {n}
  /\ schema' = [schema EXCEPT ![n] = IF @ = Absent THEN Torn ELSE @]
  /\ UNCHANGED <<types, imported, clean, exit, edits, kills>>

\* The next type, in sorted order: its schema is rendered, and write_text opens the file.
Truncate(n) ==
  /\ pc = "choosing" /\ IsNext(n) /\ imported[n] \in Renderable
  /\ pc' = "truncated" /\ name' = n /\ todo' = todo \ {n}
  /\ schema' = [schema EXCEPT ![n] = Torn]
  /\ UNCHANGED <<types, imported, clean, exit, edits, kills>>

\* ... and writes it, unless the file was deleted in between.
Write ==
  /\ pc = "truncated"
  /\ pc' = "choosing" /\ name' = Absent
  /\ schema' = IF schema[name] = Torn THEN [schema EXCEPT ![name] = imported[name]] ELSE schema
  /\ UNCHANGED <<types, imported, todo, clean, exit, edits, kills>>

\* The process is gone, and what it held in memory.
Exit(outcome) ==
  /\ pc' = "idle" /\ exit' = outcome
  /\ imported' = Nothing /\ todo' = {} /\ name' = Absent

Complete ==
  /\ pc = "choosing" /\ todo = {}
  /\ Exit("ok")
  /\ UNCHANGED <<types, schema, clean, edits, kills>>

\* Mutant: a type that cannot be rendered ends the loop and not the tool.
RaiseSwallowed ==
  /\ pc = "choosing" /\ \E n \in todo : IsNext(n) /\ imported[n] \notin Renderable
  /\ Exit("ok")
  /\ UNCHANGED <<types, schema, clean, edits, kills>>

\* Mutant: the file is opened before the schema is rendered.
RaiseWithFileOpen ==
  /\ pc = "choosing"
  /\ \E n \in todo : /\ IsNext(n) /\ imported[n] \notin Renderable
                    /\ schema' = [schema EXCEPT ![n] = Torn]
  /\ Exit("failed")
  /\ UNCHANGED <<types, clean, edits, kills>>

\* The next type cannot be rendered: the schemas before it are written, the others are not.
Raise ==
  /\ pc = "choosing" /\ \E n \in todo : IsNext(n) /\ imported[n] \notin Renderable
  /\ Exit("failed")
  /\ UNCHANGED <<types, schema, clean, edits, kills>>

Kill ==
  /\ pc # "idle" /\ kills < MaxKills
  /\ Exit("failed") /\ kills' = kills + 1
  /\ UNCHANGED <<types, schema, clean, edits>>

Working == (\E n \in TypeNames : Truncate(n)) \/ Write \/ Complete \/ Raise

Next == Author \/ Start \/ Working \/ Kill

Spec == Init /\ [][Next]_vars

-----------------------------------------------------------------------------
\* Every type of today has the schema its dataclasses give, as test_committed_schema_matches_generated
\* asks.  A schema whose type was renamed or removed is nobody's concern: it stays.
Generated == \A n \in Named(types) : schema[n] = types[n]

\* The tool is sequential code that waits for nothing, and it is run again while the drift test
\* says "run tools/generate_schemas.py".
FairSpec == Spec /\ WF_vars(Working) /\ WF_vars(~Generated /\ Start)

\* A schema is replaced as a whole or not at all by a run that raises: it leaves no torn file,
\* so that a file is torn only if a run was killed or is at work on it.
TornOnlyByKill ==
  (\E n \in TypeNames : schema[n] = Torn) => kills > 0 \/ pc = "truncated"

\* A tool that raises or is killed needs nothing but to be run again: when the author has stopped
\* and every type can be rendered, the schemas match the dataclasses again and again.
Regenerated == []<>(Generated \/ \E n \in Named(types) : types[n] \notin Renderable)

-----------------------------------------------------------------------------
(***************************************************************************)
(* The inductive invariant, and the abstract specification.                *)
(***************************************************************************)
\* What the tool holds at each place in its code.
ToolState ==
  /\ pc = "truncated" => name \in TypeNames \ todo /\ imported[name] \in Renderable
  /\ pc # "truncated" => name = Absent

\* Only a run that was killed has left a torn file; the one at work has its own open.
TornElsewhere == \A n \in TypeNames \ {name} : schema[n] = Torn => kills > 0

\* What an undisturbed run has come past is as it should be.
CleanWritten ==
  clean /\ pc # "idle" =>
    /\ imported = types
    /\ \A n \in Named(types) \ (todo \cup {name}) : schema[n] = types[n]
    /\ pc = "truncated" => schema[name] = Torn

\* The invariant of the tool: how far it has got, and, if nothing disturbs it, how much of
\* schemas/ is up to date by then.
IInv == TypeOK /\ ToolState /\ TornElsewhere /\ CleanWritten

\* The run as Freshness sees it.
Run == IF pc = "idle" THEN "idle" ELSE IF clean THEN "clean" ELSE "dirty"

Abstract == INSTANCE Freshness WITH fresh <- Generated, run <- Run

\* generate_schemas does what a regeneration tool promises: an undisturbed run that ends well
\* leaves a schema for each type of today.
KeepsFreshness == Abstract!Spec

=============================================================================
