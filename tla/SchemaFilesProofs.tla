-------------------------- MODULE SchemaFilesProofs --------------------------
(***************************************************************************)
(* Theorems about SchemaFiles, for every set of names and of shapes.       *)
(***************************************************************************)
EXTENDS SchemaFiles, TLAPS

\* The repository as committed satisfies the invariant.
LEMMA InitInv == Init => IInv
BY SchemaFilesAssumption
   DEF Init, IInv, TypeOK, ToolState, TornElsewhere, CleanWritten, Types, Nothing

\* An edit disturbs the run, and touches no schema except to delete it.
LEMMA AuthorInv == IInv /\ Author => IInv'
<1>. SUFFICES ASSUME IInv, NEW n \in TypeNames,
                     DeleteSchema(n) \/ \E s \in Shapes \cup {Absent} : EditType(n, s)
              PROVE  IInv'
  BY DEF Author
<1>1. clean' = FALSE /\ UNCHANGED <<toolVars, exit, kills>> /\ edits' \in Nat
  BY DEF DeleteSchema, EditType, Edit, IInv, TypeOK
<1>2. /\ types' \in Types
      /\ schema' \in [TypeNames -> Renderable \cup {Absent, Torn}]
      /\ \A m \in TypeNames : schema'[m] \in {schema[m], Absent}
  BY DEF DeleteSchema, EditType, IInv, TypeOK, Types
<1>3. TornElsewhere'
  BY <1>1, <1>2, SchemaFilesAssumption DEF IInv, TornElsewhere, toolVars
<1>. QED
  BY <1>1, <1>2, <1>3 DEF IInv, TypeOK, ToolState, CleanWritten, toolVars

\* A run begins with all it has to write before it.
LEMMA StartInv == IInv /\ Start => IInv'
BY DEF IInv, TypeOK, ToolState, TornElsewhere, CleanWritten, Start, Types, Named

\* The next file is torn; the files the run has come past stay as they are.
LEMMA TruncateInv == ASSUME NEW n \in TypeNames, IInv, Truncate(n) PROVE IInv'
<1>1. /\ schema \in [TypeNames -> Renderable \cup {Absent, Torn}]
      /\ schema' = [schema EXCEPT ![n] = Torn] /\ name' = n /\ todo' = todo \ {n} /\ n \in todo
      /\ name = Absent /\ Absent \notin TypeNames
  BY SchemaFilesAssumption DEF IInv, TypeOK, ToolState, Truncate, IsNext
<1>2. TypeOK'
  BY <1>1 DEF IInv, TypeOK, Truncate
<1>3. ToolState'
  BY <1>1 DEF ToolState, Truncate
<1>4. TornElsewhere'
  BY <1>1 DEF IInv, TornElsewhere, Truncate
<1>5. CleanWritten'
  BY <1>1 DEF IInv, CleanWritten, Truncate, Named
<1>. QED
  BY <1>2, <1>3, <1>4, <1>5 DEF IInv

\* The file that was open holds its schema.
LEMMA WriteInv == ASSUME IInv, Write PROVE IInv'
<1>1. /\ schema \in [TypeNames -> Renderable \cup {Absent, Torn}]
      /\ name \in TypeNames /\ name' = Absent /\ imported[name] \in Renderable
      /\ pc' = "choosing" /\ Absent \notin TypeNames
  BY SchemaFilesAssumption DEF IInv, TypeOK, ToolState, Write
<1>2. /\ schema' \in [TypeNames -> Renderable \cup {Absent, Torn}]
      /\ \A n \in TypeNames : n # name => schema'[n] = schema[n]
      /\ schema'[name] # Torn
      /\ schema[name] = Torn => schema'[name] = imported[name]
  BY <1>1, SchemaFilesAssumption DEF Write
<1>3. TypeOK' /\ ToolState'
  BY <1>1, <1>2 DEF IInv, TypeOK, ToolState, Write
<1>4. TornElsewhere'
  BY <1>1, <1>2 DEF IInv, TornElsewhere, Write
<1>5. CleanWritten'
  BY <1>1, <1>2 DEF IInv, CleanWritten, Write, Named
<1>. QED
  BY <1>3, <1>4, <1>5 DEF IInv

\* A run that ends, well or not, leaves the files alone; only a killed one may leave one torn.
LEMMA ExitInv == ASSUME IInv, Complete \/ Raise \/ Kill PROVE IInv'
<1>1. /\ pc' = "idle" /\ imported' = Nothing /\ todo' = {} /\ name' = Absent
      /\ exit' \in {"ok", "failed"} /\ UNCHANGED <<types, schema, clean, edits>>
      /\ kills' \in Nat /\ (kills' > 0 \/ (kills' = kills /\ pc = "choosing"))
  BY DEF Complete, Raise, Kill, Exit, IInv, TypeOK
<1>2. TypeOK' /\ ToolState' /\ CleanWritten'
  BY <1>1 DEF IInv, TypeOK, ToolState, CleanWritten, Types, Nothing
<1>3. TornElsewhere'
  BY <1>1 DEF IInv, TypeOK, TornElsewhere, ToolState
<1>. QED
  BY <1>2, <1>3 DEF IInv

\* The invariant of the tool holds in every state of every behaviour.
THEOREM SchemaFilesInvariant == Spec => []IInv
<1>1. Init => IInv
  BY InitInv
<1>2. IInv /\ [Next]_vars => IInv'
  <2>. SUFFICES ASSUME IInv, [Next]_vars PROVE IInv'
    OBVIOUS
  <2>1. CASE Author
    BY <2>1, AuthorInv
  <2>2. CASE Start
    BY <2>2, StartInv
  <2>3. CASE Working \/ Kill
    BY <2>3, TruncateInv, WriteInv, ExitInv DEF Working
  <2>4. CASE UNCHANGED vars
    BY <2>4 DEF vars, toolVars, IInv, TypeOK, ToolState, TornElsewhere, CleanWritten, Named
  <2>. QED
    BY <2>1, <2>2, <2>3, <2>4 DEF Next
<1>. QED
  BY <1>1, <1>2, PTL DEF Spec

\* A run that raises half way leaves whole files: each schema is rendered before its file is
\* opened.
THEOREM TornFilesComeFromKills == Spec => []TornOnlyByKill
<1>1. IInv => TornOnlyByKill
  BY SchemaFilesAssumption DEF IInv, ToolState, TornElsewhere, TornOnlyByKill
<1>. QED
  BY <1>1, SchemaFilesInvariant, PTL

\* After the last type of an undisturbed run, every type has its schema.
LEMMA LoopEnd == ASSUME IInv, pc = "choosing", todo = {}, clean PROVE Generated
BY SchemaFilesAssumption DEF IInv, ToolState, CleanWritten, Generated, Named

\* Every step of author and tool is a step of Freshness, or leaves it alone.
LEMMA NextRefines == IInv /\ [Next]_vars => [Abstract!Next]_(Abstract!vars)
<1>. SUFFICES ASSUME IInv, [Next]_vars PROVE [Abstract!Next]_(Abstract!vars)
  OBVIOUS
<1>0. Generated' \in BOOLEAN
  BY DEF Generated
<1>1. UNCHANGED <<types, schema>> => Generated' = Generated
  BY DEF Generated, Named
<1>2. CASE Author
  <2>1. clean' = FALSE /\ UNCHANGED <<pc, exit>>
    BY <1>2 DEF Author, DeleteSchema, EditType, Edit, toolVars
  <2>2. Run' = IF Run = "idle" THEN "idle" ELSE "dirty"
    BY <2>1 DEF Run
  <2>. QED
    BY <1>0, <2>1, <2>2 DEF Abstract!Next, Abstract!Edit
<1>3. CASE Start
  BY <1>1, <1>3 DEF Start, Run, Abstract!Next, Abstract!Start
<1>4. CASE (\E n \in TypeNames : Truncate(n)) \/ Write
  <2>1. UNCHANGED <<clean, exit>> /\ pc # "idle" /\ pc' # "idle"
    BY <1>4 DEF Truncate, Write
  <2>2. Run # "idle" /\ UNCHANGED <<Run, exit>>
    BY <2>1 DEF Run
  <2>. QED
    BY <1>0, <2>2 DEF Abstract!Next, Abstract!Work
<1>5. CASE Complete
  <2>1. /\ UNCHANGED <<types, schema>> /\ pc = "choosing" /\ todo = {}
        /\ pc' = "idle" /\ exit' = "ok"
    BY <1>5 DEF Complete, Exit
  <2>2. Run = "clean" => Generated
    BY <2>1, LoopEnd DEF Run
  <2>3. Run # "idle" /\ Run' = "idle"
    BY <2>1 DEF Run
  <2>. QED
    BY <1>1, <2>1, <2>2, <2>3 DEF Abstract!Next, Abstract!Complete
<1>6. CASE Raise \/ Kill
  <2>1. UNCHANGED <<types, schema>> /\ pc # "idle" /\ pc' = "idle" /\ exit' = "failed"
    BY <1>6 DEF Raise, Kill, Exit
  <2>2. Run # "idle" /\ Run' = "idle"
    BY <2>1 DEF Run
  <2>. QED
    BY <1>1, <2>1, <2>2 DEF Abstract!Next, Abstract!Abort
<1>7. CASE UNCHANGED vars
  BY <1>1, <1>7 DEF vars, toolVars, Run, Abstract!vars
<1>. QED
  BY <1>2, <1>3, <1>4, <1>5, <1>6, <1>7 DEF Next, Working

\* generate_schemas implements Freshness: schemas go stale only by an edit or while it works, and
\* an undisturbed run that ends well leaves a schema for each type.
THEOREM GenerateSchemasKeepsFreshness == Spec => KeepsFreshness
<1>1. Init => Abstract!Init
  BY DEF Init, Abstract!Init, Generated, Named, Run
<1>2. IInv /\ [Next]_vars => [Abstract!Next]_(Abstract!vars)
  BY NextRefines
<1>. QED
  BY <1>1, <1>2, SchemaFilesInvariant, PTL DEF Spec, KeepsFreshness, Abstract!Spec

=============================================================================
