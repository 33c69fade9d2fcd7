------------------------------ MODULE SchemaGen ------------------------------
(***************************************************************************)
(* json_schema (_schema.py): the depth-first walk over the dataclasses     *)
(* that a root class mentions, which collects one entry of $defs for each  *)
(* class and enum it meets.  A placeholder entry, made before the walk     *)
(* enters a class and overwritten when it returns, breaks recursion.       *)
(*                                                                         *)
(* A type is its name, which is how the code keys $defs.  The parts of a   *)
(* schema that do not refer to another entry (primitive types, required,   *)
(* enum values) are left out: a schema is the set of the entries that its  *)
(* properties refer to.  The fields of a class are visited in declaration  *)
(* order by the code and in any order here.                                *)
(***************************************************************************)
EXTENDS Naturals, Sequences

CONSTANTS
  Names,      \* the dataclasses and enums
  EnumNames,  \* the enums among them
  Roots,      \* the classes that have a schema of their own
  Root,       \* holds the properties of the schema itself, which is no entry of $defs
  Graphs      \* the catalogues considered: what each name's type hints mention

ASSUME SchemaGenAssumption ==
  /\ EnumNames \subseteq Names /\ Roots \subseteq Names \ EnumNames /\ Root \notin Names
  /\ Graphs \subseteq [Names -> SUBSET Names]
  /\ \A g \in Graphs : \A e \in EnumNames : g[e] = {}

VARIABLES
  uses,     \* the catalogue
  cls,      \* the class whose schema is generated
  defs,     \* the state of each entry of $defs
  props,    \* the references among the properties built for each class so far
  stack,    \* the active calls of dataclass_schema, innermost last
  phase     \* "walking", or "done" when json_schema has returned

vars == <<uses, cls, defs, props, stack, phase>>

Holders == Names \cup {Root}

\* What the hints of the class a holder stands for mention.
Mentions(h) == IF h = Root THEN uses[cls] ELSE uses[h]

\* A call of dataclass_schema: whose properties it builds, and the names it has yet to visit.
Call(h, todo) == [holder |-> h, todo |-> todo]

Top == stack[Len(stack)]

Visited(s, n) == [s EXCEPT ![Len(s)].todo = @ \ {n}]

TypeOK ==
  /\ uses \in Graphs
  /\ cls \in Roots
  /\ defs \in [Names -> {"absent", "placeholder", "complete"}]
  /\ props \in [Holders -> SUBSET Names]
  /\ stack \in Seq([holder : Holders, todo : SUBSET Names]) /\ stack # << >>
  /\ phase \in {"walking", "done"}

\* Mutant: defs outlives a call of json_schema (a mutable default argument).
InitSharedDefs ==
  /\ uses \in Graphs /\ cls \in Roots
  /\ defs = [n \in Names |-> IF n \in EnumNames THEN "complete" ELSE "absent"]
  /\ props = [h \in Holders |-> {}]
  /\ stack = << Call(Root, uses[cls]) >>
  /\ phase = "walking"

Init ==
  /\ uses \in Graphs /\ cls \in Roots
  /\ defs = [n \in Names |-> "absent"]
  /\ props = [h \in Holders |-> {}]
  /\ stack = << Call(Root, uses[cls]) >>
  /\ phase = "walking"

\* type_schema of a name that has an entry: only the $ref.
Refer(n) ==
  /\ phase = "walking" /\ n \in Top.todo /\ defs[n] # "absent"
  /\ stack' = Visited(stack, n)
  /\ props' = [props EXCEPT ![Top.holder] = @ \cup {n}]
  /\ UNCHANGED <<uses, cls, defs, phase>>

\* Mutant: the $ref is returned and the entry not recorded.
DefineEnumUnrecorded(n) ==
  /\ phase = "walking" /\ n \in Top.todo /\ defs[n] = "absent" /\ n \in EnumNames
  /\ stack' = Visited(stack, n)
  /\ props' = [props EXCEPT ![Top.holder] = @ \cup {n}]
  /\ UNCHANGED <<uses, cls, defs, phase>>

\* type_schema of an enum met for the first time.
DefineEnum(n) ==
  /\ phase = "walking" /\ n \in Top.todo /\ defs[n] = "absent" /\ n \in EnumNames
  /\ defs' = [defs EXCEPT ![n] = "complete"]
  /\ stack' = Visited(stack, n)
  /\ props' = [props EXCEPT ![Top.holder] = @ \cup {n}]
  /\ UNCHANGED <<uses, cls, phase>>

\* Mutant: no placeholder before the call.
EnterWithoutPlaceholder(n) ==
  /\ phase = "walking" /\ n \in Top.todo /\ defs[n] = "absent" /\ n \notin EnumNames
  /\ stack' = Append(stack, Call(n, uses[n]))
  /\ UNCHANGED <<uses, cls, defs, props, phase>>

\* Mutant: the same, up to Python's recursion limit (here the fifth call).
EnterUntilLimit(n) ==
  /\ phase = "walking" /\ n \in Top.todo /\ defs[n] = "absent" /\ n \notin EnumNames
  /\ Len(stack) < 5
  /\ stack' = Append(stack, Call(n, uses[n]))
  /\ UNCHANGED <<uses, cls, defs, props, phase>>

\* Mutant: the class is walked whether or not it has an entry.
EnterAlways(n) ==
  /\ phase = "walking" /\ n \in Top.todo /\ defs[n] # "placeholder" /\ n \notin EnumNames
  /\ defs' = [defs EXCEPT ![n] = "placeholder"]
  /\ stack' = Append(stack, Call(n, uses[n]))
  /\ UNCHANGED <<uses, cls, props, phase>>

\* type_schema of a dataclass met for the first time: the placeholder, and the call.
Enter(n) ==
  /\ phase = "walking" /\ n \in Top.todo /\ defs[n] = "absent" /\ n \notin EnumNames
  /\ defs' = [defs EXCEPT ![n] = "placeholder"]
  /\ stack' = Append(stack, Call(n, uses[n]))
  /\ UNCHANGED <<uses, cls, props, phase>>

\* Mutant: the result of dataclass_schema is not stored.
ReturnKeepsPlaceholder ==
  /\ phase = "walking" /\ Top.todo = {} /\ Len(stack) > 1
  /\ LET n      == Top.holder
         caller == SubSeq(stack, 1, Len(stack) - 1)
     IN  /\ stack' = Visited(caller, n)
         /\ props' = [props EXCEPT ![caller[Len(caller)].holder] = @ \cup {n}]
  /\ UNCHANGED <<uses, cls, defs, phase>>

\* dataclass_schema returns: its result replaces the placeholder, and the caller gets the $ref.
Return ==
  /\ phase = "walking" /\ Top.todo = {} /\ Len(stack) > 1
  /\ LET n      == Top.holder
         caller == SubSeq(stack, 1, Len(stack) - 1)
     IN  /\ defs' = [defs EXCEPT ![n] = "complete"]
         /\ stack' = Visited(caller, n)
         /\ props' = [props EXCEPT ![caller[Len(caller)].holder] = @ \cup {n}]
  /\ UNCHANGED <<uses, cls, phase>>

\* The outermost call returns, and json_schema with it.
Finish ==
  /\ phase = "walking" /\ Top.todo = {} /\ Len(stack) = 1
  /\ phase' = "done"
  /\ UNCHANGED <<uses, cls, defs, props, stack>>

Next ==
  \/ \E n \in Names : Refer(n) \/ DefineEnum(n) \/ Enter(n)
  \/ Return
  \/ Finish

Spec == Init /\ [][Next]_vars

\* json_schema is sequential code: as long as it can take a step, it takes one.
FairSpec == Spec /\ WF_vars(Next)

-----------------------------------------------------------------------------
Defined == {n \in Names : defs[n] # "absent"}

\* Every $ref written so far points to an entry of $defs.
RefsResolve == \A h \in Holders : props[h] \subseteq Defined

\* The placeholders are the classes whose schemas are being built: each has one active call,
\* so no class is entered twice, and no placeholder is left behind when its call returns.
PlaceholdersAreActive ==
  /\ \A n \in Names : defs[n] = "placeholder" <=>
       \E i \in 2..Len(stack) : stack[i].holder = n
  /\ \A i, j \in DOMAIN stack : stack[i].holder = stack[j].holder => i = j

Closed(S) == uses[cls] \subseteq S /\ \A n \in S : uses[n] \subseteq S

\* When json_schema returns, the schema is self-contained: every entry of $defs is complete
\* and refers to what its class mentions, and everything mentioned has an entry, recursive and
\* mutually recursive classes included.
SchemaSelfContained ==
  phase = "done" =>
    /\ \A n \in Defined : defs[n] = "complete" /\ props[n] = uses[n]
    /\ props[Root] = uses[cls]
    /\ Closed(Defined)

\* $defs has nothing that the root does not reach: every set of names closed under mention
\* that has what the root mentions has all of $defs.
SchemaMinimal == \A S \in SUBSET Names : Closed(S) => Defined \subseteq S

\* An entry of $defs, once complete, is never touched again (the walk meets shared classes
\* such as ResourceRef many times).
CompleteIsFinal ==
  [][\A n \in Names : defs[n] = "complete" =>
       defs'[n] = "complete" /\ props'[n] = props[n]]_vars

\* The walk over recursive classes ends.
Terminates == <>(phase = "done")

-----------------------------------------------------------------------------
(***************************************************************************)
(* The inductive invariant.                                                *)
(***************************************************************************)
\* The calls nest: the outermost builds the root, and every other one builds a class that its
\* caller is visiting.
CallsNest ==
  /\ stack[1].holder = Root
  /\ \A i \in 2..Len(stack) :
       /\ stack[i].holder \in Names \ EnumNames
       /\ stack[i].holder \in stack[i - 1].todo

\* A call has written a $ref for each name it has visited; a complete entry has them all, and
\* an absent one none.
PropsInProgress ==
  /\ \A i \in 1..Len(stack) :
       props[stack[i].holder] \cup stack[i].todo = Mentions(stack[i].holder)
  /\ \A n \in Names : defs[n] = "complete" => props[n] = uses[n]
  /\ \A n \in Names : defs[n] = "absent" => props[n] = {}

DoneIsUnwound == phase = "done" => Len(stack) = 1 /\ stack[1].todo = {}

\* The invariant of the walk: its parts say which calls are active, which entries they have
\* reserved, and how far each has got.
IInv ==
  /\ TypeOK
  /\ CallsNest
  /\ PlaceholdersAreActive
  /\ PropsInProgress
  /\ RefsResolve
  /\ SchemaMinimal
  /\ DoneIsUnwound

=============================================================================
