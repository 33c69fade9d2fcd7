---------------------------- MODULE MCFixtureBuild ----------------------------
(***************************************************************************)
(* A book of two scenes whose definition makes every kind of citation and  *)
(* reference, the same book with one thing wrong at a time, and a book of  *)
(* eleven scenes.                                                          *)
(***************************************************************************)
EXTENDS FixtureBuild, TLC

Scene(id, file) == [id |-> id, file |-> file]
Cite(scene, quote) == [scene |-> scene, quote |-> quote]

Base ==
  [fixture_id |-> "book1", invalid |-> {},
   scenes |-> <<Scene("s1", "f1"), Scene("s2", "f2")>>,
   plans |-> {[id |-> "p"]},
   state_records |-> {[id |-> "r", kind |-> "event", evidence |-> {Cite("s1", <<"a", "a">>)}]},
   gold_findings |-> {[id |-> "f", primary |-> Cite("s1", <<"b">>), supporting |-> {Cite("s2", <<"b">>)},
                       dependencies |-> {"r", "s1", "summary:s1"}, status |-> "open"]},
   derived_nodes |-> {"summary:s1"},
   context_gold |-> {[id |-> "q", target |-> "s2",
                      mandatory |-> {Cite("s1", <<"b">>), [record |-> "r"]},
                      forbidden |-> {[plan |-> "p"]}]},
   impact_gold |-> {[id |-> "i", expected |-> {"f", "q", "book", "p", "entity:e"},
                     operations |-> {Cite("s1", <<"b">>), [scene |-> "s2", anchor_quote |-> <<"b">>],
                                     [entity |-> "e"]}]}]

WithRecord(kind) == [Base EXCEPT !.state_records = {[r EXCEPT !.kind = kind] : r \in @}]
WithDependency(id) == [Base EXCEPT !.gold_findings = {[f EXCEPT !.dependencies = {id}] : f \in @}]
WithMandatory(t) == [Base EXCEPT !.context_gold = {[q EXCEPT !.mandatory = {t}] : q \in @}]
WithOperation(op) == [Base EXCEPT !.impact_gold = {[i EXCEPT !.operations = {op}] : i \in @}]

Eleven ==
  [Base EXCEPT !.scenes = [i \in 1..11 |-> Scene("s" \o ToString(i), "f1")],
               !.state_records = {}, !.gold_findings = {}, !.context_gold = {}, !.impact_gold = {}]

Variants ==
  {Base, Eleven,
   [Base EXCEPT !.scenes = <<Scene("s1", "f2"), Scene("s1", "f1"), Scene("s2", "f2")>>],
   [Base EXCEPT !.invalid = {"init"}], [Base EXCEPT !.invalid = {"plans"}],
   WithRecord("unknown"), WithRecord("thread"),
   WithDependency("nowhere"), WithDependency("f"),
   WithMandatory(Cite("s9", <<"b">>)), WithMandatory([reason |-> "nothing to cite"]),
   WithOperation([scene |-> "s1", anchor_quote |-> <<"c">>]), WithOperation([scene |-> "s9"])}

OneDefinition == {Base}

\* Two line ends, an overlap of "aa" with itself, and a text with two "b" and no "aa".
Texts == {<<"b", LF, "a", "a">>, <<"b", CR, "a", "a">>, <<"a", "a", "a", "b">>, <<"a", "b", "b">>}

\* str.count as it runs: from left to right, and on behind each occurrence.
Count(t, q) ==
  LET count[i \in 0..(Len(t) + 1)] ==
        IF i > Len(t) THEN 0
        ELSE IF i \in Occurrences(t, q) THEN 1 + count[i + (IF q = << >> THEN 1 ELSE Len(q))]
        ELSE count[i + 1]
  IN  count[0]

\* CountedOnce says of it what the builder asks: over every text of at most five characters and
\* every quote of at most three.
Strings(n) == UNION {[1..k -> {"a", "b"}] : k \in 0..n}
ASSUME CountAgrees == \A t \in Strings(5), q \in Strings(3) : CountedOnce(t, q) <=> Count(t, q) = 1
=============================================================================
