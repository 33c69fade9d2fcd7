------------------------------- MODULE LexOrder -------------------------------
(***************************************************************************)
(* The order of strings, as sorted() and sort keys have it: by the first   *)
(* character that differs, a prefix before what it is a prefix of.  A      *)
(* string is the sequence of its characters' codes.                        *)
(***************************************************************************)
EXTENDS Naturals, Sequences

LexLess(k, l) ==
  \E i \in 1..Len(l) :
    /\ \A j \in 1..(i - 1) : j <= Len(k) /\ k[j] = l[j]
    /\ i > Len(k) \/ k[i] < l[i]

=============================================================================
