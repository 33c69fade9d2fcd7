----------------------------- MODULE MCExchange ------------------------------
(***************************************************************************)
(* Instances of Exchange for TLC: the sampled writers of module Writers.   *)
(***************************************************************************)
EXTENDS Compatibility, Writers

AllMinors == Minors

=============================================================================
