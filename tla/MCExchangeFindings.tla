------------------------- MODULE MCExchangeFindings --------------------------
(***************************************************************************)
(* Instances of Exchange for TLC in which a writer departs from the rules  *)
(* of module Compatibility, or a rule of the documentation asks for more   *)
(* than they give.                                                         *)
(***************************************************************************)
EXTENDS SchemaAgreement, Writers

=============================================================================
