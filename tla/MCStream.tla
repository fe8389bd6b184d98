------------------------------ MODULE MCStream ------------------------------
(* One streamed call: three chunks in, four out.                           *)
EXTENDS Stream

=============================================================================
