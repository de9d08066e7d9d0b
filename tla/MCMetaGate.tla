----------------------------- MODULE MCMetaGate -----------------------------
(* The gate with a handful of concurrent calls.                             *)
EXTENDS MetaGate
=============================================================================
