----------------------------- MODULE MCResponder -----------------------------
(* Small instances of Responder for TLC. *)
EXTENDS Responder
==============================================================================
