----------------------------- MODULE MCEventHub -----------------------------
(***************************************************************************)
(* Small instances of EventHub for TLC: the cfg gives every constant.      *)
(***************************************************************************)
EXTENDS EventHub
=============================================================================
