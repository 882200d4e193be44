---------------------------- MODULE MCGoVerifier ----------------------------
(***************************************************************************)
(* The passports and the edits of MCPassportVerifier before both verifiers.*)
(***************************************************************************)
EXTENDS GoVerifier, MCPassportVerifier
==============================================================================
