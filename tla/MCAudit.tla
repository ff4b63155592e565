------------------------------- MODULE MCAudit -------------------------------
(***************************************************************************)
(* The instances of MCMatch, for the recorder with its history variable.   *)
(***************************************************************************)
EXTENDS MatchAudit, MCMatch
=============================================================================
