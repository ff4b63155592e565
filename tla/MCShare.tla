------------------------------- MODULE MCShare -------------------------------
(***************************************************************************)
(* Instances of MCMatch for the recorder with its round shares.             *)
(***************************************************************************)
EXTENDS RoundShare, MCMatch

\* Fighting in rounds that a defused bomb may decide.
ShareHooks == CombatHooks \cup {"PlantBomb", "DefuseBomb"}
=============================================================================
