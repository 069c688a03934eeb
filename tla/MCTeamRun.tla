------------------------------- MODULE MCTeamRun -------------------------------
(* Instances of TeamRun: every constant is given in the .cfg.                *)
EXTENDS TeamRun
=============================================================================
