---------------------------- MODULE MCRunTimeline ----------------------------
(* Instances of RunTimeline: every constant is a bound given in the .cfg.    *)
EXTENDS RunTimeline
=============================================================================
