---------------------------- MODULE MCExperiment ----------------------------
(***************************************************************************)
(* The wanted commit's two builds, a repeated build of the candidate, and  *)
(* a build of another commit.                                              *)
(***************************************************************************)
EXTENDS Experiment

CONSTANTS base, cand, again, stray, head, foreign

MCVariantOf == [r \in Runs |-> IF r = base THEN "baseline" ELSE "harnessmm"]
MCHeadOf == [r \in Runs |-> IF r = stray THEN foreign ELSE head]
=============================================================================
