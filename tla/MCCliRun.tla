------------------------------ MODULE MCCliRun ------------------------------
(***************************************************************************)
(* The smoke cases of both packages and a trial.                           *)
(***************************************************************************)
EXTENDS CliRun

MCKinds == Stopping \cup {"trial", "baseline", "success", "disabled", "metering"}
=============================================================================
