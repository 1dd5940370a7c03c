--------------------------- MODULE MCReleaseProbe ---------------------------
(***************************************************************************)
(* A command that starts a daemon, one that does not, and the worker.      *)
(***************************************************************************)
EXTENDS ReleaseProbe
=============================================================================
