-------------------------- MODULE MCSourcePatches --------------------------
(***************************************************************************)
(* lib and turn stand for the upstream files several tools edit, cli for   *)
(* one that a single tool edits, module for harnessmm.rs.                  *)
(***************************************************************************)
EXTENDS SourcePatches

CONSTANTS lib, turn, cli, module

MCToolsOf == [windows |-> <<"windows", "harnessmm">>, linux |-> <<"guardian", "nodaemon">>]
MCEditsOf == [windows |-> {lib, turn, cli}, harnessmm |-> {lib, turn, module},
              guardian |-> {lib, turn}, nodaemon |-> {lib, cli}]
=============================================================================
