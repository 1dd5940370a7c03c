---------------------------- MODULE MCHarnessMM ----------------------------
(***************************************************************************)
(* A turn with a few plan calls: one of three commands, one too short, one *)
(* too long, and one with a command outside the limits.                    *)
(***************************************************************************)
EXTENDS HarnessMM

CONSTANTS c1, c2, bad

MCWords == {c1, c2, bad}
MCCommands == {c1, c2}
MCPlans == {<<c1, c2, c1>>, <<c1>>, <<c1, bad>>, <<c1, c2, c1, c2>>}
=============================================================================
