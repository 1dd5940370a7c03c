--------------------------- MODULE MCSyncPipeline ---------------------------
(***************************************************************************)
(* Three sources of two SHAs: 1 and 2 differ in the version base only.     *)
(***************************************************************************)
EXTENDS SyncPipeline

MCShaOf == <<"sha1", "sha1", "sha2">>
TwoShas == <<"sha1", "sha2">>
OneSha == <<"sha1">>
BadSecondRecipe == {<<"sha1", 2>>}
=============================================================================
