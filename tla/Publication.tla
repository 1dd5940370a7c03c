----------------------------- MODULE Publication -----------------------------
(***************************************************************************)
(* What publishing comes to if a run has the tag to itself, and what       *)
(* SyncPipeline takes it for: the release is announced, cleared if the tag *)
(* is the rolling one, and gets the run's files one by one, each in place  *)
(* of what had its name. Clearing and replacing are single steps. A        *)
(* publication may fail anywhere; it leaves what its last step began with, *)
(* made of it, or had deleted for it. Then it may begin again.             *)
(***************************************************************************)
EXTENDS Sequences

CONSTANT Names

VARIABLES
    clears,    (* whether the release is cleared first                       *)
    files,     (* the files of the run, in upload order                      *)
    step,      (* the step at hand; "absent" if nobody has the tag to itself *)
    todo,      (* the files still to upload                                  *)
    names,     (* the files there are                                        *)
    announced  (* the release has the run's card                             *)

vars == <<clears, files, step, todo, names, announced>>

Init ==
    /\ clears \in BOOLEAN
    /\ files \in Seq(Names) \ {<<>>}
    /\ step \in {"announce", "absent"}
    /\ todo = files
    /\ names \in SUBSET Names
    /\ announced = FALSE

Announce ==
    /\ step = "announce"
    /\ step' = IF clears THEN "clear" ELSE "upload"
    /\ announced' = TRUE
    /\ UNCHANGED <<clears, files, todo, names>>

Clear ==
    /\ step = "clear"
    /\ step' = "upload"
    /\ names' = {}
    /\ UNCHANGED <<clears, files, todo, announced>>

Upload ==
    /\ step = "upload"
    /\ names' = names \cup {Head(todo)}
    /\ todo' = Tail(todo)
    /\ step' = IF todo' = <<>> THEN "done" ELSE "upload"
    /\ UNCHANGED <<clears, files, announced>>

(* A request takes effect, but the run does not hear of it. *)
Unheard ==
    /\ \/ step = "announce" /\ announced' = TRUE /\ names' = names
       \/ step = "upload" /\ names' = names \cup {Head(todo)} /\ UNCHANGED announced
    /\ UNCHANGED <<clears, files, step, todo>>

(* What the step at hand may have made of the files when it fails. *)
Left ==
    CASE step = "clear" -> SUBSET names
      [] step = "upload" -> {names, names \ {Head(todo)}, names \cup {Head(todo)}}
      [] OTHER -> {names}

Fail ==
    /\ step \in {"announce", "clear", "upload"}
    /\ step' = "failed"
    /\ todo' = files
    /\ names' \in Left
    /\ announced' \in {announced, announced \/ step = "announce"}
    /\ UNCHANGED <<clears, files>>

Rerun ==
    /\ step = "failed"
    /\ step' = "announce"
    /\ UNCHANGED <<clears, files, todo, names, announced>>

Next == Announce \/ Clear \/ Upload \/ Unheard \/ Fail \/ Rerun

Spec == Init /\ [][Next]_vars
==============================================================================
