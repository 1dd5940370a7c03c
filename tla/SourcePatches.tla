---------------------------- MODULE SourcePatches ----------------------------
(***************************************************************************)
(* The patch phase of a sync: the upstream checkout is reset, then each    *)
(* patch tool in turn reads its inputs, plans every edit, rechecks what it *)
(* read and writes the changed files, and rolls back when a write fails.   *)
(*                                                                         *)
(*   windows    patch-codex-windows-custom.ps1 in                          *)
(*              Invoke-SourcePatchTransaction (its guardian and no-daemon  *)
(*              patchers work on the private stage, as part of the plan)   *)
(*   harnessmm  patch-codex-harnessmm.py, which also creates a module      *)
(*   guardian   patch-guardian-section-content.py, on the linux checkout   *)
(*   nodaemon   patch-codex-no-daemon.py, on the linux checkout            *)
(*                                                                         *)
(* Somebody else may edit the checkout meanwhile, a write may fail half    *)
(* way, and the process may be killed at any point; the sync then starts   *)
(* again from the checkout.                                                *)
(***************************************************************************)
EXTENDS Integers, Sequences, FiniteSets

CONSTANTS
    Targets,    (* "windows" and "linux", or one of them                     *)
    ToolsOf,    (* the tools of each target's sync, in order                 *)
    Files,      (* the source files they read                                *)
    EditsOf,    (* the files each tool edits                                 *)
    Created,    (* the files upstream does not have and a tool creates       *)
    MaxFaults,  (* bound: failed writes, moved anchors, kills, outside edits,*)
                (* replays                                                   *)
    Absent      (* what a missing file holds                                 *)

ToolNames == {"windows", "harnessmm", "guardian", "nodaemon"}

ASSUME PatchesAssumption ==
    /\ ToolsOf \in [Targets -> Seq(ToolNames) \ {<<>>}]
    /\ EditsOf \in [ToolNames -> SUBSET Files]
    /\ Created \subseteq Files
    /\ MaxFaults \in Nat
    /\ Absent \notin [marks : SUBSET ToolNames, edits : 0..MaxFaults, torn : BOOLEAN]

(* Tools that compare every file with what they read before the first      *)
(* write, that restore what they wrote when a write fails, and that refuse *)
(* a source which has some of their edits but not all.                     *)
Rechecking == {"windows", "harnessmm"}
Restoring == {"windows", "harnessmm", "guardian"}
Strict == {"harnessmm"}

VARIABLES
    target,   (* what this sync builds; it never changes                     *)
    disk,     (* the checkout: each file's content                           *)
    pc,       (* where the sync stands                                       *)
    at,       (* the index of the tool at work                               *)
    snapshot, (* original, planned: what the tool read so far                *)
    checked,  (* files found unchanged                                       *)
    changes,  (* files the plan changes                                      *)
    written   (* files whose write was begun                                 *)

(* What happened so far; no action of the code reads these. *)
VARIABLES
    faults,   (* failed writes, moved anchors, kills, outside edits, replays *)
    edits,    (* edits made to each file since the checkout                  *)
    exposed,  (* files edited when the tool would not look at them again     *)
    before,   (* the checkout when the tool at work began                    *)
    broken    (* a rollback itself failed, or there was none                 *)

work == <<pc, at, snapshot, checked, changes, written>>
ghosts == <<faults, edits, exposed, before, broken>>
vars == <<target, disk, work, ghosts>>

Tools == ToolsOf[target]
AllTools == {Tools[i] : i \in 1..Len(Tools)}

(* A content: the tools whose edits it has, the outside edits, half written. *)
Content == [marks : SUBSET AllTools, edits : 0..MaxFaults, torn : BOOLEAN]
Upstream == [f \in Files |->
    IF f \in Created THEN Absent ELSE [marks |-> {}, edits |-> 0, torn |-> FALSE]]

Tool == Tools[at]
Inputs == EditsOf[Tool]
Phases == {"checkout", "read", "plan", "check", "write", "rollback", "failed", "killed", "built"}

TypeOK ==
    /\ target \in Targets
    /\ disk \in [Files -> Content \cup {Absent}]
    /\ pc \in Phases
    /\ at \in 1..Len(Tools)
    /\ DOMAIN snapshot \subseteq Inputs
    /\ \A f \in DOMAIN snapshot : snapshot[f] \in Content \cup {Absent}
    /\ checked \subseteq DOMAIN snapshot
    /\ changes \subseteq Inputs
    /\ written \subseteq changes
    /\ Tool \in Rechecking /\ written # {} => checked = Inputs
    /\ faults \in 0..MaxFaults
    /\ edits \in [Files -> 0..MaxFaults]
    /\ exposed \subseteq Files
    /\ before \in [Files -> Content \cup {Absent}]
    /\ broken \in BOOLEAN

Init ==
    /\ target \in Targets
    /\ disk = Upstream
    /\ pc = "checkout"
    /\ at = 1
    /\ snapshot = <<>>
    /\ checked = {}
    /\ changes = {}
    /\ written = {}
    /\ faults = 0
    /\ edits = [f \in Files |-> 0]
    /\ exposed = {}
    /\ before = Upstream
    /\ broken = FALSE
-----------------------------------------------------------------------------
(* Every tool starts with an empty plan of its own. *)
Fresh == snapshot' = <<>> /\ checked' = {} /\ changes' = {} /\ written' = {}

CheckedOutTree_KeepsUntracked == [f \in Files |-> IF f \in Created THEN disk[f] ELSE Upstream[f]]

(* reset --hard, clean -ffdx, checkout --detach: upstream and nothing else. *)
CheckedOutTree == Upstream

Checkout ==
    /\ pc = "checkout"
    /\ disk' = CheckedOutTree
    /\ pc' = "read"
    /\ at' = 1
    /\ Fresh
    /\ edits' = [f \in Files |-> 0]
    /\ exposed' = {}
    /\ before' = disk'
    /\ broken' = FALSE
    /\ UNCHANGED <<target, faults>>

Read(f) ==
    /\ pc = "read"
    /\ f \in Inputs \ DOMAIN snapshot
    /\ snapshot' = [g \in DOMAIN snapshot \cup {f} |-> IF g = f THEN disk[f] ELSE snapshot[g]]
    /\ pc' = IF DOMAIN snapshot' = Inputs THEN "plan" ELSE "read"
    /\ UNCHANGED <<target, disk, at, checked, changes, written, ghosts>>

Has(f) == snapshot[f] # Absent /\ Tool \in snapshot[f].marks
ToChange == {f \in Inputs : ~Has(f)}

(* A created file that is not what the tool would create and, by a strict  *)
(* tool, half an integration are refused; otherwise an edit that is there  *)
(* already is left alone. Any other plan that throws is AnchorMoved.       *)
Acceptable ==
    /\ \A f \in Inputs \cap Created : snapshot[f] # Absent => snapshot[f].edits = 0
    /\ Tool \in Strict => ToChange \in {{}, Inputs}

Plan ==
    /\ pc = "plan"
    /\ Acceptable
    /\ changes' = ToChange
    /\ pc' = IF Tool \in Rechecking THEN "check" ELSE "write"
    /\ UNCHANGED <<target, disk, at, snapshot, checked, written, ghosts>>

(* The plan throws before anything is written. *)
Refuse ==
    /\ pc = "plan"
    /\ ~Acceptable
    /\ pc' = "failed"
    /\ UNCHANGED <<target, disk, at, snapshot, checked, changes, written, ghosts>>

AnchorMoved ==
    /\ pc = "plan"
    /\ faults < MaxFaults
    /\ faults' = faults + 1
    /\ pc' = "failed"
    /\ UNCHANGED <<target, disk, at, snapshot, checked, changes, written,
                   edits, exposed, before, broken>>

SameAsRead_AnyPresent(f) == (disk[f] = Absent) = (snapshot[f] = Absent)

SameAsRead(f) == disk[f] = snapshot[f]

Check(f) ==
    /\ pc = "check"
    /\ f \in Inputs \ checked
    /\ SameAsRead(f)
    /\ checked' = checked \cup {f}
    /\ pc' = IF checked' = Inputs THEN "write" ELSE "check"
    /\ UNCHANGED <<target, disk, at, snapshot, changes, written, ghosts>>

SourceChanged(f) ==
    /\ pc = "check"
    /\ f \in Inputs \ checked
    /\ ~SameAsRead(f)
    /\ pc' = "failed"
    /\ UNCHANGED <<target, disk, at, snapshot, checked, changes, written, ghosts>>

(* What the tool makes of the content it read. *)
Planned(f) ==
    IF snapshot[f] = Absent THEN [marks |-> {Tool}, edits |-> 0, torn |-> FALSE]
    ELSE [snapshot[f] EXCEPT !.marks = @ \cup {Tool}]

Begun_AfterWrite(f, ok) == IF ok THEN written \cup {f} ELSE written

(* A file counts as written before its write begins, failed or not. *)
Begun(f, ok) == written \cup {f}

Write(f) ==
    /\ pc = "write"
    /\ f \in changes \ written
    /\ disk' = [disk EXCEPT ![f] = Planned(f)]
    /\ written' = Begun(f, TRUE)
    /\ UNCHANGED <<target, pc, at, snapshot, checked, changes, ghosts>>

(* A write truncates the file first; creating is undone by unlinking. *)
HalfWritten(f, content) ==
    [disk EXCEPT ![f] = IF content = Absent THEN @ ELSE [content EXCEPT !.torn = TRUE]]

(* The file cannot be opened, or its write ends half way. *)
WriteFails(f) ==
    /\ pc = "write"
    /\ f \in changes \ written
    /\ faults < MaxFaults
    /\ faults' = faults + 1
    /\ disk' \in {disk, HalfWritten(f, Planned(f))}
    /\ written' = Begun(f, FALSE)
    /\ pc' = IF Tool \in Restoring THEN "rollback" ELSE "failed"
    /\ broken' = (Tool \notin Restoring)
    /\ UNCHANGED <<target, at, snapshot, checked, changes, edits, exposed, before>>

(* The last file restored ends the rollback; the error goes on. *)
Restore(f) ==
    /\ pc = "rollback"
    /\ f \in written
    /\ disk' = [disk EXCEPT ![f] = snapshot[f]]
    /\ written' = written \ {f}
    /\ UNCHANGED <<target, pc, at, snapshot, checked, changes, ghosts>>

RolledBack ==
    /\ pc = "rollback"
    /\ written = {}
    /\ pc' = "failed"
    /\ UNCHANGED <<target, disk, at, snapshot, checked, changes, written, ghosts>>

RestoreFails(f) ==
    /\ pc = "rollback"
    /\ f \in written
    /\ faults < MaxFaults
    /\ faults' = faults + 1
    /\ broken' = TRUE
    /\ pc' = "failed"
    /\ disk' \in {disk, HalfWritten(f, snapshot[f])}
    /\ UNCHANGED <<target, at, snapshot, checked, changes, written, edits, exposed, before>>

EditsIn(tree) == [f \in Files |-> IF tree[f] = Absent THEN 0 ELSE tree[f].edits]

(* All changes written: the next tool, or the build. *)
Done ==
    /\ pc = "write"
    /\ written = changes
    /\ Fresh
    /\ IF at < Len(Tools) THEN at' = at + 1 /\ pc' = "read"
       ELSE pc' = "built" /\ UNCHANGED at
    /\ exposed' = {}
    /\ before' = disk
    /\ edits' = EditsIn(disk)
    /\ UNCHANGED <<target, disk, faults, broken>>
-----------------------------------------------------------------------------
(* Somebody edits a file that is there, keeping the patch anchors.         *)
WillLookAgain(f) ==
    \/ f \notin Inputs
    \/ pc \in {"checkout", "read", "plan", "check"} /\
       IF Tool \in Rechecking THEN f \notin checked ELSE f \notin DOMAIN snapshot

Edit(f) ==
    /\ disk[f] # Absent
    /\ pc # "checkout"
    /\ faults < MaxFaults
    /\ faults' = faults + 1
    /\ disk' = [disk EXCEPT ![f].edits = @ + 1]
    /\ edits' = [edits EXCEPT ![f] = @ + 1]
    /\ exposed' = IF WillLookAgain(f) THEN exposed ELSE exposed \cup {f}
    /\ UNCHANGED <<target, work, before, broken>>

Underway ==
    CASE pc = "write" -> {HalfWritten(f, Planned(f)) : f \in changes \ written}
      [] pc = "rollback" -> {HalfWritten(f, snapshot[f]) : f \in written}
      [] OTHER -> {}

Kill ==
    /\ pc \notin {"failed", "killed", "built"}
    /\ faults < MaxFaults
    /\ faults' = faults + 1
    /\ pc' = "killed"
    /\ disk' \in {disk} \cup Underway
    /\ UNCHANGED <<target, at, snapshot, checked, changes, written, edits, exposed, before, broken>>

(* The last tool is run once more on the source it patched, as the A/B     *)
(* workflow and the contract tests do.                                     *)
Replay ==
    /\ pc = "built"
    /\ faults < MaxFaults
    /\ faults' = faults + 1
    /\ pc' = "read"
    /\ Fresh
    /\ exposed' = {}
    /\ before' = disk
    /\ edits' = EditsIn(disk)
    /\ UNCHANGED <<target, disk, at, broken>>

(* The next scheduled sync. *)
Again ==
    /\ pc \in {"failed", "killed"}
    /\ pc' = "checkout"
    /\ UNCHANGED <<target, disk, at, snapshot, checked, changes, written, ghosts>>

Patching ==
    \/ Checkout \/ Plan \/ Refuse \/ RolledBack \/ Done
    \/ \E f \in Files : Read(f) \/ Check(f) \/ SourceChanged(f) \/ Write(f) \/ Restore(f)

Faulting ==
    \/ AnchorMoved \/ Kill \/ Replay
    \/ \E f \in Files : WriteFails(f) \/ RestoreFails(f) \/ Edit(f)

Next == Patching \/ Faulting \/ Again

Spec == Init /\ [][Next]_vars

(* The tools run as long as they can go on, and syncs are scheduled. *)
FairSpec == Spec /\ WF_vars(Patching) /\ WF_vars(Again)
-----------------------------------------------------------------------------
(***************************************************************************)
(* Properties.                                                             *)
(***************************************************************************)

(* A tool that ended with an error left every file as it was when the tool *)
(* began, outside edits excepted: nothing is half patched or half written, *)
(* wherever it failed, unless its rollback failed too (or it has none).    *)
FailedLeavesSource ==
    pc = "failed" /\ ~broken => \A f \in Files :
        /\ disk[f] = Absent <=> before[f] = Absent
        /\ disk[f] # Absent => ~disk[f].torn /\ disk[f].marks = before[f].marks

(* An edit somebody else made during the sync is lost only if it was made  *)
(* after the tool's last look at the file: a tool that rechecks never      *)
(* overwrites one made before its recheck.                                 *)
LosesOnlyUnseenEdits ==
    \A f \in Files \ exposed : disk[f] # Absent => disk[f].edits = edits[f]

(* What is built carries the edits of every tool in every file it edits,   *)
(* whole, and nothing of an earlier sync that failed.                      *)
BuildsWholeSource ==
    pc = "built" => \A f \in Files :
        LET edited == {t \in AllTools : f \in EditsOf[t]} IN
        IF disk[f] = Absent THEN f \in Created /\ edited = {}
        ELSE ~disk[f].torn /\ disk[f].marks = edited

(* A tool's edits are all there or none is: in what is built and in what   *)
(* an error left, and each tool works from a plan of its own.              *)
AllOrNothing == TypeOK /\ FailedLeavesSource /\ BuildsWholeSource

(* However a sync failed or was killed, and whatever it left behind, the   *)
(* scheduled ones after it build again once the faults are over.           *)
RecoversEventually == <>(pc = "built")
=============================================================================
