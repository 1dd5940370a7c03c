----------------------------- MODULE Experiment -----------------------------
(***************************************************************************)
(* The A/B experiment over one root directory: prepare_task.py makes the   *)
(* two workspaces, watch_runs.py checkpoints the CI runs, an operator      *)
(* delivers artifacts with unpack_actions.py, and coordinate.py carries on *)
(* from the artifacts to verification, native smoke, the provider          *)
(* preflight, the paid trials, judging and the result.  The processes meet *)
(* only in files; each may be killed, and the coordinator started again.   *)
(* Somebody may also run the pair by hand (run_trials.py).                 *)
(***************************************************************************)
EXTENDS Integers, FiniteSets

CONSTANTS
    Runs,      (* the CI runs; each builds one arm                         *)
    VariantOf, (* the arm a run builds                                     *)
    HeadOf,    (* the commit a run builds                                  *)
    Wanted,    (* the head both arms are given                             *)
    Cases,     (* bound: native smoke cases of an arm                      *)
    MaxStarts, (* bound: times the coordinator is started                  *)
    MaxFaults, (* bound: kills, changed archives, altered packages, pauses,*)
               (* misplaced downloads, trials by hand, a stopped watcher   *)
    None, Torn, Altered

Arms == {"baseline", "harnessmm"}

ASSUME ExperimentAssumption ==
    /\ Cases \in Nat \ {0} /\ MaxStarts \in Nat /\ MaxFaults \in Nat
    /\ Runs # {} /\ VariantOf \in [Runs -> Arms]
    /\ {None, Torn, Altered} \intersect (Runs \cup Nat) = {}

(* The files under the root. *)
VARIABLES
    ci,        (* ci/<run>.json: what the checkpoint says of the run's job  *)
    download,  (* downloads/<arm>-<run>: what was unpacked there            *)
    packages,  (* packages/<arm>-<head> and its verification.json           *)
    summary,   (* native-smoke/<head>/<arm>/summary.json: the binary it saw *)
    work,      (* work/<arm>: the archive version it was made from          *)
    prepared,  (* how far prepare_task.py came                              *)
    made,      (* directories that must be new: preflight, trials, judging  *)
    pause,     (* the pause file                                            *)
    result     (* coordinator-result.json                                   *)

(* The coordinator, and the other processes. *)
VARIABLES
    pc, arm, given, admitted, left, package,
    late,      (* the coordinator's five hours are over                     *)
    watcher,   (* the watcher is at work                                    *)
    archive,   (* the version of the task archives                          *)
    hand       (* the arm run_trials.py is about to run, or None            *)

(* History; no action of the code reads these. *)
VARIABLES
    starts, faults,
    tried,     (* the trials that were run: by whom, on which binary        *)
    since      (* operations the coordinator began under the pause file     *)

inputs == <<archive, prepared, work>>
evidence == <<download, packages, summary>>
args == <<given, left, package>>
outcome == <<made, tried, result, since>>
others == <<ci, inputs, pause, late, watcher, hand, starts, faults>>
coordinator == <<pc, arm, admitted, args>>
vars == <<others, evidence, coordinator, outcome>>

Phases == {"idle", "ready", "package", "download", "manifest", "extract", "record", "smoke",
           "case", "preflight", "provider", "trial", "judge", "publish"}
Whole == 4  (* a package of two files: an odd count has one half written *)
Binaries == Runs \cup {Altered}

TypeOK ==
    /\ ci \in [Runs -> {None, "running", "success", "failure"}]
    /\ download \in [Arms \X Runs -> [of : {None} \cup Runs, provenance : {None, Torn} \cup Runs]]
    /\ packages \in [Arms -> [of : {None} \cup Binaries, files : 0..Whole,
                              verified : {None, Torn} \cup Runs]]
    /\ summary \in [Arms -> {None} \cup Binaries]
    /\ archive \in 0..MaxFaults /\ work \in [Arms -> {None} \cup 0..MaxFaults]
    /\ prepared \in {"none", "baseline", "compare", "manifest", "refused"}
    /\ made \subseteq {<<"preflight", "harnessmm">>} \cup ({"trials", "judging"} \X Arms)
    /\ pause \in BOOLEAN /\ late \in BOOLEAN /\ admitted \in BOOLEAN /\ watcher \in BOOLEAN
    /\ result \in {None} \cup [Arms -> [verified : Runs, smoked : Binaries]]
    /\ pc \in Phases /\ arm \in Arms /\ given \in [Arms -> Runs]
    /\ left \in 0..Cases /\ package \in [Arms -> {None} \cup Runs] /\ hand \in {None} \cup Arms
    /\ tried \in [Arms -> SUBSET ({"coordinator", "hand"} \X ({None} \cup Binaries))]
    /\ since \in Nat /\ starts \in 0..MaxStarts /\ faults \in 0..MaxFaults

Init ==
    /\ ci = [r \in Runs |-> None] /\ watcher = TRUE
    /\ download = [d \in Arms \X Runs |-> [of |-> None, provenance |-> None]]
    /\ packages = [a \in Arms |-> [of |-> None, files |-> 0, verified |-> None]]
    /\ summary = [a \in Arms |-> None] /\ result = None
    /\ archive = 0 /\ work = [a \in Arms |-> None] /\ prepared = "none"
    /\ made = {} /\ tried = [a \in Arms |-> {}] /\ hand = None
    /\ pause = FALSE /\ late = FALSE /\ admitted = FALSE /\ since = 0
    /\ pc = "idle" /\ arm = "baseline" /\ given = [a \in Arms |-> CHOOSE r \in Runs : TRUE]
    /\ left = 0 /\ package = [a \in Arms |-> None] /\ starts = 0 /\ faults = 0

Fault == faults < MaxFaults /\ faults' = faults + 1

-----------------------------------------------------------------------------
(* The watcher replaces a pending run's checkpoint in one step; it stops   *)
(* with the pending runs, at its deadline or pause file, or when a gh call *)
(* takes too long.  Only the checkpoint the coordinator polls is followed. *)
Pending == {r \in Runs : ci[r] \notin {"success", "failure"}}

Watch(r) ==
    /\ watcher /\ r \in Pending /\ pc = "ready" /\ r = given[arm]
    /\ \E seen \in {"running", "success", "failure"} : ci' = [ci EXCEPT ![r] = seen]
    /\ UNCHANGED <<inputs, pause, late, watcher, hand, starts, faults, evidence, coordinator,
                   outcome>>

WatcherStops ==
    /\ watcher /\ watcher' = FALSE
    /\ IF Pending = {} THEN faults' = faults ELSE Fault
    /\ UNCHANGED <<ci, inputs, pause, late, hand, starts, evidence, coordinator, outcome>>

(* prepare_task.py: each workspace is extracted from the archives as they  *)
(* are then, and the manifest is written only when the two trees agree.    *)
Extracts(a, from, to) ==
    prepared = from /\ prepared' = to /\ work' = [work EXCEPT ![a] = archive]

SameInputs == work["baseline"] = work["harnessmm"]

Prepare ==
    /\ \/ Extracts("baseline", "none", "baseline")
       \/ Extracts("harnessmm", "baseline", "compare")
       \/ prepared = "compare" /\ work' = work
          /\ prepared' = IF SameInputs THEN "manifest" ELSE "refused"
    /\ UNCHANGED <<archive, ci, pause, late, watcher, hand, starts, faults, evidence, coordinator,
                   outcome>>

ChangeArchive ==
    /\ prepared = "baseline" /\ Fault /\ archive' = archive + 1
    /\ UNCHANGED <<prepared, work, ci, pause, late, watcher, hand, starts, evidence, coordinator,
                   outcome>>

(* unpack_actions.py checks the archive against its metadata and --run,    *)
(* wants an empty destination, extracts, and last writes the provenance,   *)
(* not in one step.  The operator delivers what the status file asks for,  *)
(* or by mistake another run's archive.                                    *)
Unpack(d, r) ==
    /\ pc = "download" /\ d = <<arm, given[arm]>> /\ download[d].of = None
    /\ IF r = given[arm] THEN faults' = faults ELSE Fault
    /\ download' = [download EXCEPT ![d].of = r]
    /\ UNCHANGED <<ci, inputs, pause, late, watcher, hand, starts, packages, summary, coordinator,
                   outcome>>

WriteProvenance(d) ==
    /\ download[d].of # None /\ download[d].provenance \in {None, Torn}
    /\ download' = [download EXCEPT ![d].provenance = IF @ = None THEN Torn ELSE download[d].of]
    /\ UNCHANGED <<others, packages, summary, coordinator, outcome>>

-----------------------------------------------------------------------------
(* coordinate.py.  admission() raises when the pause file is there or the  *)
(* five hours are over; whatever an operation finds wrong ends the run.    *)
Go(phase) == pc' = phase /\ admitted' = FALSE
Stop == Go("idle")
RefusedWhenPaused == pause
Refused == pause \/ late
GatesNoCase == {"package", "preflight", "trial", "judge"}
Gates == {"package", "case", "preflight", "trial", "judge"}
At(phase) == pc = phase /\ (phase \in Gates => admitted)
Begins == since' = IF pause THEN since + 1 ELSE since

Start ==
    /\ pc = "idle" /\ starts < MaxStarts /\ prepared = "manifest"
    /\ Go("ready") /\ arm' = "baseline" /\ left' = 0
    /\ given' \in [Arms -> Runs] /\ package' = [a \in Arms |-> None]
    /\ starts' = starts + 1 /\ late' = FALSE
    /\ UNCHANGED <<ci, inputs, pause, watcher, hand, faults, evidence, outcome>>

Admit ==
    /\ pc \in Gates /\ ~admitted
    /\ IF Refused THEN Stop ELSE admitted' = TRUE /\ pc' = pc
    /\ UNCHANGED <<others, evidence, arm, args, outcome>>

Fails ==
    /\ \E phase \in Phases \ {"idle", "ready", "publish"} : At(phase)
    /\ Stop
    /\ UNCHANGED <<others, evidence, arm, args, outcome>>

(* artifact_ready(): polls the checkpoint; a run without this arm's job is *)
(* waited for until the deadline.                                          *)
Run == given[arm]
Verdict == IF VariantOf[Run] = arm THEN ci[Run] ELSE "running"

ArtifactReady ==
    /\ pc = "ready"
    /\ \/ Refused /\ Stop
       \/ ~Refused /\ ci[Run] # None /\ (HeadOf[Run] # Wanted \/ Verdict = "failure") /\ Stop
       \/ ~Refused /\ HeadOf[Run] = Wanted /\ Verdict = "success" /\ Go("package")
    /\ UNCHANGED <<others, evidence, arm, args, outcome>>

(* qualify(): a retained verification.json must name the wanted head and   *)
(* the binary that is there now; otherwise the delivery must be bound to   *)
(* the expected run, once its provenance file exists.                      *)
Package == packages[arm]
Delivery == download[<<arm, Run>>]
RetainedHasHead == Package.verified \in Runs /\ HeadOf[Package.verified] = Wanted
RetainedIsSound == Package.verified \in Runs /\ Package.of = Package.verified
                   /\ HeadOf[Package.verified] = Wanted
Bound == Delivery.provenance = Run

Retain ==
    /\ At("package") /\ Package.verified # None
    /\ IF RetainedIsSound
       THEN Go("smoke") /\ package' = [package EXCEPT ![arm] = Package.verified]
       ELSE Stop /\ package' = package
    /\ UNCHANGED <<others, evidence, arm, given, left, outcome>>

AwaitDownload ==
    /\ Delivery.provenance = None
    /\ \/ At("package") /\ Package.verified = None /\ Go("download")
       \/ At("download") /\ Refused /\ Stop
    /\ UNCHANGED <<others, evidence, arm, args, outcome>>

ReadProvenance ==
    /\ Delivery.provenance # None
    /\ \/ At("package") /\ Package.verified = None
       \/ At("download")
    /\ IF Bound THEN Go("manifest") /\ Begins ELSE Stop /\ since' = since
    /\ UNCHANGED <<others, evidence, arm, args, made, tried, result>>

(* verify(): the manifest must be of this variant and files that exist     *)
(* those of the archive; missing ones are extracted; then the evidence is  *)
(* checked and verification.json written, neither of them in one step.     *)
CompiledVariant == VariantOf[Delivery.of] = arm
FilesMatch == Package.files = 0 \/ (Package.files % 2 = 0 /\ Package.of = Delivery.of)

CheckManifest ==
    /\ pc = "manifest"
    /\ IF CompiledVariant /\ FilesMatch THEN Go("extract") ELSE Stop
    /\ UNCHANGED <<others, evidence, arm, args, outcome>>

Missing == Package.files < Whole

Extract ==
    /\ pc = "extract" /\ Missing /\ UNCHANGED <<pc, admitted>>
    /\ packages' = [packages EXCEPT ![arm].files = @ + 1, ![arm].of = Delivery.of]
    /\ UNCHANGED <<others, download, summary, arm, args, outcome>>

CheckEvidence ==
    /\ pc = "extract" /\ ~Missing /\ Go("record")
    /\ packages' = [packages EXCEPT ![arm].verified = Torn]
    /\ UNCHANGED <<others, download, summary, arm, args, outcome>>

Record ==
    /\ pc = "record" /\ Go("smoke")
    /\ packages' = [packages EXCEPT ![arm].verified = Delivery.of]
    /\ package' = [package EXCEPT ![arm] = Delivery.of]
    /\ UNCHANGED <<others, download, summary, arm, given, left, outcome>>

(* smoke(): a retained summary stands for its cases; otherwise every case  *)
(* runs in a new attempt, each after an admission, and the summary is      *)
(* replaced in one step when all have passed.                              *)
AfterSmoke == IF arm = "baseline" THEN arm' = "harnessmm" /\ Go("ready")
              ELSE arm' = arm /\ Go("preflight")

RetainSmoke ==
    /\ pc = "smoke"
    /\ IF summary[arm] # None THEN AfterSmoke /\ left' = left
       ELSE arm' = arm /\ Go("case") /\ left' = Cases
    /\ UNCHANGED <<others, evidence, given, package, outcome>>

RunCase ==
    /\ At("case") /\ Begins /\ left' = left - 1
    /\ IF left > 1 THEN arm' = arm /\ Go("case") /\ summary' = summary
       ELSE AfterSmoke /\ summary' = [summary EXCEPT ![arm] = Package.of]
    /\ UNCHANGED <<others, download, packages, given, package, made, tried, result>>

(* The preflight's, the trials' and the judging directories must be new.   *)
MakesOrFinds(dir) == made' = made \cup {dir}
Makes(dir) == dir \notin made /\ made' = made \cup {dir}

Preflight ==
    /\ At("preflight") /\ Makes(<<"preflight", arm>>) /\ Begins /\ Go("provider")
    /\ UNCHANGED <<others, evidence, arm, args, tried, result>>

PreflightPasses ==
    /\ pc = "provider" /\ Go("trial") /\ arm' = "baseline"
    /\ UNCHANGED <<others, evidence, args, outcome>>

RunTrial(a, owner) ==
    Makes(<<"trials", a>>) /\ tried' = [tried EXCEPT ![a] = @ \cup {<<owner, packages[a].of>>}]

Trial ==
    /\ At("trial") /\ Begins /\ RunTrial(arm, "coordinator")
    /\ IF arm = "baseline" THEN arm' = "harnessmm" /\ Go("trial")
       ELSE arm' = "baseline" /\ Go("judge")
    /\ UNCHANGED <<others, evidence, args, result>>

(* Both judgments run under one admission. *)
Judge ==
    /\ At("judge") /\ Makes(<<"judging", arm>>)
    /\ IF arm = "baseline" THEN arm' = "harnessmm" /\ Begins /\ UNCHANGED <<pc, admitted>>
       ELSE arm' = arm /\ Go("publish") /\ since' = since
    /\ UNCHANGED <<others, evidence, args, tried, result>>

Publish ==
    /\ pc = "publish" /\ Stop
    /\ result' = [a \in Arms |-> [verified |-> package[a], smoked |-> summary[a]]]
    /\ UNCHANGED <<others, evidence, arm, args, made, tried, since>>

-----------------------------------------------------------------------------
(* run_trials.py by hand, with the same directories and pause file.        *)
ByHand ==
    /\ hand = None /\ prepared = "manifest" /\ Fault /\ hand' = "baseline"
    /\ UNCHANGED <<ci, inputs, pause, late, watcher, starts, evidence, coordinator, outcome>>

HandTrial ==
    /\ hand # None
    /\ \/ UNCHANGED <<made, tried>> /\ hand' = None
       \/ ~pause /\ RunTrial(hand, "hand")
          /\ hand' = IF hand = "baseline" THEN "harnessmm" ELSE None
    /\ UNCHANGED <<ci, inputs, pause, late, watcher, starts, faults, evidence, coordinator, result,
                   since>>

Deadline ==
    /\ pc # "idle" /\ ~late /\ late' = TRUE
    /\ UNCHANGED <<ci, inputs, pause, watcher, hand, starts, faults, evidence, coordinator, outcome>>

Kill ==
    /\ pc # "idle" /\ Fault /\ Stop
    /\ UNCHANGED <<ci, inputs, pause, late, watcher, hand, starts, evidence, arm, args, outcome>>

Pause ==
    /\ pause' = ~pause /\ since' = 0
    /\ IF pause THEN faults' = faults ELSE Fault
    /\ UNCHANGED <<ci, inputs, late, watcher, hand, starts, evidence, coordinator, made, tried,
                   result>>

(* Somebody edits a package while no coordinator runs. *)
Alter(a) ==
    /\ pc = "idle" /\ packages[a].files = Whole /\ Fault
    /\ packages' = [packages EXCEPT ![a].of = Altered]
    /\ UNCHANGED <<ci, inputs, pause, late, watcher, hand, starts, download, summary, coordinator,
                   outcome>>

Coordinate ==
    \/ Admit \/ ArtifactReady \/ Retain \/ AwaitDownload \/ ReadProvenance
    \/ CheckManifest \/ Extract \/ CheckEvidence \/ Record \/ RetainSmoke \/ RunCase
    \/ Preflight \/ PreflightPasses \/ Trial \/ Judge \/ Publish \/ Fails

Next ==
    \/ \E r \in Runs : Watch(r)
    \/ \E d \in Arms \X Runs : WriteProvenance(d) \/ (\E r \in Runs : Unpack(d, r))
    \/ \E a \in Arms : Alter(a)
    \/ WatcherStops \/ Prepare \/ ChangeArchive \/ ByHand \/ HandTrial
    \/ Start \/ Coordinate \/ Deadline \/ Kill \/ Pause

Spec == Init /\ [][Next]_vars

(* The coordinator keeps running (its waits poll, its children have        *)
(* timeouts) and its clock goes on.                                        *)
FairSpec == Spec /\ WF_vars(Coordinate) /\ WF_vars(Deadline)

-----------------------------------------------------------------------------
(* A result is about one binary per arm: built from the wanted head as     *)
(* that variant, the one the smoke evidence saw and the one its trial ran, *)
(* from workspaces that were equal (coordinate.py:152).                    *)
ResultIsOneBinary == result # None =>
    /\ SameInputs
    /\ \A a \in Arms : LET art == result[a].verified IN
        /\ HeadOf[art] = Wanted /\ VariantOf[art] = a
        /\ result[a].smoked = art /\ <<"coordinator", art>> \in tried[a]

(* The files and processes are well formed, and a result is sound.         *)
SoundResult == TypeOK /\ ResultIsOneBinary

(* However often the coordinator is started and whoever else runs the      *)
(* pair, an arm's paid trial runs at most once over a root                 *)
(* (run_trials.py:90).                                                     *)
TrialsRunOnce == \A a \in Arms : Cardinality(tried[a]) <= 1

(* Once the pause file is there the coordinator begins no more than the    *)
(* one operation it had admitted already (coordinate.py:42).               *)
PauseStops == since <= 1

(* A coordinator always ends, whatever it waits for (coordinate.py:44).    *)
CoordinatorEnds == (pc # "idle") ~> (pc = "idle")
=============================================================================
