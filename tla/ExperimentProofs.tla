--------------------------- MODULE ExperimentProofs ---------------------------
(***************************************************************************)
(* Proofs about the A/B experiment, for any runs, arms' cases and numbers  *)
(* of starts and faults.                                                   *)
(***************************************************************************)
EXTENDS Experiment, FiniteSetTheorems, TLAPS

Delivering == {"package", "download", "manifest", "extract", "record"}
Qualifying == {"ready"} \cup Delivering
Smoking == {"smoke", "case"}
Paying == {"preflight", "provider", "trial", "judge", "publish"}

(* TypeOK in parts: what the coordinator only reads, its own state, and    *)
(* what it leaves in the root. *)
World ==
    /\ ci \in [Runs -> {None, "running", "success", "failure"}]
    /\ download \in [Arms \X Runs -> [of : {None} \cup Runs, provenance : {None, Torn} \cup Runs]]
    /\ faults \in 0..MaxFaults /\ archive \in 0..faults /\ work \in [Arms -> {None} \cup 0..MaxFaults]
    /\ prepared \in {"none", "baseline", "compare", "manifest", "refused"}
    /\ hand \in {None} \cup Arms /\ starts \in 0..MaxStarts
Control ==
    /\ pc \in Phases /\ arm \in Arms /\ given \in [Arms -> Runs]
    /\ package \in [Arms -> {None} \cup Runs]
    /\ left \in 0..Cases /\ (pc = "case" => left # 0)
Records ==
    /\ packages \in [Arms -> [of : {None} \cup Binaries, files : 0..Whole, verified : {None, Torn} \cup Runs]]
    /\ summary \in [Arms -> {None} \cup Binaries]
    /\ made \subseteq {<<"preflight", "harnessmm">>} \cup ({"trials", "judging"} \X Arms)
    /\ tried \in [Arms -> SUBSET ({"coordinator", "hand"} \X ({None} \cup Binaries))]
Flags == pause \in BOOLEAN /\ late \in BOOLEAN /\ admitted \in BOOLEAN /\ watcher \in BOOLEAN

(* A delivery's provenance, once whole, is of what was unpacked; a         *)
(* coordinator at work found equal workspaces.                             *)
Delivered == \A d \in Arms \X Runs : download[d].provenance \in Runs => download[d].provenance = download[d].of
Prepared ==
    /\ prepared = "manifest" => SameInputs
    /\ pc # "idle" \/ result # None => prepared = "manifest"

(* The arm at work is qualified from a run of its own, not verified yet.   *)
Qualified ==
    /\ pc \in Delivering => HeadOf[Run] = Wanted /\ VariantOf[Run] = arm
    /\ pc \in {"manifest", "extract", "record"} => Bound
    /\ pc \in {"download", "manifest", "extract"} => Package.verified = None
    /\ pc = "record" => Package.verified = Torn /\ Package.of = Run
    /\ pc = "extract" /\ Package.files # 0 => Package.of = Delivery.of

(* A verification is of this arm, and a smoke summary of what was verified *)
Verified == \A a \in Arms :
    /\ packages[a].verified \in Runs => VariantOf[packages[a].verified] = a
    /\ summary[a] # None => packages[a].verified \in Runs /\ summary[a] = packages[a].verified

(* The arms a running coordinator is through with.                         *)
Through(a) == /\ package[a] \in Runs /\ HeadOf[package[a]] = Wanted
              /\ packages[a].of = package[a] /\ packages[a].verified = package[a]
Smoked(a) == Through(a) /\ summary[a] = package[a]
Progress ==
    /\ pc \in Qualifying => package[arm] = None
    /\ pc \in Smoking => Through(arm)
    /\ pc \in Qualifying \cup Smoking =>
           IF arm = "baseline" THEN package["harnessmm"] = None ELSE Smoked("baseline")
    /\ pc \in Paying => \A a \in Arms : Smoked(a)
    /\ pc = "preflight" => arm = "harnessmm"

(* The paid trials of the coordinator.                                     *)
Tried(a) == <<"coordinator", package[a]>> \in tried[a]
Trials ==
    /\ pc = "trial" /\ arm = "harnessmm" => Tried("baseline")
    /\ pc \in {"judge", "publish"} => \A a \in Arms : Tried(a)
    /\ result \in {None} \cup [Arms -> [verified : Runs, smoked : Binaries]]
    /\ result # None => \A a \in Arms :
           /\ HeadOf[result[a].verified] = Wanted /\ VariantOf[result[a].verified] = a
           /\ result[a].smoked = result[a].verified /\ <<"coordinator", result[a].verified>> \in tried[a]

ResultInv == World /\ Control /\ Records /\ Delivered /\ Prepared /\ Qualified /\ Verified /\ Progress /\ Trials

(* A trial was run only by who made its directory.                         *)
OnceInv == \A a \in Arms :
    /\ <<"trials", a>> \notin made => tried[a] = {}
    /\ \E trial : tried[a] \subseteq {trial}

(* Under the pause file, whoever began an operation is admitted to no more *)
(* but the second judgment of a pair.                                      *)
PauseInv ==
    /\ since \in Nat /\ since <= 1 /\ arm \in Arms
    /\ ~pause => since = 0
    /\ since = 1 => pc # "download" /\ (pc \in Gates /\ admitted => pc = "judge" /\ arm = "harnessmm")
    /\ pc = "judge" /\ ~admitted => arm = "baseline"

-----------------------------------------------------------------------------
LEMMA Constants ==
    /\ Cases \in Nat \ {0} /\ MaxStarts \in Nat /\ MaxFaults \in Nat /\ Runs # {}
    /\ VariantOf \in [Runs -> Arms] /\ None \notin Runs /\ Torn \notin Runs /\ Altered \notin Runs
  BY ExperimentAssumption

LEMMA WorldStep == ResultInv /\ [Next]_vars => World'
<1> SUFFICES ASSUME ResultInv, [Next]_vars PROVE World'
  OBVIOUS
<1>0. World
  BY DEF ResultInv
<1> USE DEF vars, others, evidence, outcome, coordinator, inputs, args, World
<1>1. CASE \E r \in Runs : Watch(r)
  <2>1. PICK r \in Runs : Watch(r)
    BY <1>1
  <2>2. ci' \in [Runs -> {None, "running", "success", "failure"}]
    BY <1>0, <2>1 DEF Watch
  <2>3. QED
    BY <1>0, <2>1, <2>2 DEF Watch
<1>2. CASE \E d \in Arms \X Runs : WriteProvenance(d)
  <2>1. PICK d \in Arms \X Runs : WriteProvenance(d)
    BY <1>2
  <2>2. PICK p \in {None, Torn} \cup Runs : download' = [download EXCEPT ![d] = [download[d] EXCEPT !.provenance = p]]
    BY <1>0, <2>1 DEF WriteProvenance
  <2>3. [download[d] EXCEPT !.provenance = p] \in [of : {None} \cup Runs, provenance : {None, Torn} \cup Runs]
    BY <1>0
  <2>4. download' \in [Arms \X Runs -> [of : {None} \cup Runs, provenance : {None, Torn} \cup Runs]]
    BY <1>0, <2>2, <2>3
  <2>5. QED
    BY <1>0, <2>1, <2>4 DEF WriteProvenance
<1>3. CASE \E d \in Arms \X Runs : \E r \in Runs : Unpack(d, r)
  <2>1. PICK d \in Arms \X Runs, r \in Runs : Unpack(d, r)
    BY <1>3
  <2>2. download' = [download EXCEPT ![d] = [download[d] EXCEPT !.of = r]] /\ faults' \in {faults, faults + 1} /\ faults' <= MaxFaults
    BY <1>0, Constants, <2>1 DEF Unpack, Fault
  <2>3. [download[d] EXCEPT !.of = r] \in [of : {None} \cup Runs, provenance : {None, Torn} \cup Runs]
    BY <1>0
  <2>4. download' \in [Arms \X Runs -> [of : {None} \cup Runs, provenance : {None, Torn} \cup Runs]]
    BY <1>0, <2>2, <2>3
  <2>5. faults' \in 0..MaxFaults /\ archive \in 0..faults'
    BY <1>0, Constants, <2>2
  <2>6. QED
    BY <1>0, <2>1, <2>4, <2>5 DEF Unpack
<1>4. CASE \E a \in Arms : Alter(a)
  BY <1>0, Constants, <1>4 DEF Alter, Fault, Arms
<1>5. CASE WatcherStops
  BY <1>0, Constants, <1>5 DEF WatcherStops, Fault, Arms
<1>6. CASE Prepare
  <2>1. archive \in {None} \cup 0..MaxFaults
    BY <1>0, Constants
  <2>2. work' = work \/ \E a \in Arms : work' = [work EXCEPT ![a] = archive]
    BY <1>6 DEF Prepare, Extracts, Arms
  <2>3. work' \in [Arms -> {None} \cup 0..MaxFaults]
    BY <1>0, <2>1, <2>2
  <2>4. prepared' \in {"none", "baseline", "compare", "manifest", "refused"}
    BY <1>6 DEF Prepare, Extracts
  <2>5. QED
    BY <1>0, <1>6, <2>3, <2>4 DEF Prepare
<1>7. CASE ChangeArchive
  BY <1>0, Constants, <1>7 DEF ChangeArchive, Fault, Arms
<1>8. CASE ByHand
  BY <1>0, Constants, <1>8 DEF ByHand, Fault, Arms
<1>9. CASE HandTrial
  BY <1>0, Constants, <1>9 DEF HandTrial, RunTrial, Makes, Arms
<1>10. CASE Start
  BY <1>0, Constants, <1>10 DEF Start, Go, Arms
<1>11. CASE Admit
  BY <1>0, <1>11 DEF Admit, Go, Stop
<1>12. CASE ArtifactReady
  BY <1>0, <1>12 DEF ArtifactReady, Go, Stop
<1>13. CASE Retain
  BY <1>0, <1>13 DEF Retain, At, Go, Stop
<1>14. CASE AwaitDownload
  BY <1>0, <1>14 DEF AwaitDownload, At, Go, Stop
<1>15. CASE ReadProvenance
  BY <1>0, <1>15 DEF ReadProvenance, At, Go, Stop, Begins
<1>16. CASE CheckManifest
  BY <1>0, <1>16 DEF CheckManifest, Go, Stop
<1>17. CASE Extract
  BY <1>0, <1>17 DEF Extract
<1>18. CASE CheckEvidence
  BY <1>0, <1>18 DEF CheckEvidence, Go
<1>19. CASE Record
  BY <1>0, <1>19 DEF Record, Go
<1>20. CASE RetainSmoke
  BY <1>0, <1>20 DEF RetainSmoke, AfterSmoke, Go
<1>21. CASE RunCase
  BY <1>0, <1>21 DEF RunCase, At, AfterSmoke, Go, Begins
<1>22. CASE Preflight
  BY <1>0, <1>22 DEF Preflight, At, Makes, Go, Begins
<1>23. CASE PreflightPasses
  BY <1>0, <1>23 DEF PreflightPasses, Go
<1>24. CASE Trial
  BY <1>0, <1>24 DEF Trial, At, RunTrial, Makes, Go, Begins
<1>25. CASE Judge
  BY <1>0, <1>25 DEF Judge, At, Makes, Go, Begins
<1>26. CASE Publish
  BY <1>0, <1>26 DEF Publish, Go, Stop
<1>27. CASE Fails
  BY <1>0, <1>27 DEF Fails, Go, Stop
<1>28. CASE Deadline
  BY <1>0, <1>28 DEF Deadline
<1>29. CASE Kill
  BY <1>0, Constants, <1>29 DEF Kill, Fault, Go, Stop, Arms
<1>30. CASE Pause
  BY <1>0, Constants, <1>30 DEF Pause, Fault, Arms
<1>31. CASE UNCHANGED vars
  BY <1>0, <1>31
<1>32. QED
  BY <1>1, <1>2, <1>3, <1>4, <1>5, <1>6, <1>7, <1>8, <1>9, <1>10, <1>11, <1>12, <1>13, <1>14,
     <1>15, <1>16, <1>17, <1>18, <1>19, <1>20, <1>21, <1>22, <1>23, <1>24, <1>25, <1>26, <1>27,
     <1>28, <1>29, <1>30, <1>31 DEF Next, Coordinate

(* The binary that is bound to the run of the arm at work. *)
LEMMA Bindings ==
    ASSUME World, Control, Delivered, Qualified, pc \in {"manifest", "extract", "record"}
    PROVE  Run \in Runs /\ Delivery.of = Run /\ VariantOf[Run] = arm /\ HeadOf[Run] = Wanted
<1>1. Run \in Runs /\ arm \in Arms /\ <<arm, Run>> \in Arms \X Runs
  BY DEF Run, Control
<1>2. download[<<arm, Run>>].provenance = Run
  BY DEF Qualified, Bound, Delivery
<1>3. download[<<arm, Run>>].of = Run
  BY <1>1, <1>2 DEF Delivered
<1>4. QED
  BY <1>1, <1>3 DEF Delivery, Qualified, Delivering

LEMMA ControlStep == ResultInv /\ [Next]_vars => Control'
<1> SUFFICES ASSUME ResultInv, [Next]_vars PROVE Control'
  OBVIOUS
<1>0. World /\ Control /\ Delivered /\ Qualified
  BY DEF ResultInv
<1> USE DEF vars, others, evidence, outcome, coordinator, inputs, args, Control, Phases
<1>1. CASE \E r \in Runs : Watch(r)
  BY <1>0, <1>1 DEF Watch
<1>2. CASE \E d \in Arms \X Runs : WriteProvenance(d)
  BY <1>0, <1>2 DEF WriteProvenance
<1>3. CASE \E d \in Arms \X Runs : \E r \in Runs : Unpack(d, r)
  BY <1>0, <1>3 DEF Unpack
<1>4. CASE \E a \in Arms : Alter(a)
  BY <1>0, <1>4 DEF Alter
<1>5. CASE WatcherStops
  BY <1>0, <1>5 DEF WatcherStops, Fault
<1>6. CASE Prepare
  BY <1>0, <1>6 DEF Prepare, Extracts
<1>7. CASE ChangeArchive
  BY <1>0, <1>7 DEF ChangeArchive, Fault
<1>8. CASE ByHand
  BY <1>0, <1>8 DEF ByHand, Fault
<1>9. CASE HandTrial
  BY <1>0, <1>9 DEF HandTrial, RunTrial, Makes
<1>10. CASE Start
  BY <1>0, Constants, <1>10 DEF Start, Go, Arms
<1>11. CASE Admit
  BY <1>0, <1>11 DEF Admit, Go, Stop
<1>12. CASE ArtifactReady
  BY <1>0, <1>12 DEF ArtifactReady, Go, Stop
<1>13. CASE Retain
  <2>1. /\ pc' \in {"smoke", "idle"} /\ arm' = arm /\ given' = given /\ left' = left
        /\ (package' = package \/ (Package.verified \in Runs /\ package' = [package EXCEPT ![arm] = Package.verified]))
    BY <1>13 DEF Retain, Go, Stop, RetainedIsSound
  <2>2. package' \in [Arms -> {None} \cup Runs]
    BY <1>0, <2>1
  <2>3. QED
    BY <1>0, <2>1, <2>2
<1>14. CASE AwaitDownload
  BY <1>0, <1>14 DEF AwaitDownload, At, Go, Stop
<1>15. CASE ReadProvenance
  BY <1>0, <1>15 DEF ReadProvenance, At, Go, Stop, Begins
<1>16. CASE CheckManifest
  BY <1>0, <1>16 DEF CheckManifest, Go, Stop
<1>17. CASE Extract
  BY <1>0, <1>17 DEF Extract
<1>18. CASE CheckEvidence
  BY <1>0, <1>18 DEF CheckEvidence, Go
<1>19. CASE Record
  <2>1. pc' = "smoke" /\ arm' = arm /\ given' = given /\ left' = left /\ package' = [package EXCEPT ![arm] = Run]
    BY <1>0, <1>19, Bindings DEF Record, Go
  <2>2. Run \in Runs
    BY <1>0 DEF Run
  <2>3. package' \in [Arms -> {None} \cup Runs]
    BY <1>0, <2>1, <2>2
  <2>4. QED
    BY <1>0, <2>1, <2>3
<1>20. CASE RetainSmoke
  BY <1>0, Constants, <1>20 DEF RetainSmoke, AfterSmoke, Go, Arms
<1>21. CASE RunCase
  BY <1>0, Constants, <1>21 DEF RunCase, AfterSmoke, Go, At, Gates, Arms
<1>22. CASE Preflight
  BY <1>0, <1>22 DEF Preflight, At, Makes, Go, Begins
<1>23. CASE PreflightPasses
  BY <1>0, <1>23 DEF PreflightPasses, Go, Arms
<1>24. CASE Trial
  BY <1>0, <1>24 DEF Trial, Go, Arms
<1>25. CASE Judge
  BY <1>0, <1>25 DEF Judge, Go, Arms
<1>26. CASE Publish
  BY <1>0, <1>26 DEF Publish, Go, Stop
<1>27. CASE Fails
  BY <1>0, <1>27 DEF Fails, Go, Stop
<1>28. CASE Deadline
  BY <1>0, <1>28 DEF Deadline
<1>29. CASE Kill
  BY <1>0, <1>29 DEF Kill, Fault, Go, Stop
<1>30. CASE Pause
  BY <1>0, <1>30 DEF Pause, Fault
<1>31. CASE UNCHANGED vars
  BY <1>0, <1>31
<1>32. QED
  BY <1>1, <1>2, <1>3, <1>4, <1>5, <1>6, <1>7, <1>8, <1>9, <1>10, <1>11, <1>12, <1>13, <1>14,
     <1>15, <1>16, <1>17, <1>18, <1>19, <1>20, <1>21, <1>22, <1>23, <1>24, <1>25, <1>26, <1>27,
     <1>28, <1>29, <1>30, <1>31 DEF Next, Coordinate

(* A trial is added to those its arm has had. *)
LEMMA TrialAdded ==
    ASSUME Records, NEW a \in Arms, NEW owner \in {"coordinator", "hand"}, RunTrial(a, owner)
    PROVE  /\ made' \subseteq {<<"preflight", "harnessmm">>} \cup ({"trials", "judging"} \X Arms)
           /\ made' = made \cup {<<"trials", a>>} /\ <<"trials", a>> \notin made
           /\ tried' \in [Arms -> SUBSET ({"coordinator", "hand"} \X ({None} \cup Binaries))]
           /\ tried'[a] = tried[a] \cup {<<owner, packages[a].of>>}
           /\ \A b \in Arms : b # a => tried'[b] = tried[b]
<1>1. packages[a].of \in {None} \cup Binaries
  BY DEF Records
<1>2. tried' = [tried EXCEPT ![a] = tried[a] \cup {<<owner, packages[a].of>>}]
  BY DEF RunTrial
<1>3. tried[a] \cup {<<owner, packages[a].of>>} \in SUBSET ({"coordinator", "hand"} \X ({None} \cup Binaries))
  BY <1>1 DEF Records
<1>4. QED
  BY <1>2, <1>3 DEF Records, RunTrial, Makes

LEMMA RecordsStep == ResultInv /\ [Next]_vars => Records'
<1> SUFFICES ASSUME ResultInv, [Next]_vars PROVE Records'
  OBVIOUS
<1>0. World /\ Control /\ Records /\ Delivered /\ Qualified /\ Progress
  BY DEF ResultInv
<1> USE DEF vars, others, evidence, outcome, coordinator, inputs, args, Records
<1>1. CASE \E r \in Runs : Watch(r)
  BY <1>0, <1>1 DEF Watch
<1>2. CASE \E d \in Arms \X Runs : WriteProvenance(d)
  BY <1>0, <1>2 DEF WriteProvenance
<1>3. CASE \E d \in Arms \X Runs : \E r \in Runs : Unpack(d, r)
  BY <1>0, <1>3 DEF Unpack
<1>4. CASE \E a \in Arms : Alter(a)
  <2>1. PICK a \in Arms : Alter(a)
    BY <1>4
  <2>2. packages' = [packages EXCEPT ![a] = [packages[a] EXCEPT !.of = Altered]]
    BY <2>1 DEF Alter
  <2>3. [packages[a] EXCEPT !.of = Altered] \in [of : {None} \cup Binaries, files : 0..Whole, verified : {None, Torn} \cup Runs]
    BY <1>0 DEF Binaries
  <2>4. packages' \in [Arms -> [of : {None} \cup Binaries, files : 0..Whole, verified : {None, Torn} \cup Runs]]
    BY <1>0, <2>2, <2>3
  <2>5. QED
    BY <1>0, <2>1, <2>4 DEF Alter
<1>5. CASE WatcherStops
  BY <1>0, <1>5 DEF WatcherStops, Fault
<1>6. CASE Prepare
  BY <1>0, <1>6 DEF Prepare, Extracts
<1>7. CASE ChangeArchive
  BY <1>0, <1>7 DEF ChangeArchive, Fault
<1>8. CASE ByHand
  BY <1>0, <1>8 DEF ByHand, Fault
<1>9. CASE HandTrial
  <2>1. packages' = packages /\ summary' = summary
    BY <1>9 DEF HandTrial
  <2>2. CASE UNCHANGED <<made, tried>>
    BY <1>0, <2>1, <2>2
  <2>3. CASE RunTrial(hand, "hand") /\ hand # None
    BY <1>0, <2>1, <2>3, TrialAdded DEF World
  <2>4. QED
    BY <1>9, <2>2, <2>3 DEF HandTrial
<1>10. CASE Start
  BY <1>0, <1>10 DEF Start, Go
<1>11. CASE Admit
  BY <1>0, <1>11 DEF Admit, Go, Stop
<1>12. CASE ArtifactReady
  BY <1>0, <1>12 DEF ArtifactReady, Go, Stop
<1>13. CASE Retain
  BY <1>0, <1>13 DEF Retain, At, Go, Stop
<1>14. CASE AwaitDownload
  BY <1>0, <1>14 DEF AwaitDownload, At, Go, Stop
<1>15. CASE ReadProvenance
  BY <1>0, <1>15 DEF ReadProvenance, At, Go, Stop, Begins
<1>16. CASE CheckManifest
  BY <1>0, <1>16 DEF CheckManifest, Go, Stop
<1>17. CASE Extract
  <2>1. pc = "extract" /\ Package.files < Whole
    BY <1>17 DEF Extract, Missing
  <2>2. Delivery.of \in Runs
    BY <1>0, <2>1, Bindings
  <2>3. packages' = [packages EXCEPT ![arm] = [packages[arm] EXCEPT !.files = packages[arm].files + 1, !.of = Delivery.of]]
    BY <1>17 DEF Extract
  <2>4. packages[arm].files + 1 \in 0..Whole
    BY <1>0, <2>1 DEF Package, Control, Whole
  <2>5. [packages[arm] EXCEPT !.files = packages[arm].files + 1, !.of = Delivery.of]
            \in [of : {None} \cup Binaries, files : 0..Whole, verified : {None, Torn} \cup Runs]
    BY <1>0, <2>2, <2>4 DEF Control, Binaries
  <2>6. packages' \in [Arms -> [of : {None} \cup Binaries, files : 0..Whole, verified : {None, Torn} \cup Runs]]
    BY <1>0, <2>3, <2>5
  <2>7. QED
    BY <1>0, <1>17, <2>6 DEF Extract
<1>18. CASE CheckEvidence
  <2>1. packages' = [packages EXCEPT ![arm] = [packages[arm] EXCEPT !.verified = Torn]]
    BY <1>18 DEF CheckEvidence
  <2>2. [packages[arm] EXCEPT !.verified = Torn] \in [of : {None} \cup Binaries, files : 0..Whole, verified : {None, Torn} \cup Runs]
    BY <1>0 DEF Control
  <2>3. packages' \in [Arms -> [of : {None} \cup Binaries, files : 0..Whole, verified : {None, Torn} \cup Runs]]
    BY <1>0, <2>1, <2>2
  <2>4. QED
    BY <1>0, <1>18, <2>3 DEF CheckEvidence
<1>19. CASE Record
  <2>1. packages' = [packages EXCEPT ![arm] = [packages[arm] EXCEPT !.verified = Delivery.of]]
    BY <1>19 DEF Record
  <2>2. [packages[arm] EXCEPT !.verified = Delivery.of] \in [of : {None} \cup Binaries, files : 0..Whole, verified : {None, Torn} \cup Runs]
    BY <1>0, <1>19, Bindings DEF Control, Record
  <2>3. packages' \in [Arms -> [of : {None} \cup Binaries, files : 0..Whole, verified : {None, Torn} \cup Runs]]
    BY <1>0, <2>1, <2>2
  <2>4. QED
    BY <1>0, <1>19, <2>3 DEF Record
<1>20. CASE RetainSmoke
  BY <1>0, <1>20 DEF RetainSmoke, AfterSmoke, Go
<1>21. CASE RunCase
  <2>1. /\ UNCHANGED <<packages, made, tried>>
        /\ summary' = summary \/ summary' = [summary EXCEPT ![arm] = Package.of]
    BY <1>21 DEF RunCase
  <2>2. At("case") => pc \in Smoking
    BY DEF At, Smoking
  <2>3. Package.of \in Runs
    BY <1>0, <1>21, <2>2 DEF RunCase, Progress, Through, Package
  <2>4. summary' \in [Arms -> {None} \cup Binaries]
    BY <1>0, <2>1, <2>3 DEF Binaries
  <2>5. QED
    BY <1>0, <2>1, <2>4
<1>22. CASE Preflight
  <2>1. arm = "harnessmm"
    BY <1>0, <1>22 DEF Preflight, At, Progress
  <2>2. QED
    BY <1>0, <1>22, <2>1 DEF Preflight, Makes
<1>23. CASE PreflightPasses
  BY <1>0, <1>23 DEF PreflightPasses, Go
<1>24. CASE Trial
  <2>1. RunTrial(arm, "coordinator") /\ arm \in Arms /\ packages' = packages /\ summary' = summary
    BY <1>0, <1>24 DEF Trial, Control
  <2>2. QED
    BY <1>0, <2>1, TrialAdded
<1>25. CASE Judge
  BY <1>0, <1>25 DEF Judge, Makes, Control
<1>26. CASE Publish
  BY <1>0, <1>26 DEF Publish, Go, Stop
<1>27. CASE Fails
  BY <1>0, <1>27 DEF Fails, Go, Stop
<1>28. CASE Deadline
  BY <1>0, <1>28 DEF Deadline
<1>29. CASE Kill
  BY <1>0, <1>29 DEF Kill, Fault, Go, Stop
<1>30. CASE Pause
  BY <1>0, <1>30 DEF Pause, Fault
<1>31. CASE UNCHANGED vars
  BY <1>0, <1>31
<1>32. QED
  BY <1>1, <1>2, <1>3, <1>4, <1>5, <1>6, <1>7, <1>8, <1>9, <1>10, <1>11, <1>12, <1>13, <1>14,
     <1>15, <1>16, <1>17, <1>18, <1>19, <1>20, <1>21, <1>22, <1>23, <1>24, <1>25, <1>26, <1>27,
     <1>28, <1>29, <1>30, <1>31 DEF Next, Coordinate

LEMMA DeliveredStep == ResultInv /\ [Next]_vars => Delivered'
<1> SUFFICES ASSUME ResultInv, [Next]_vars PROVE Delivered'
  OBVIOUS
<1>0. World /\ Delivered
  BY DEF ResultInv
<1> USE DEF vars, others, evidence, outcome, coordinator, inputs, args, Delivered
<1>1. CASE \E r \in Runs : Watch(r)
  BY <1>0, <1>1 DEF Watch
<1>2. CASE \E d \in Arms \X Runs : WriteProvenance(d)
  <2>1. PICK d \in Arms \X Runs : WriteProvenance(d)
    BY <1>2
  <2>2. PICK p : /\ p = (IF download[d].provenance = None THEN Torn ELSE download[d].of)
                 /\ download' = [download EXCEPT ![d] = [download[d] EXCEPT !.provenance = p]]
    BY <2>1 DEF WriteProvenance
  <2>3. download'[d].provenance = p /\ download'[d].of = download[d].of /\ \A e \in Arms \X Runs : e # d => download'[e] = download[e]
    BY <1>0, <2>2 DEF World
  <2>4. p \in Runs => p = download[d].of
    BY Constants, <2>2
  <2>5. QED
    BY <1>0, <2>3, <2>4
<1>3. CASE \E d \in Arms \X Runs : \E r \in Runs : Unpack(d, r)
  <2>1. PICK d \in Arms \X Runs, r \in Runs : Unpack(d, r)
    BY <1>3
  <2>2. download' = [download EXCEPT ![d] = [download[d] EXCEPT !.of = r]] /\ download[d].of = None
    BY <2>1 DEF Unpack
  <2>3. download'[d].provenance = download[d].provenance /\ \A e \in Arms \X Runs : e # d => download'[e] = download[e]
    BY <1>0, <2>2 DEF World
  <2>4. download[d].provenance \notin Runs
    BY <1>0, Constants, <2>2
  <2>5. QED
    BY <1>0, <2>3, <2>4
<1>4. CASE \E a \in Arms : Alter(a)
  BY <1>0, <1>4 DEF Alter, Fault
<1>5. CASE WatcherStops
  BY <1>0, <1>5 DEF WatcherStops, Fault
<1>6. CASE Prepare
  BY <1>0, <1>6 DEF Prepare, Extracts
<1>7. CASE ChangeArchive
  BY <1>0, <1>7 DEF ChangeArchive, Fault
<1>8. CASE ByHand
  BY <1>0, <1>8 DEF ByHand, Fault
<1>9. CASE HandTrial
  BY <1>0, <1>9 DEF HandTrial, RunTrial, Makes
<1>10. CASE Start
  BY <1>0, <1>10 DEF Start, Go
<1>11. CASE Admit
  BY <1>0, <1>11 DEF Admit, Go, Stop
<1>12. CASE ArtifactReady
  BY <1>0, <1>12 DEF ArtifactReady, Go, Stop
<1>13. CASE Retain
  BY <1>0, <1>13 DEF Retain, At, Go, Stop
<1>14. CASE AwaitDownload
  BY <1>0, <1>14 DEF AwaitDownload, At, Go, Stop
<1>15. CASE ReadProvenance
  BY <1>0, <1>15 DEF ReadProvenance, At, Go, Stop, Begins
<1>16. CASE CheckManifest
  BY <1>0, <1>16 DEF CheckManifest, Go, Stop
<1>17. CASE Extract
  BY <1>0, <1>17 DEF Extract
<1>18. CASE CheckEvidence
  BY <1>0, <1>18 DEF CheckEvidence, Go
<1>19. CASE Record
  BY <1>0, <1>19 DEF Record, Go
<1>20. CASE RetainSmoke
  BY <1>0, <1>20 DEF RetainSmoke, AfterSmoke, Go
<1>21. CASE RunCase
  BY <1>0, <1>21 DEF RunCase, At, AfterSmoke, Go, Begins
<1>22. CASE Preflight
  BY <1>0, <1>22 DEF Preflight, At, Makes, Go, Begins
<1>23. CASE PreflightPasses
  BY <1>0, <1>23 DEF PreflightPasses, Go
<1>24. CASE Trial
  BY <1>0, <1>24 DEF Trial, At, RunTrial, Makes, Go, Begins
<1>25. CASE Judge
  BY <1>0, <1>25 DEF Judge, At, Makes, Go, Begins
<1>26. CASE Publish
  BY <1>0, <1>26 DEF Publish, Go, Stop
<1>27. CASE Fails
  BY <1>0, <1>27 DEF Fails, Go, Stop
<1>28. CASE Deadline
  BY <1>0, <1>28 DEF Deadline
<1>29. CASE Kill
  BY <1>0, <1>29 DEF Kill, Fault, Go, Stop
<1>30. CASE Pause
  BY <1>0, <1>30 DEF Pause, Fault
<1>31. CASE UNCHANGED vars
  BY <1>0, <1>31
<1>32. QED
  BY <1>1, <1>2, <1>3, <1>4, <1>5, <1>6, <1>7, <1>8, <1>9, <1>10, <1>11, <1>12, <1>13, <1>14,
     <1>15, <1>16, <1>17, <1>18, <1>19, <1>20, <1>21, <1>22, <1>23, <1>24, <1>25, <1>26, <1>27,
     <1>28, <1>29, <1>30, <1>31 DEF Next, Coordinate

LEMMA PreparedStep == ResultInv /\ [Next]_vars => Prepared'
<1> SUFFICES ASSUME ResultInv, [Next]_vars PROVE Prepared'
  OBVIOUS
<1>0. Prepared
  BY DEF ResultInv
<1> USE DEF vars, others, evidence, outcome, coordinator, inputs, args, Prepared, SameInputs
<1>1. CASE \E r \in Runs : Watch(r)
  BY <1>0, <1>1 DEF Watch
<1>2. CASE \E d \in Arms \X Runs : WriteProvenance(d)
  BY <1>0, <1>2 DEF WriteProvenance
<1>3. CASE \E d \in Arms \X Runs : \E r \in Runs : Unpack(d, r)
  BY <1>0, <1>3 DEF Unpack, Fault
<1>4. CASE \E a \in Arms : Alter(a)
  BY <1>0, <1>4 DEF Alter, Fault
<1>5. CASE WatcherStops
  BY <1>0, <1>5 DEF WatcherStops, Fault
<1>6. CASE Prepare
  <2>1. prepared # "manifest" /\ pc = "idle" /\ result = None
    BY <1>0, <1>6 DEF Prepare, Extracts
  <2>2. pc' = "idle" /\ result' = None
    BY <1>6, <2>1 DEF Prepare
  <2>3. prepared' = "manifest" => SameInputs /\ work' = work
    BY <1>6 DEF Prepare, Extracts
  <2>4. QED
    BY <2>2, <2>3
<1>7. CASE ChangeArchive
  BY <1>0, <1>7 DEF ChangeArchive
<1>8. CASE ByHand
  BY <1>0, <1>8 DEF ByHand, Fault
<1>9. CASE HandTrial
  BY <1>0, <1>9 DEF HandTrial, RunTrial, Makes
<1>10. CASE Start
  BY <1>0, <1>10 DEF Start, Go
<1>11. CASE Admit
  BY <1>0, <1>11 DEF Admit, Go, Stop
<1>12. CASE ArtifactReady
  BY <1>0, <1>12 DEF ArtifactReady, Go, Stop
<1>13. CASE Retain
  BY <1>0, <1>13 DEF Retain, At, Go, Stop
<1>14. CASE AwaitDownload
  BY <1>0, <1>14 DEF AwaitDownload, At, Go, Stop
<1>15. CASE ReadProvenance
  BY <1>0, <1>15 DEF ReadProvenance, At, Go, Stop, Begins
<1>16. CASE CheckManifest
  BY <1>0, <1>16 DEF CheckManifest, Go, Stop
<1>17. CASE Extract
  BY <1>0, <1>17 DEF Extract
<1>18. CASE CheckEvidence
  BY <1>0, <1>18 DEF CheckEvidence, Go
<1>19. CASE Record
  BY <1>0, <1>19 DEF Record, Go
<1>20. CASE RetainSmoke
  BY <1>0, <1>20 DEF RetainSmoke, AfterSmoke, Go
<1>21. CASE RunCase
  BY <1>0, <1>21 DEF RunCase, At, AfterSmoke, Go, Begins
<1>22. CASE Preflight
  BY <1>0, <1>22 DEF Preflight, At, Makes, Go, Begins
<1>23. CASE PreflightPasses
  BY <1>0, <1>23 DEF PreflightPasses, Go
<1>24. CASE Trial
  BY <1>0, <1>24 DEF Trial, At, RunTrial, Makes, Go, Begins
<1>25. CASE Judge
  BY <1>0, <1>25 DEF Judge, At, Makes, Go, Begins
<1>26. CASE Publish
  BY <1>0, <1>26 DEF Publish, Go, Stop
<1>27. CASE Fails
  BY <1>0, <1>27 DEF Fails, Go, Stop
<1>28. CASE Deadline
  BY <1>0, <1>28 DEF Deadline
<1>29. CASE Kill
  BY <1>0, <1>29 DEF Kill, Fault, Go, Stop
<1>30. CASE Pause
  BY <1>0, <1>30 DEF Pause, Fault
<1>31. CASE UNCHANGED vars
  BY <1>0, <1>31
<1>32. QED
  BY <1>1, <1>2, <1>3, <1>4, <1>5, <1>6, <1>7, <1>8, <1>9, <1>10, <1>11, <1>12, <1>13, <1>14,
     <1>15, <1>16, <1>17, <1>18, <1>19, <1>20, <1>21, <1>22, <1>23, <1>24, <1>25, <1>26, <1>27,
     <1>28, <1>29, <1>30, <1>31 DEF Next, Coordinate

LEMMA QualifiedStep == ResultInv /\ [Next]_vars => Qualified'
<1> SUFFICES ASSUME ResultInv, [Next]_vars PROVE Qualified'
  OBVIOUS
<1>0. World /\ Control /\ Records /\ Delivered /\ Qualified
  BY DEF ResultInv
<1>T. pc \in Phases /\ arm \in Arms /\ Run \in Runs /\ <<arm, Run>> \in Arms \X Runs
  BY <1>0 DEF Control, Run
<1>C. None \notin Runs /\ Torn \notin Runs
  BY Constants
<1> USE DEF vars, others, evidence, outcome, coordinator, inputs, args, Qualified, Delivering
<1>1. CASE \E r \in Runs : Watch(r)
  <2>1. /\ UNCHANGED <<arm, given, packages, download>> /\ pc' = pc
    BY <1>1 DEF Watch
  <2>2. QED
    BY <1>0, <2>1 DEF Run, Package, Delivery, Bound
<1>2. CASE \E d \in Arms \X Runs : WriteProvenance(d)
  <2>1. PICK d \in Arms \X Runs : WriteProvenance(d)
    BY <1>2
  <2>2. UNCHANGED <<pc, arm, given, packages>>
    BY <2>1 DEF WriteProvenance
  <2>3. \A e \in Arms \X Runs : download[e].provenance \in Runs => download'[e].provenance = download[e].provenance /\ download'[e].of = download[e].of
    <3>1. download' = [download EXCEPT ![d] = [download[d] EXCEPT !.provenance = IF download[d].provenance = None THEN Torn ELSE download[d].of]]
      BY <2>1 DEF WriteProvenance
    <3>2. download[d].provenance \notin Runs
      BY <1>C, <2>1 DEF WriteProvenance
    <3>3. \A e \in Arms \X Runs : e # d => download'[e] = download[e]
      BY <1>0, <3>1 DEF World
    <3>4. QED
      BY <3>2, <3>3
  <2>4. pc \in {"manifest", "extract", "record"} => Delivery'.of = Delivery.of /\ Delivery'.provenance = Delivery.provenance
    BY <1>0, <1>T, <2>2, <2>3 DEF Run, Delivery, Bound
  <2>5. QED
    BY <1>0, <2>2, <2>4 DEF Run, Package, Bound
<1>3. CASE \E d \in Arms \X Runs : \E r \in Runs : Unpack(d, r)
  <2>1. PICK d \in Arms \X Runs, r \in Runs : Unpack(d, r)
    BY <1>3
  <2>2. UNCHANGED <<pc, arm, given, packages>>
    BY <2>1 DEF Unpack
  <2>3. \A e \in Arms \X Runs : download[e].provenance \in Runs => download'[e].provenance = download[e].provenance /\ download'[e].of = download[e].of
    <3>1. download' = [download EXCEPT ![d] = [download[d] EXCEPT !.of = r]]
      BY <2>1 DEF Unpack
    <3>2. download[d].provenance \notin Runs
      BY <1>0, <1>C, <2>1 DEF Unpack, Delivered
    <3>3. \A e \in Arms \X Runs : e # d => download'[e] = download[e]
      BY <1>0, <3>1 DEF World
    <3>4. QED
      BY <3>2, <3>3
  <2>4. pc \in {"manifest", "extract", "record"} => Delivery'.of = Delivery.of /\ Delivery'.provenance = Delivery.provenance
    BY <1>0, <1>T, <2>2, <2>3 DEF Run, Delivery, Bound
  <2>5. QED
    BY <1>0, <2>2, <2>4 DEF Run, Package, Bound
<1>4. CASE \E a \in Arms : Alter(a)
  <2>1. pc' = "idle"
    BY <1>4 DEF Alter
  <2>2. QED
    BY <2>1
<1>5. CASE WatcherStops
  <2>1. /\ UNCHANGED <<arm, given, packages, download>> /\ pc' = pc
    BY <1>5 DEF WatcherStops
  <2>2. QED
    BY <1>0, <2>1 DEF Run, Package, Delivery, Bound
<1>6. CASE Prepare
  <2>1. /\ UNCHANGED <<arm, given, packages, download>> /\ pc' = pc
    BY <1>6 DEF Prepare
  <2>2. QED
    BY <1>0, <2>1 DEF Run, Package, Delivery, Bound
<1>7. CASE ChangeArchive
  <2>1. /\ UNCHANGED <<arm, given, packages, download>> /\ pc' = pc
    BY <1>7 DEF ChangeArchive
  <2>2. QED
    BY <1>0, <2>1 DEF Run, Package, Delivery, Bound
<1>8. CASE ByHand
  <2>1. /\ UNCHANGED <<arm, given, packages, download>> /\ pc' = pc
    BY <1>8 DEF ByHand
  <2>2. QED
    BY <1>0, <2>1 DEF Run, Package, Delivery, Bound
<1>9. CASE HandTrial
  <2>1. /\ UNCHANGED <<arm, given, packages, download>> /\ pc' = pc
    BY <1>9 DEF HandTrial
  <2>2. QED
    BY <1>0, <2>1 DEF Run, Package, Delivery, Bound
<1>10. CASE Start
  <2>1. pc' \in {"idle", "ready", "smoke", "case", "preflight", "provider", "trial", "judge", "publish"}
    BY <1>10 DEF Start, Go
  <2>2. QED
    BY <2>1
<1>11. CASE Admit
  <2>1. /\ UNCHANGED <<arm, given, packages, download>> /\ (pc' = pc \/ pc' = "idle")
    BY <1>11 DEF Admit, Go, Stop
  <2>2. QED
    BY <1>0, <2>1 DEF Run, Package, Delivery, Bound
<1>12. CASE ArtifactReady
  <2>1. /\ UNCHANGED <<arm, given, packages, download>>
        /\ pc' = "idle" \/ (pc' = "package" /\ HeadOf[Run] = Wanted /\ Verdict = "success")
    BY <1>12 DEF ArtifactReady, Go, Stop
  <2>2. Verdict = "success" => VariantOf[Run] = arm
    BY DEF Verdict
  <2>3. QED
    BY <2>1, <2>2 DEF Run
<1>13. CASE Retain
  <2>1. pc' \in {"idle", "ready", "smoke", "case", "preflight", "provider", "trial", "judge", "publish"}
    BY <1>13 DEF Retain, Go, Stop
  <2>2. QED
    BY <2>1
<1>14. CASE AwaitDownload
  <2>1. /\ UNCHANGED <<arm, given, packages, download>>
        /\ pc' = "idle" \/ (pc' = "download" /\ pc = "package" /\ Package.verified = None)
    BY <1>14 DEF AwaitDownload, At, Go, Stop
  <2>2. QED
    BY <1>0, <2>1 DEF Run, Package
<1>15. CASE ReadProvenance
  <2>1. /\ UNCHANGED <<arm, given, packages, download>>
        /\ pc' = "idle" \/ (pc' = "manifest" /\ Bound)
        /\ pc = "download" \/ (pc = "package" /\ Package.verified = None)
    BY <1>15 DEF ReadProvenance, At, Go, Stop
  <2>2. QED
    BY <1>0, <2>1 DEF Run, Package, Delivery, Bound
<1>16. CASE CheckManifest
  <2>1. /\ UNCHANGED <<arm, given, packages, download>> /\ pc = "manifest"
        /\ pc' = "idle" \/ (pc' = "extract" /\ FilesMatch)
    BY <1>16 DEF CheckManifest, Go, Stop
  <2>2. QED
    BY <1>0, <2>1 DEF Run, Package, Delivery, FilesMatch, Bound
<1>17. CASE Extract
  <2>1. UNCHANGED <<arm, given, download>> /\ pc = "extract" /\ pc' = "extract"
    BY <1>17 DEF Extract
  <2>2. packages' = [packages EXCEPT ![arm] = [packages[arm] EXCEPT !.files = packages[arm].files + 1, !.of = Delivery.of]]
    BY <1>17 DEF Extract
  <2>3. packages'[arm].of = Delivery.of /\ packages'[arm].verified = packages[arm].verified
    BY <1>0, <1>T, <2>2 DEF Records
  <2>4. QED
    BY <1>0, <2>1, <2>3 DEF Run, Package, Delivery, Bound
<1>18. CASE CheckEvidence
  <2>1. UNCHANGED <<arm, given, download>> /\ pc = "extract" /\ pc' = "record" /\ ~(Package.files < Whole)
    BY <1>18 DEF CheckEvidence, Go, Missing
  <2>2. packages' = [packages EXCEPT ![arm] = [packages[arm] EXCEPT !.verified = Torn]]
    BY <1>18 DEF CheckEvidence
  <2>3. packages'[arm].of = packages[arm].of /\ packages'[arm].verified = Torn
    BY <1>0, <1>T, <2>2 DEF Records
  <2>4. Package.files # 0
    BY <2>1 DEF Whole
  <2>5. Package.of = Run
    BY <1>0, <2>1, <2>4, Bindings
  <2>6. QED
    BY <1>0, <2>1, <2>3, <2>5 DEF Run, Package, Delivery, Bound
<1>19. CASE Record
  <2>1. pc' \in {"idle", "ready", "smoke", "case", "preflight", "provider", "trial", "judge", "publish"}
    BY <1>19 DEF Record, Go
  <2>2. QED
    BY <2>1
<1>20. CASE RetainSmoke
  <2>1. pc' \in {"idle", "ready", "smoke", "case", "preflight", "provider", "trial", "judge", "publish"}
    BY <1>20 DEF RetainSmoke, AfterSmoke, Go
  <2>2. QED
    BY <2>1
<1>21. CASE RunCase
  <2>1. pc' \in {"idle", "ready", "smoke", "case", "preflight", "provider", "trial", "judge", "publish"}
    BY <1>21 DEF RunCase, AfterSmoke, Go
  <2>2. QED
    BY <2>1
<1>22. CASE Preflight
  <2>1. pc' \in {"idle", "ready", "smoke", "case", "preflight", "provider", "trial", "judge", "publish"}
    BY <1>22 DEF Preflight, Go
  <2>2. QED
    BY <2>1
<1>23. CASE PreflightPasses
  <2>1. pc' \in {"idle", "ready", "smoke", "case", "preflight", "provider", "trial", "judge", "publish"}
    BY <1>23 DEF PreflightPasses, Go
  <2>2. QED
    BY <2>1
<1>24. CASE Trial
  <2>1. pc' \in {"idle", "ready", "smoke", "case", "preflight", "provider", "trial", "judge", "publish"}
    BY <1>24 DEF Trial, Go
  <2>2. QED
    BY <2>1
<1>25. CASE Judge
  <2>1. pc' \in {"judge", "publish"}
    BY <1>25 DEF Judge, At, Go
  <2>2. QED
    BY <2>1
<1>26. CASE Publish
  <2>1. pc' \in {"idle", "ready", "smoke", "case", "preflight", "provider", "trial", "judge", "publish"}
    BY <1>26 DEF Publish, Go, Stop
  <2>2. QED
    BY <2>1
<1>27. CASE Fails
  <2>1. pc' \in {"idle", "ready", "smoke", "case", "preflight", "provider", "trial", "judge", "publish"}
    BY <1>27 DEF Fails, Go, Stop
  <2>2. QED
    BY <2>1
<1>28. CASE Deadline
  <2>1. /\ UNCHANGED <<arm, given, packages, download>> /\ pc' = pc
    BY <1>28 DEF Deadline
  <2>2. QED
    BY <1>0, <2>1 DEF Run, Package, Delivery, Bound
<1>29. CASE Kill
  <2>1. pc' \in {"idle", "ready", "smoke", "case", "preflight", "provider", "trial", "judge", "publish"}
    BY <1>29 DEF Kill, Go, Stop
  <2>2. QED
    BY <2>1
<1>30. CASE Pause
  <2>1. /\ UNCHANGED <<arm, given, packages, download>> /\ pc' = pc
    BY <1>30 DEF Pause
  <2>2. QED
    BY <1>0, <2>1 DEF Run, Package, Delivery, Bound
<1>31. CASE UNCHANGED vars
  BY <1>0, <1>T, <1>C, <1>31 DEF Run, Package, Delivery, Bound
<1>32. QED
  BY <1>1, <1>2, <1>3, <1>4, <1>5, <1>6, <1>7, <1>8, <1>9, <1>10, <1>11, <1>12, <1>13, <1>14,
     <1>15, <1>16, <1>17, <1>18, <1>19, <1>20, <1>21, <1>22, <1>23, <1>24, <1>25, <1>26, <1>27,
     <1>28, <1>29, <1>30, <1>31 DEF Next, Coordinate

LEMMA VerifiedStep == ResultInv /\ [Next]_vars => Verified'
<1> SUFFICES ASSUME ResultInv, [Next]_vars PROVE Verified'
  OBVIOUS
<1>0. World /\ Control /\ Records /\ Delivered /\ Qualified /\ Verified /\ Progress
  BY DEF ResultInv
<1>T. arm \in Arms /\ Torn \notin Runs /\ None \notin Runs
  BY <1>0, Constants DEF Control
<1> USE DEF vars, others, evidence, outcome, coordinator, inputs, args, Verified
<1>1. CASE \E r \in Runs : Watch(r)
  BY <1>0, <1>T, <1>1 DEF Watch
<1>2. CASE \E d \in Arms \X Runs : WriteProvenance(d)
  BY <1>0, <1>T, <1>2 DEF WriteProvenance
<1>3. CASE \E d \in Arms \X Runs : \E r \in Runs : Unpack(d, r)
  BY <1>0, <1>T, <1>3 DEF Unpack, Fault
<1>4. CASE \E a \in Arms : Alter(a)
  <2>1. PICK a \in Arms : Alter(a)
    BY <1>4
  <2>2. packages' = [packages EXCEPT ![a] = [packages[a] EXCEPT !.of = Altered]] /\ summary' = summary
    BY <2>1 DEF Alter
  <2>3. \A b \in Arms : packages'[b].verified = packages[b].verified
    BY <1>0, <2>2 DEF Records
  <2>4. QED
    BY <1>0, <2>2, <2>3
<1>5. CASE WatcherStops
  BY <1>0, <1>T, <1>5 DEF WatcherStops, Fault
<1>6. CASE Prepare
  BY <1>0, <1>T, <1>6 DEF Prepare, Extracts
<1>7. CASE ChangeArchive
  BY <1>0, <1>T, <1>7 DEF ChangeArchive, Fault
<1>8. CASE ByHand
  BY <1>0, <1>T, <1>8 DEF ByHand, Fault
<1>9. CASE HandTrial
  BY <1>0, <1>T, <1>9 DEF HandTrial, RunTrial, Makes
<1>10. CASE Start
  BY <1>0, <1>T, <1>10 DEF Start, Go
<1>11. CASE Admit
  BY <1>0, <1>T, <1>11 DEF Admit, Go, Stop
<1>12. CASE ArtifactReady
  BY <1>0, <1>T, <1>12 DEF ArtifactReady, Go, Stop
<1>13. CASE Retain
  BY <1>0, <1>T, <1>13 DEF Retain, At, Go, Stop
<1>14. CASE AwaitDownload
  BY <1>0, <1>T, <1>14 DEF AwaitDownload, At, Go, Stop
<1>15. CASE ReadProvenance
  BY <1>0, <1>T, <1>15 DEF ReadProvenance, At, Go, Stop, Begins
<1>16. CASE CheckManifest
  BY <1>0, <1>T, <1>16 DEF CheckManifest, Go, Stop
<1>17. CASE Extract
  <2>1. packages' = [packages EXCEPT ![arm] = [packages[arm] EXCEPT !.files = packages[arm].files + 1, !.of = Delivery.of]] /\ summary' = summary
    BY <1>17 DEF Extract
  <2>2. \A b \in Arms : packages'[b].verified = packages[b].verified
    BY <1>0, <1>T, <2>1 DEF Records
  <2>3. QED
    BY <1>0, <2>1, <2>2
<1>18. CASE CheckEvidence
  <2>1. packages' = [packages EXCEPT ![arm] = [packages[arm] EXCEPT !.verified = Torn]] /\ summary' = summary /\ pc = "extract"
    BY <1>18 DEF CheckEvidence
  <2>2. packages'[arm].verified = Torn /\ \A b \in Arms : b # arm => packages'[b] = packages[b]
    BY <1>0, <1>T, <2>1 DEF Records
  <2>3. packages[arm].verified = None
    BY <1>0, <2>1 DEF Qualified, Package
  <2>4. QED
    BY <1>0, <1>T, <2>1, <2>2, <2>3
<1>19. CASE Record
  <2>1. packages' = [packages EXCEPT ![arm] = [packages[arm] EXCEPT !.verified = Delivery.of]] /\ summary' = summary /\ pc = "record"
    BY <1>19 DEF Record
  <2>2. packages'[arm].verified = Delivery.of /\ \A b \in Arms : b # arm => packages'[b] = packages[b]
    BY <1>0, <1>T, <2>1 DEF Records
  <2>3. packages[arm].verified = Torn
    BY <1>0, <2>1 DEF Qualified, Package
  <2>4. VariantOf[Delivery.of] = arm
    BY <1>0, <2>1, Bindings
  <2>5. QED
    BY <1>0, <1>T, <2>1, <2>2, <2>3, <2>4
<1>20. CASE RetainSmoke
  BY <1>0, <1>T, <1>20 DEF RetainSmoke, AfterSmoke, Go
<1>21. CASE RunCase
  <2>1. packages' = packages /\ pc = "case" /\ (summary' = summary \/ summary' = [summary EXCEPT ![arm] = Package.of])
    BY <1>21 DEF RunCase, At
  <2>2. Package.of \in Runs /\ Package.of = packages[arm].verified
    BY <1>0, <2>1 DEF Progress, Smoking, Through, Package
  <2>3. QED
    BY <1>0, <2>1, <2>2 DEF Records
<1>22. CASE Preflight
  BY <1>0, <1>T, <1>22 DEF Preflight, At, Makes, Go, Begins
<1>23. CASE PreflightPasses
  BY <1>0, <1>T, <1>23 DEF PreflightPasses, Go
<1>24. CASE Trial
  BY <1>0, <1>T, <1>24 DEF Trial, At, RunTrial, Makes, Go, Begins
<1>25. CASE Judge
  BY <1>0, <1>T, <1>25 DEF Judge, At, Makes, Go, Begins
<1>26. CASE Publish
  BY <1>0, <1>T, <1>26 DEF Publish, Go, Stop
<1>27. CASE Fails
  BY <1>0, <1>T, <1>27 DEF Fails, Go, Stop
<1>28. CASE Deadline
  BY <1>0, <1>T, <1>28 DEF Deadline
<1>29. CASE Kill
  BY <1>0, <1>T, <1>29 DEF Kill, Fault, Go, Stop
<1>30. CASE Pause
  BY <1>0, <1>T, <1>30 DEF Pause, Fault
<1>31. CASE UNCHANGED vars
  BY <1>0, <1>T, <1>31
<1>32. QED
  BY <1>1, <1>2, <1>3, <1>4, <1>5, <1>6, <1>7, <1>8, <1>9, <1>10, <1>11, <1>12, <1>13, <1>14,
     <1>15, <1>16, <1>17, <1>18, <1>19, <1>20, <1>21, <1>22, <1>23, <1>24, <1>25, <1>26, <1>27,
     <1>28, <1>29, <1>30, <1>31 DEF Next, Coordinate

LEMMA ProgressStep == ResultInv /\ [Next]_vars => Progress'
<1> SUFFICES ASSUME ResultInv, [Next]_vars PROVE Progress'
  OBVIOUS
<1>0. World /\ Control /\ Records /\ Delivered /\ Qualified /\ Verified /\ Progress
  BY DEF ResultInv
<1>T. arm \in Arms /\ Arms = {"baseline", "harnessmm"} /\ None \notin Runs /\ pc \in Phases /\ package \in [Arms -> {None} \cup Runs]
  BY <1>0, Constants DEF Control, Arms
<1> USE DEF vars, others, evidence, outcome, coordinator, inputs, args, Progress, Qualifying, Delivering, Smoking, Paying
<1>1. CASE \E r \in Runs : Watch(r)
  <2>1. UNCHANGED <<packages, summary, package, arm>> /\ pc' = pc
    BY <1>1 DEF Watch
  <2>2. QED
    BY <1>0, <2>1 DEF Through, Smoked
<1>2. CASE \E d \in Arms \X Runs : WriteProvenance(d)
  <2>1. UNCHANGED <<packages, summary, package, arm>> /\ pc' = pc
    BY <1>2 DEF WriteProvenance
  <2>2. QED
    BY <1>0, <2>1 DEF Through, Smoked
<1>3. CASE \E d \in Arms \X Runs : \E r \in Runs : Unpack(d, r)
  <2>1. UNCHANGED <<packages, summary, package, arm>> /\ pc' = pc
    BY <1>3 DEF Unpack
  <2>2. QED
    BY <1>0, <2>1 DEF Through, Smoked
<1>4. CASE \E a \in Arms : Alter(a)
  <2>1. pc' = "idle"
    BY <1>4 DEF Alter
  <2>2. QED
    BY <2>1
<1>5. CASE WatcherStops
  <2>1. UNCHANGED <<packages, summary, package, arm>> /\ pc' = pc
    BY <1>5 DEF WatcherStops
  <2>2. QED
    BY <1>0, <2>1 DEF Through, Smoked
<1>6. CASE Prepare
  <2>1. UNCHANGED <<packages, summary, package, arm>> /\ pc' = pc
    BY <1>6 DEF Prepare
  <2>2. QED
    BY <1>0, <2>1 DEF Through, Smoked
<1>7. CASE ChangeArchive
  <2>1. UNCHANGED <<packages, summary, package, arm>> /\ pc' = pc
    BY <1>7 DEF ChangeArchive
  <2>2. QED
    BY <1>0, <2>1 DEF Through, Smoked
<1>8. CASE ByHand
  <2>1. UNCHANGED <<packages, summary, package, arm>> /\ pc' = pc
    BY <1>8 DEF ByHand
  <2>2. QED
    BY <1>0, <2>1 DEF Through, Smoked
<1>9. CASE HandTrial
  <2>1. UNCHANGED <<packages, summary, package, arm>> /\ pc' = pc
    BY <1>9 DEF HandTrial
  <2>2. QED
    BY <1>0, <2>1 DEF Through, Smoked
<1>10. CASE Start
  <2>1. pc' = "ready" /\ arm' = "baseline" /\ package' = [a \in Arms |-> None]
    BY <1>10 DEF Start, Go
  <2>2. QED
    BY <1>T, <2>1
<1>11. CASE Admit
  <2>1. UNCHANGED <<packages, summary, package, arm>> /\ (pc' = pc \/ pc' = "idle")
    BY <1>11 DEF Admit, Go, Stop
  <2>2. QED
    BY <1>0, <2>1 DEF Through, Smoked
<1>12. CASE ArtifactReady
  <2>1. UNCHANGED <<packages, summary, package, arm>> /\ (pc' = "idle" \/ (pc \in Qualifying /\ pc' \in Qualifying))
    BY <1>12 DEF ArtifactReady, Go, Stop, Qualifying, Delivering
  <2>2. QED
    BY <1>0, <2>1 DEF Through, Smoked
<1>13. CASE Retain
  <2>1. /\ UNCHANGED <<summary, packages, arm>> /\ pc = "package"
        /\ pc' = "idle" \/ (pc' = "smoke" /\ RetainedIsSound /\ package' = [package EXCEPT ![arm] = Package.verified])
    BY <1>13 DEF Retain, At, Go, Stop
  <2>2. CASE pc' = "idle"
    BY <2>2
  <2>3. CASE pc' # "idle"
    <3>1. package'[arm] = packages[arm].verified /\ \A b \in Arms : b # arm => package'[b] = package[b]
      BY <1>T, <2>1, <2>3 DEF Package
    <3>2. Through(arm)'
      BY <2>1, <2>3, <3>1 DEF Through, RetainedIsSound, Package
    <3>3. QED
      BY <1>0, <1>T, <2>1, <2>3, <3>1, <3>2 DEF Through, Smoked
  <2>4. QED
    BY <2>2, <2>3
<1>14. CASE AwaitDownload
  <2>1. UNCHANGED <<packages, summary, package, arm>> /\ (pc' = "idle" \/ (pc \in Qualifying /\ pc' \in Qualifying))
    BY <1>14 DEF AwaitDownload, At, Go, Stop, Qualifying, Delivering
  <2>2. QED
    BY <1>0, <2>1 DEF Through, Smoked
<1>15. CASE ReadProvenance
  <2>1. UNCHANGED <<packages, summary, package, arm>> /\ (pc' = "idle" \/ (pc \in Qualifying /\ pc' \in Qualifying))
    BY <1>15 DEF ReadProvenance, At, Go, Stop, Qualifying, Delivering
  <2>2. QED
    BY <1>0, <2>1 DEF Through, Smoked
<1>16. CASE CheckManifest
  <2>1. UNCHANGED <<packages, summary, package, arm>> /\ (pc' = "idle" \/ (pc \in Qualifying /\ pc' \in Qualifying))
    BY <1>16 DEF CheckManifest, Go, Stop, Qualifying, Delivering
  <2>2. QED
    BY <1>0, <2>1 DEF Through, Smoked
<1>17. CASE Extract
  <2>1. packages' = [packages EXCEPT ![arm] = [packages[arm] EXCEPT !.files = packages[arm].files + 1, !.of = Delivery.of]]
        /\ UNCHANGED <<summary, package, arm>> /\ pc \in {"extract", "record"} /\ pc' \in {"extract", "record"}
    BY <1>17 DEF Extract
  <2>2. \A b \in Arms : b # arm => packages'[b] = packages[b]
    BY <1>0, <1>T, <2>1 DEF Records
  <2>3. QED
    BY <1>0, <1>T, <2>1, <2>2 DEF Through, Smoked
<1>18. CASE CheckEvidence
  <2>1. packages' = [packages EXCEPT ![arm] = [packages[arm] EXCEPT !.verified = Torn]]
        /\ UNCHANGED <<summary, package, arm>> /\ pc \in {"extract", "record"} /\ pc' \in {"extract", "record"}
    BY <1>18 DEF CheckEvidence, Go
  <2>2. \A b \in Arms : b # arm => packages'[b] = packages[b]
    BY <1>0, <1>T, <2>1 DEF Records
  <2>3. QED
    BY <1>0, <1>T, <2>1, <2>2 DEF Through, Smoked
<1>19. CASE Record
  <2>1. /\ packages' = [packages EXCEPT ![arm] = [packages[arm] EXCEPT !.verified = Delivery.of]]
        /\ package' = [package EXCEPT ![arm] = Delivery.of]
        /\ UNCHANGED <<summary, arm>> /\ pc = "record" /\ pc' = "smoke"
    BY <1>19 DEF Record, Go
  <2>2. Delivery.of \in Runs /\ HeadOf[Delivery.of] = Wanted /\ packages[arm].of = Delivery.of
    BY <1>0, <2>1, Bindings DEF Qualified, Package
  <2>3. packages'[arm].of = packages[arm].of /\ packages'[arm].verified = Delivery.of /\ \A b \in Arms : b # arm => packages'[b] = packages[b]
    BY <1>0, <1>T, <2>1 DEF Records
  <2>4. package'[arm] = Delivery.of /\ \A b \in Arms : b # arm => package'[b] = package[b]
    BY <1>T, <2>1
  <2>5. Through(arm)'
    BY <2>1, <2>2, <2>3, <2>4 DEF Through
  <2>6. QED
    BY <1>0, <1>T, <2>1, <2>3, <2>4, <2>5 DEF Through, Smoked
<1>20. CASE RetainSmoke
  <2>1. UNCHANGED <<packages, package>> /\ pc \in Smoking
    BY <1>20 DEF RetainSmoke
  <2>2. Through(arm) /\ packages[arm].of = packages[arm].verified
    BY <1>0, <2>1 DEF Through
  <2>3. CASE pc' = "case"
    <3>1. arm' = arm /\ summary' = summary
      BY <1>20, <2>3 DEF RetainSmoke, AfterSmoke, Go
    <3>2. QED
      BY <1>0, <2>1, <2>3, <3>1 DEF Through, Smoked
  <2>4. CASE pc' # "case"
    <3>1. /\ (IF arm = "baseline" THEN arm' = "harnessmm" /\ pc' = "ready" ELSE arm' = arm /\ pc' = "preflight")
          /\ summary'[arm] = package[arm] /\ \A b \in Arms : b # arm => summary'[b] = summary[b]
      BY <1>0, <1>T, <1>20, <2>2, <2>4 DEF RetainSmoke, AfterSmoke, Go, Through, Records,
         Verified, Package
    <3>2. (arm = "baseline" => Smoked("baseline")') /\ (arm = "harnessmm" => Smoked("harnessmm")')
      BY <2>1, <2>2, <3>1 DEF Smoked, Through
    <3>3. arm = "harnessmm" => Smoked("baseline")'
      BY <1>0, <1>T, <2>1, <3>1 DEF Smoked, Through
    <3>4. QED
      BY <1>0, <1>T, <2>1, <3>1, <3>2, <3>3
  <2>5. QED
    BY <2>3, <2>4
<1>21. CASE RunCase
  <2>1. UNCHANGED <<packages, package>> /\ pc \in Smoking
    BY <1>21 DEF RunCase, At
  <2>2. Through(arm) /\ packages[arm].of = packages[arm].verified
    BY <1>0, <2>1 DEF Through
  <2>3. CASE pc' = "case"
    <3>1. arm' = arm /\ summary' = summary
      BY <1>21, <2>3 DEF RunCase, At, AfterSmoke, Go
    <3>2. QED
      BY <1>0, <2>1, <2>3, <3>1 DEF Through, Smoked
  <2>4. CASE pc' # "case"
    <3>1. /\ (IF arm = "baseline" THEN arm' = "harnessmm" /\ pc' = "ready" ELSE arm' = arm /\ pc' = "preflight")
          /\ summary'[arm] = package[arm] /\ \A b \in Arms : b # arm => summary'[b] = summary[b]
      BY <1>0, <1>T, <1>21, <2>2, <2>4 DEF RunCase, At, AfterSmoke, Go, Through, Records,
         Verified, Package
    <3>2. (arm = "baseline" => Smoked("baseline")') /\ (arm = "harnessmm" => Smoked("harnessmm")')
      BY <2>1, <2>2, <3>1 DEF Smoked, Through
    <3>3. arm = "harnessmm" => Smoked("baseline")'
      BY <1>0, <1>T, <2>1, <3>1 DEF Smoked, Through
    <3>4. QED
      BY <1>0, <1>T, <2>1, <3>1, <3>2, <3>3
  <2>5. QED
    BY <2>3, <2>4
<1>22. CASE Preflight
  <2>1. /\ UNCHANGED <<packages, summary, package>> /\ pc \in Paying /\ pc' \in Paying /\ pc' # "preflight"
    BY <1>22 DEF Preflight, At, Go, Paying
  <2>2. QED
    BY <1>0, <2>1 DEF Smoked, Through, Paying
<1>23. CASE PreflightPasses
  <2>1. /\ UNCHANGED <<packages, summary, package>> /\ pc \in Paying /\ pc' \in Paying /\ pc' # "preflight"
    BY <1>23 DEF PreflightPasses, Go, Paying
  <2>2. QED
    BY <1>0, <2>1 DEF Smoked, Through, Paying
<1>24. CASE Trial
  <2>1. /\ UNCHANGED <<packages, summary, package>> /\ pc \in Paying /\ pc' \in Paying /\ pc' # "preflight"
    BY <1>24 DEF Trial, At, Go, Paying
  <2>2. QED
    BY <1>0, <2>1 DEF Smoked, Through, Paying
<1>25. CASE Judge
  <2>1. /\ UNCHANGED <<packages, summary, package>> /\ pc \in Paying /\ pc' \in Paying /\ pc' # "preflight"
    BY <1>25 DEF Judge, At, Go, Paying
  <2>2. QED
    BY <1>0, <2>1 DEF Smoked, Through, Paying
<1>26. CASE Publish
  <2>1. pc' = "idle"
    BY <1>26 DEF Publish, Go, Stop
  <2>2. QED
    BY <2>1
<1>27. CASE Fails
  <2>1. pc' = "idle"
    BY <1>27 DEF Fails, Go, Stop
  <2>2. QED
    BY <2>1
<1>28. CASE Deadline
  <2>1. UNCHANGED <<packages, summary, package, arm>> /\ pc' = pc
    BY <1>28 DEF Deadline
  <2>2. QED
    BY <1>0, <2>1 DEF Through, Smoked
<1>29. CASE Kill
  <2>1. pc' = "idle"
    BY <1>29 DEF Kill, Go, Stop
  <2>2. QED
    BY <2>1
<1>30. CASE Pause
  <2>1. UNCHANGED <<packages, summary, package, arm>> /\ pc' = pc
    BY <1>30 DEF Pause
  <2>2. QED
    BY <1>0, <2>1 DEF Through, Smoked
<1>31. CASE UNCHANGED vars
  BY <1>0, <1>T, <1>31 DEF Through, Smoked
<1>32. QED
  BY <1>1, <1>2, <1>3, <1>4, <1>5, <1>6, <1>7, <1>8, <1>9, <1>10, <1>11, <1>12, <1>13, <1>14,
     <1>15, <1>16, <1>17, <1>18, <1>19, <1>20, <1>21, <1>22, <1>23, <1>24, <1>25, <1>26, <1>27,
     <1>28, <1>29, <1>30, <1>31 DEF Next, Coordinate

LEMMA TrialsStep == ResultInv /\ [Next]_vars => Trials'
<1> SUFFICES ASSUME ResultInv, [Next]_vars PROVE Trials'
  OBVIOUS
<1>0. World /\ Control /\ Records /\ Verified /\ Progress /\ Trials
  BY DEF ResultInv
<1>T. arm \in Arms /\ Arms = {"baseline", "harnessmm"} /\ None \notin Runs
  BY <1>0, Constants DEF Control, Arms
<1> USE DEF vars, others, evidence, outcome, coordinator, inputs, args, Trials
<1>1. CASE \E r \in Runs : Watch(r)
  <2>1. UNCHANGED <<package, arm, tried, result>> /\ pc' = pc
    BY <1>1 DEF Watch
  <2>2. QED
    BY <1>0, <2>1 DEF Tried
<1>2. CASE \E d \in Arms \X Runs : WriteProvenance(d)
  <2>1. UNCHANGED <<package, arm, tried, result>> /\ pc' = pc
    BY <1>2 DEF WriteProvenance
  <2>2. QED
    BY <1>0, <2>1 DEF Tried
<1>3. CASE \E d \in Arms \X Runs : \E r \in Runs : Unpack(d, r)
  <2>1. UNCHANGED <<package, arm, tried, result>> /\ pc' = pc
    BY <1>3 DEF Unpack
  <2>2. QED
    BY <1>0, <2>1 DEF Tried
<1>4. CASE \E a \in Arms : Alter(a)
  <2>1. UNCHANGED <<package, arm, tried, result>> /\ pc' = pc
    BY <1>4 DEF Alter
  <2>2. QED
    BY <1>0, <2>1 DEF Tried
<1>5. CASE WatcherStops
  <2>1. UNCHANGED <<package, arm, tried, result>> /\ pc' = pc
    BY <1>5 DEF WatcherStops
  <2>2. QED
    BY <1>0, <2>1 DEF Tried
<1>6. CASE Prepare
  <2>1. UNCHANGED <<package, arm, tried, result>> /\ pc' = pc
    BY <1>6 DEF Prepare
  <2>2. QED
    BY <1>0, <2>1 DEF Tried
<1>7. CASE ChangeArchive
  <2>1. UNCHANGED <<package, arm, tried, result>> /\ pc' = pc
    BY <1>7 DEF ChangeArchive
  <2>2. QED
    BY <1>0, <2>1 DEF Tried
<1>8. CASE ByHand
  <2>1. UNCHANGED <<package, arm, tried, result>> /\ pc' = pc
    BY <1>8 DEF ByHand
  <2>2. QED
    BY <1>0, <2>1 DEF Tried
<1>9. CASE HandTrial
  <2>1. UNCHANGED <<pc, package, arm, result>>
    BY <1>9 DEF HandTrial
  <2>2. \A a \in Arms : tried[a] \subseteq tried'[a]
    <3>1. CASE tried' = tried
      BY <3>1
    <3>2. CASE RunTrial(hand, "hand") /\ hand # None
      <4>1. hand \in Arms
        BY <1>0, <3>2 DEF World
      <4>2. tried'[hand] = tried[hand] \cup {<<"hand", packages[hand].of>>} /\ \A b \in Arms : b # hand => tried'[b] = tried[b]
        BY <1>0, <3>2, <4>1, TrialAdded
      <4>3. QED
        BY <4>2
    <3>3. QED
      BY <1>9, <3>1, <3>2 DEF HandTrial
  <2>3. QED
    BY <1>0, <1>T, <2>1, <2>2 DEF Tried
<1>10. CASE Start
  <2>1. UNCHANGED <<tried, result>> /\ pc' \notin {"trial", "judge", "publish"}
    BY <1>10 DEF Start, Go
  <2>2. QED
    BY <1>0, <2>1
<1>11. CASE Admit
  <2>1. UNCHANGED <<package, arm, tried, result>> /\ (pc' = pc \/ pc' = "idle")
    BY <1>11 DEF Admit, Go, Stop
  <2>2. QED
    BY <1>0, <2>1 DEF Tried
<1>12. CASE ArtifactReady
  <2>1. UNCHANGED <<tried, result>> /\ pc' \notin {"trial", "judge", "publish"}
    BY <1>12 DEF ArtifactReady, Go, Stop
  <2>2. QED
    BY <1>0, <2>1
<1>13. CASE Retain
  <2>1. UNCHANGED <<tried, result>> /\ pc' \notin {"trial", "judge", "publish"}
    BY <1>13 DEF Retain, Go, Stop
  <2>2. QED
    BY <1>0, <2>1
<1>14. CASE AwaitDownload
  <2>1. UNCHANGED <<tried, result>> /\ pc' \notin {"trial", "judge", "publish"}
    BY <1>14 DEF AwaitDownload, Go, Stop
  <2>2. QED
    BY <1>0, <2>1
<1>15. CASE ReadProvenance
  <2>1. UNCHANGED <<tried, result>> /\ pc' \notin {"trial", "judge", "publish"}
    BY <1>15 DEF ReadProvenance, Go, Stop
  <2>2. QED
    BY <1>0, <2>1
<1>16. CASE CheckManifest
  <2>1. UNCHANGED <<tried, result>> /\ pc' \notin {"trial", "judge", "publish"}
    BY <1>16 DEF CheckManifest, Go, Stop
  <2>2. QED
    BY <1>0, <2>1
<1>17. CASE Extract
  <2>1. UNCHANGED <<package, arm, tried, result>> /\ pc' = pc
    BY <1>17 DEF Extract
  <2>2. QED
    BY <1>0, <2>1 DEF Tried
<1>18. CASE CheckEvidence
  <2>1. UNCHANGED <<tried, result>> /\ pc' \notin {"trial", "judge", "publish"}
    BY <1>18 DEF CheckEvidence, Go
  <2>2. QED
    BY <1>0, <2>1
<1>19. CASE Record
  <2>1. UNCHANGED <<tried, result>> /\ pc' \notin {"trial", "judge", "publish"}
    BY <1>19 DEF Record, Go
  <2>2. QED
    BY <1>0, <2>1
<1>20. CASE RetainSmoke
  <2>1. UNCHANGED <<tried, result>> /\ pc' \notin {"trial", "judge", "publish"}
    BY <1>20 DEF RetainSmoke, AfterSmoke, Go
  <2>2. QED
    BY <1>0, <2>1
<1>21. CASE RunCase
  <2>1. UNCHANGED <<tried, result>> /\ pc' \notin {"trial", "judge", "publish"}
    BY <1>21 DEF RunCase, AfterSmoke, Go
  <2>2. QED
    BY <1>0, <2>1
<1>22. CASE Preflight
  <2>1. UNCHANGED <<tried, result>> /\ pc' \notin {"trial", "judge", "publish"}
    BY <1>22 DEF Preflight, Go
  <2>2. QED
    BY <1>0, <2>1
<1>23. CASE PreflightPasses
  <2>1. UNCHANGED <<tried, result>> /\ pc' = "trial" /\ arm' = "baseline"
    BY <1>23 DEF PreflightPasses, Go
  <2>2. QED
    BY <1>0, <2>1
<1>24. CASE Trial
  <2>1. /\ UNCHANGED <<package, result>> /\ pc = "trial" /\ RunTrial(arm, "coordinator")
        /\ IF arm = "baseline" THEN arm' = "harnessmm" /\ pc' = "trial" ELSE arm' = "baseline" /\ pc' = "judge"
    BY <1>24 DEF Trial, At, Go
  <2>2. tried'[arm] = tried[arm] \cup {<<"coordinator", packages[arm].of>>} /\ \A b \in Arms : b # arm => tried'[b] = tried[b]
    BY <1>0, <1>T, <2>1, TrialAdded
  <2>3. \A a \in Arms : tried[a] \subseteq tried'[a]
    BY <2>2
  <2>4. packages[arm].of = package[arm]
    BY <1>0, <1>T, <2>1 DEF Progress, Paying, Smoked, Through
  <2>5. <<"coordinator", package'[arm]>> \in tried'[arm]
    BY <2>1, <2>2, <2>4
  <2>6. (pc' = "trial" /\ arm' = "harnessmm" => Tried("baseline")') /\ (pc' = "judge" => \A a \in Arms : Tried(a)')
    BY <1>0, <1>T, <2>1, <2>3, <2>5 DEF Tried
  <2>7. QED
    BY <1>0, <1>T, <2>1, <2>3, <2>6
<1>25. CASE Judge
  <2>1. UNCHANGED <<tried, result, package>> /\ pc = "judge" /\ pc' \in {"judge", "publish"}
    BY <1>25 DEF Judge, At, Go
  <2>2. QED
    BY <1>0, <2>1 DEF Tried
<1>26. CASE Publish
  <2>1. /\ tried' = tried /\ pc = "publish" /\ pc' = "idle"
        /\ result' = [a \in Arms |-> [verified |-> package[a], smoked |-> summary[a]]]
    BY <1>26 DEF Publish, Go, Stop
  <2>2. \A a \in Arms :
          /\ package[a] \in Runs /\ HeadOf[package[a]] = Wanted /\ summary[a] = package[a]
          /\ VariantOf[package[a]] = a /\ Tried(a)
    BY <1>0, <2>1 DEF Progress, Paying, Smoked, Through, Verified
  <2>3. \A a \in Arms : result'[a].verified = package[a] /\ result'[a].smoked = package[a]
    BY <2>1, <2>2
  <2>4. result' \in [Arms -> [verified : Runs, smoked : Binaries]]
    BY <2>1, <2>2 DEF Binaries
  <2>5. QED
    BY <2>1, <2>2, <2>3, <2>4 DEF Tried
<1>27. CASE Fails
  <2>1. UNCHANGED <<tried, result>> /\ pc' \notin {"trial", "judge", "publish"}
    BY <1>27 DEF Fails, Go, Stop
  <2>2. QED
    BY <1>0, <2>1
<1>28. CASE Deadline
  <2>1. UNCHANGED <<package, arm, tried, result>> /\ pc' = pc
    BY <1>28 DEF Deadline
  <2>2. QED
    BY <1>0, <2>1 DEF Tried
<1>29. CASE Kill
  <2>1. UNCHANGED <<tried, result>> /\ pc' \notin {"trial", "judge", "publish"}
    BY <1>29 DEF Kill, Go, Stop
  <2>2. QED
    BY <1>0, <2>1
<1>30. CASE Pause
  <2>1. UNCHANGED <<package, arm, tried, result>> /\ pc' = pc
    BY <1>30 DEF Pause
  <2>2. QED
    BY <1>0, <2>1 DEF Tried
<1>31. CASE UNCHANGED vars
  BY <1>0, <1>T, <1>31 DEF Tried
<1>32. QED
  BY <1>1, <1>2, <1>3, <1>4, <1>5, <1>6, <1>7, <1>8, <1>9, <1>10, <1>11, <1>12, <1>13, <1>14,
     <1>15, <1>16, <1>17, <1>18, <1>19, <1>20, <1>21, <1>22, <1>23, <1>24, <1>25, <1>26, <1>27,
     <1>28, <1>29, <1>30, <1>31 DEF Next, Coordinate

LEMMA FlagsStep == Flags /\ [Next]_vars => Flags'
<1> SUFFICES ASSUME Flags, [Next]_vars PROVE Flags'
  OBVIOUS
<1> USE DEF Flags, others, coordinator, args, inputs, evidence, outcome
<1>1. CASE \E r \in Runs : Watch(r)
  BY <1>1, ZenonT(30) DEF Watch
<1>2. CASE \E d \in Arms \X Runs : WriteProvenance(d)
  BY <1>2, ZenonT(30) DEF WriteProvenance
<1>3. CASE \E d \in Arms \X Runs : \E r \in Runs : Unpack(d, r)
  BY <1>3, ZenonT(30) DEF Unpack, Fault
<1>4. CASE \E a \in Arms : Alter(a)
  BY <1>4, ZenonT(30) DEF Alter, Fault
<1>5. CASE WatcherStops
  BY <1>5, ZenonT(30) DEF WatcherStops, Fault
<1>6. CASE Prepare
  BY <1>6, ZenonT(30) DEF Prepare, Extracts
<1>7. CASE ChangeArchive
  BY <1>7, ZenonT(30) DEF ChangeArchive, Fault
<1>8. CASE ByHand
  BY <1>8, ZenonT(30) DEF ByHand, Fault
<1>9. CASE HandTrial
  BY <1>9, ZenonT(30) DEF HandTrial, RunTrial, Makes
<1>10. CASE Start
  BY <1>10, ZenonT(30) DEF Start, Go
<1>11. CASE Admit
  BY <1>11, ZenonT(30) DEF Admit, Go, Stop
<1>12. CASE ArtifactReady
  BY <1>12, ZenonT(30) DEF ArtifactReady, Go, Stop
<1>13. CASE Retain
  BY <1>13, ZenonT(30) DEF Retain, At, Go, Stop
<1>14. CASE AwaitDownload
  BY <1>14, ZenonT(30) DEF AwaitDownload, At, Go, Stop
<1>15. CASE ReadProvenance
  BY <1>15, ZenonT(30) DEF ReadProvenance, At, Go, Stop, Begins
<1>16. CASE CheckManifest
  BY <1>16, ZenonT(30) DEF CheckManifest, Go, Stop
<1>17. CASE Extract
  BY <1>17, ZenonT(30) DEF Extract
<1>18. CASE CheckEvidence
  BY <1>18, ZenonT(30) DEF CheckEvidence, Go
<1>19. CASE Record
  BY <1>19, ZenonT(30) DEF Record, Go
<1>20. CASE RetainSmoke
  BY <1>20, ZenonT(30) DEF RetainSmoke, AfterSmoke, Go
<1>21. CASE RunCase
  BY <1>21, ZenonT(30) DEF RunCase, At, AfterSmoke, Go, Begins
<1>22. CASE Preflight
  BY <1>22, ZenonT(30) DEF Preflight, At, Makes, Go, Begins
<1>23. CASE PreflightPasses
  BY <1>23, ZenonT(30) DEF PreflightPasses, Go
<1>24. CASE Trial
  BY <1>24, ZenonT(30) DEF Trial, At, RunTrial, Makes, Go, Begins
<1>25. CASE Judge
  BY <1>25, ZenonT(30) DEF Judge, At, Makes, Go, Begins
<1>26. CASE Publish
  BY <1>26, ZenonT(30) DEF Publish, Go, Stop
<1>27. CASE Fails
  BY <1>27, ZenonT(30) DEF Fails, Go, Stop
<1>28. CASE Deadline
  BY <1>28, ZenonT(30) DEF Deadline
<1>29. CASE Kill
  BY <1>29, ZenonT(30) DEF Kill, Fault, Go, Stop
<1>30. CASE Pause
  BY <1>30, ZenonT(30) DEF Pause, Fault
<1>31. CASE UNCHANGED vars
  BY <1>31, Zenon DEF vars
<1>32. QED
  BY <1>1, <1>2, <1>3, <1>4, <1>5, <1>6, <1>7, <1>8, <1>9, <1>10, <1>11, <1>12, <1>13, <1>14,
     <1>15, <1>16, <1>17, <1>18, <1>19, <1>20, <1>21, <1>22, <1>23, <1>24, <1>25, <1>26, <1>27,
     <1>28, <1>29, <1>30, <1>31 DEF Next, Coordinate

LEMMA ResultInit == Init => ResultInv /\ Flags
<1> SUFFICES ASSUME Init PROVE ResultInv /\ Flags
  OBVIOUS
<1>1. Flags
  BY Zenon DEF Init, Flags
<1>2. (CHOOSE r \in Runs : TRUE) \in Runs
  BY Constants
<1>3. World
  BY Constants DEF Init, World
<1>4. Control
  BY Constants, <1>2 DEF Init, Control, Phases, Arms
<1>5. Records
  BY DEF Init, Records, Whole
<1>6. Delivered
  BY Constants DEF Init, Delivered
<1>7. Prepared /\ Qualified /\ Progress
  BY DEF Init, Prepared, Qualified, Progress, Qualifying, Delivering, Smoking, Paying
<1>8. Verified
  BY Constants DEF Init, Verified
<1>9. Trials
  BY DEF Init, Trials
<1>10. QED
  BY <1>1, <1>3, <1>4, <1>5, <1>6, <1>7, <1>8, <1>9 DEF ResultInv

LEMMA ResultAlways == Spec => [](ResultInv /\ Flags)
<1>1. ResultInv /\ Flags /\ [Next]_vars => ResultInv' /\ Flags'
  BY WorldStep, ControlStep, RecordsStep, DeliveredStep, PreparedStep, QualifiedStep,
     VerifiedStep,
     ProgressStep, TrialsStep, FlagsStep DEF ResultInv
<1>2. QED
  BY ResultInit, <1>1, PTL DEF Spec

LEMMA OnceStep == OnceInv /\ Records /\ World /\ Control /\ [Next]_vars => OnceInv'
<1> SUFFICES ASSUME OnceInv, Records, World, Control, [Next]_vars PROVE OnceInv'
  OBVIOUS
<1>1. ASSUME UNCHANGED tried, made \subseteq made' PROVE OnceInv'
  BY <1>1 DEF OnceInv
<1>2. ASSUME NEW a \in Arms, NEW owner \in {"coordinator", "hand"}, RunTrial(a, owner) PROVE OnceInv'
  <2>1. tried[a] = {} /\ made' = made \cup {<<"trials", a>>}
    BY <1>2, TrialAdded DEF OnceInv
  <2>2. tried'[a] = {<<owner, packages[a].of>>} /\ \A b \in Arms : b # a => tried'[b] = tried[b]
    BY <1>2, <2>1, TrialAdded
  <2>3. ASSUME NEW b \in Arms
        PROVE  (<<"trials", b>> \notin made' => tried'[b] = {}) /\ \E trial : tried'[b] \subseteq {trial}
    <3>1. CASE b = a
      BY <2>1, <2>2, <3>1
    <3>2. CASE b # a
      BY <2>1, <2>2, <3>2 DEF OnceInv
    <3>3. QED
      BY <3>1, <3>2
  <2>4. QED
    BY <2>3 DEF OnceInv
<1>3. CASE Trial
  BY <1>2, <1>3 DEF Trial, Control
<1>4. CASE HandTrial
  BY <1>1, <1>2, <1>4 DEF HandTrial, World
<1>5. CASE Preflight \/ Judge
  BY <1>1, <1>5 DEF Preflight, Judge, Makes
<1>6. CASE \/ \E r \in Runs : Watch(r)
           \/ \E d \in Arms \X Runs : WriteProvenance(d) \/ (\E r \in Runs : Unpack(d, r))
           \/ \E a \in Arms : Alter(a)
           \/ WatcherStops \/ Prepare \/ ChangeArchive \/ ByHand \/ Start \/ Deadline \/ Kill \/ Pause
  BY <1>1, <1>6 DEF outcome, Watch, WriteProvenance, Unpack, Alter, WatcherStops, Prepare,
     ChangeArchive,
                    ByHand, Start, Deadline, Kill, Pause
<1>7. CASE Admit \/ ArtifactReady \/ Retain \/ AwaitDownload \/ ReadProvenance \/ CheckManifest
  BY <1>1, <1>7 DEF outcome, Admit, ArtifactReady, Retain, AwaitDownload, ReadProvenance,
     CheckManifest
<1>8. CASE Extract \/ CheckEvidence \/ Record \/ RetainSmoke \/ RunCase \/ PreflightPasses \/ Publish \/ Fails
  BY <1>1, <1>8 DEF outcome, Extract, CheckEvidence, Record, RetainSmoke, RunCase,
     PreflightPasses, Publish, Fails
<1>9. CASE UNCHANGED vars
  BY <1>1, <1>9 DEF vars, outcome
<1>10. QED
  <2>1. CASE Coordinate
    BY <2>1, <1>3, <1>5, <1>7, <1>8 DEF Coordinate
  <2>2. CASE Next
    BY <2>1, <2>2, <1>4, <1>6, Zenon DEF Next
  <2>3. QED
    BY <2>1, <2>2, <1>9

LEMMA PauseStep == PauseInv /\ Flags /\ [Next]_vars => PauseInv'
<1> SUFFICES ASSUME PauseInv /\ Flags, [Next]_vars PROVE PauseInv'
  OBVIOUS
<1>0. PauseInv
  OBVIOUS
<1> USE DEF vars, others, evidence, outcome, coordinator, inputs, args, PauseInv
<1>1. CASE \E r \in Runs : Watch(r)
  <2>1. UNCHANGED <<since, pause, pc, arm>>
    BY <1>1 DEF Watch
  <2>2. admitted' = admitted
    BY <1>1, ZenonT(30) DEF Watch
  <2>3. QED
    BY <1>0, <2>1, <2>2
<1>2. CASE \E d \in Arms \X Runs : WriteProvenance(d)
  <2>1. UNCHANGED <<since, pause, pc, arm>>
    BY <1>2 DEF WriteProvenance
  <2>2. admitted' = admitted
    BY <1>2, ZenonT(30) DEF WriteProvenance
  <2>3. QED
    BY <1>0, <2>1, <2>2
<1>3. CASE \E d \in Arms \X Runs : \E r \in Runs : Unpack(d, r)
  <2>1. UNCHANGED <<since, pause, pc, arm>>
    BY <1>3 DEF Unpack
  <2>2. admitted' = admitted
    BY <1>3, ZenonT(30) DEF Unpack
  <2>3. QED
    BY <1>0, <2>1, <2>2
<1>4. CASE \E a \in Arms : Alter(a)
  <2>1. UNCHANGED <<since, pause, pc, arm>>
    BY <1>4 DEF Alter
  <2>2. admitted' = admitted
    BY <1>4, ZenonT(30) DEF Alter
  <2>3. QED
    BY <1>0, <2>1, <2>2
<1>5. CASE WatcherStops
  <2>1. UNCHANGED <<since, pause, pc, arm>>
    BY <1>5 DEF WatcherStops
  <2>2. admitted' = admitted
    BY <1>5, ZenonT(30) DEF WatcherStops
  <2>3. QED
    BY <1>0, <2>1, <2>2
<1>6. CASE Prepare
  <2>1. UNCHANGED <<since, pause, pc, arm>>
    BY <1>6 DEF Prepare
  <2>2. admitted' = admitted
    BY <1>6, ZenonT(30) DEF Prepare
  <2>3. QED
    BY <1>0, <2>1, <2>2
<1>7. CASE ChangeArchive
  <2>1. UNCHANGED <<since, pause, pc, arm>>
    BY <1>7 DEF ChangeArchive
  <2>2. admitted' = admitted
    BY <1>7, ZenonT(30) DEF ChangeArchive
  <2>3. QED
    BY <1>0, <2>1, <2>2
<1>8. CASE ByHand
  <2>1. UNCHANGED <<since, pause, pc, arm>>
    BY <1>8 DEF ByHand
  <2>2. admitted' = admitted
    BY <1>8, ZenonT(30) DEF ByHand
  <2>3. QED
    BY <1>0, <2>1, <2>2
<1>9. CASE HandTrial
  <2>1. UNCHANGED <<since, pause, pc, arm>>
    BY <1>9 DEF HandTrial
  <2>2. admitted' = admitted
    BY <1>9, ZenonT(30) DEF HandTrial
  <2>3. QED
    BY <1>0, <2>1, <2>2
<1>10. CASE Start
  <2>1. UNCHANGED <<since, pause>> /\ ~admitted' /\ pc' # "download" /\ pc' # "judge" /\ arm' \in Arms
    BY <1>0, <1>10 DEF Start, Go, Arms
  <2>2. QED
    BY <1>0, <2>1
<1>11. CASE Admit
  <2>1. UNCHANGED <<since, pause, arm>> /\ pc \in Gates /\ ~admitted
    BY <1>11 DEF Admit
  <2>2. CASE pause
    <3>1. pc' = "idle"
      BY <1>11, <2>2 DEF Admit, Refused, Stop, Go
    <3>2. QED
      BY <1>0, <2>1, <3>1 DEF Gates
  <2>3. CASE ~pause
    <3>1. since = 0 /\ (pc' = pc \/ pc' = "idle") /\ (pc' = "judge" => arm = "baseline" )
      BY <1>0, <1>11, <2>1, <2>3 DEF Admit, Stop, Go
    <3>2. QED
      BY <1>0, <2>1, <3>1
  <2>4. QED
    BY <2>2, <2>3
<1>12. CASE ArtifactReady
  <2>1. UNCHANGED <<since, pause>> /\ ~admitted' /\ pc' # "download" /\ pc' # "judge" /\ arm' \in Arms
    BY <1>0, <1>12 DEF ArtifactReady, Go, Stop, Arms
  <2>2. QED
    BY <1>0, <2>1
<1>13. CASE Retain
  <2>1. UNCHANGED <<since, pause>> /\ ~admitted' /\ pc' # "download" /\ pc' # "judge" /\ arm' \in Arms
    BY <1>0, <1>13 DEF Retain, Go, Stop, Arms
  <2>2. QED
    BY <1>0, <2>1
<1>14. CASE AwaitDownload
  <2>1. UNCHANGED <<since, pause, arm>> /\ (pc' = "idle" \/ (pc' = "download" /\ pc = "package" /\ admitted))
    BY <1>14 DEF AwaitDownload, At, Gates, Go, Stop
  <2>2. QED
    BY <1>0, <2>1 DEF Gates
<1>15. CASE ReadProvenance
  <2>1. /\ pause' = pause /\ pc \in Gates \cup {"download"} /\ (pc \in Gates => admitted) /\ pc # "judge" /\ arm \in Arms
        /\ since' \in {since, IF pause THEN since + 1 ELSE since} /\ ~admitted' /\ arm' \in Arms /\ pc' # "download"
        /\ pc' = "judge" => arm' = "baseline"
    BY <1>0, <1>15 DEF ReadProvenance, At, Go, Stop, Begins, Gates, Arms
  <2>2. since = 0
    BY <1>0, <2>1
  <2>3. since' \in Nat /\ since' <= 1 /\ (~pause' => since' = 0)
    BY <1>0, <2>1, <2>2
  <2>4. QED
    BY <2>1, <2>3
<1>16. CASE CheckManifest
  <2>1. UNCHANGED <<since, pause>> /\ ~admitted' /\ pc' # "download" /\ pc' # "judge" /\ arm' \in Arms
    BY <1>0, <1>16 DEF CheckManifest, Go, Stop, Arms
  <2>2. QED
    BY <1>0, <2>1
<1>17. CASE Extract
  <2>1. UNCHANGED <<since, pause, pc, arm>>
    BY <1>17 DEF Extract
  <2>2. admitted' = admitted
    BY <1>17, ZenonT(30) DEF Extract
  <2>3. QED
    BY <1>0, <2>1, <2>2
<1>18. CASE CheckEvidence
  <2>1. UNCHANGED <<since, pause>> /\ ~admitted' /\ pc' # "download" /\ pc' # "judge" /\ arm' \in Arms
    BY <1>0, <1>18 DEF CheckEvidence, Go, Arms
  <2>2. QED
    BY <1>0, <2>1
<1>19. CASE Record
  <2>1. UNCHANGED <<since, pause>> /\ ~admitted' /\ pc' # "download" /\ pc' # "judge" /\ arm' \in Arms
    BY <1>0, <1>19 DEF Record, Go, Arms
  <2>2. QED
    BY <1>0, <2>1
<1>20. CASE RetainSmoke
  <2>1. UNCHANGED <<since, pause>> /\ ~admitted' /\ pc' # "download" /\ pc' # "judge" /\ arm' \in Arms
    BY <1>0, <1>20 DEF RetainSmoke, AfterSmoke, Go, Arms
  <2>2. QED
    BY <1>0, <2>1
<1>21. CASE RunCase
  <2>1. /\ pause' = pause /\ pc \in Gates \cup {"download"} /\ (pc \in Gates => admitted) /\ pc # "judge" /\ arm \in Arms
        /\ since' \in {since, IF pause THEN since + 1 ELSE since} /\ ~admitted' /\ arm' \in Arms /\ pc' # "download"
        /\ pc' = "judge" => arm' = "baseline"
    BY <1>0, <1>21 DEF RunCase, At, Go, AfterSmoke, Begins, Gates, Arms
  <2>2. since = 0
    BY <1>0, <2>1
  <2>3. since' \in Nat /\ since' <= 1 /\ (~pause' => since' = 0)
    BY <1>0, <2>1, <2>2
  <2>4. QED
    BY <2>1, <2>3
<1>22. CASE Preflight
  <2>1. /\ pause' = pause /\ pc \in Gates \cup {"download"} /\ (pc \in Gates => admitted) /\ pc # "judge" /\ arm \in Arms
        /\ since' \in {since, IF pause THEN since + 1 ELSE since} /\ ~admitted' /\ arm' \in Arms /\ pc' # "download"
        /\ pc' = "judge" => arm' = "baseline"
    BY <1>0, <1>22 DEF Preflight, At, Go, Begins, Gates, Arms
  <2>2. since = 0
    BY <1>0, <2>1
  <2>3. since' \in Nat /\ since' <= 1 /\ (~pause' => since' = 0)
    BY <1>0, <2>1, <2>2
  <2>4. QED
    BY <2>1, <2>3
<1>23. CASE PreflightPasses
  <2>1. UNCHANGED <<since, pause>> /\ ~admitted' /\ pc' # "download" /\ pc' # "judge" /\ arm' \in Arms
    BY <1>0, <1>23 DEF PreflightPasses, Go, Arms
  <2>2. QED
    BY <1>0, <2>1
<1>24. CASE Trial
  <2>1. /\ pause' = pause /\ pc \in Gates \cup {"download"} /\ (pc \in Gates => admitted) /\ pc # "judge" /\ arm \in Arms
        /\ since' \in {since, IF pause THEN since + 1 ELSE since} /\ ~admitted' /\ arm' \in Arms /\ pc' # "download"
        /\ pc' = "judge" => arm' = "baseline"
    BY <1>0, <1>24 DEF Trial, At, Go, Begins, Gates, Arms
  <2>2. since = 0
    BY <1>0, <2>1
  <2>3. since' \in Nat /\ since' <= 1 /\ (~pause' => since' = 0)
    BY <1>0, <2>1, <2>2
  <2>4. QED
    BY <2>1, <2>3
<1>25. CASE Judge
  <2>1. /\ pc = "judge" /\ admitted /\ pause' = pause /\ arm \in Arms
        /\ arm = "baseline" => arm' = "harnessmm" /\ pc' = pc /\ since' = (IF pause THEN since + 1 ELSE since)
        /\ arm # "baseline" => arm' = arm /\ pc' = "publish" /\ since' = since
    BY <1>0, <1>25 DEF Judge, At, Gates, Go, Begins, Arms
  <2>2. arm = "baseline" => admitted' = admitted
    BY <1>25, Zenon DEF Judge
  <2>3. CASE arm = "baseline"
    <3>1. since = 0
      BY <1>0, <2>1, <2>3 DEF Gates
    <3>2. since' \in Nat /\ since' <= 1 /\ (~pause' => since' = 0) /\ pc' = "judge" /\ arm' = "harnessmm"
      BY <2>1, <2>3, <3>1
    <3>3. QED
      BY <2>1, <2>2, <2>3, <3>2 DEF Arms
  <2>4. CASE arm # "baseline"
    BY <1>0, <2>1, <2>4 DEF Gates
  <2>5. QED
    BY <2>3, <2>4
<1>26. CASE Publish
  <2>1. UNCHANGED <<since, pause>> /\ ~admitted' /\ pc' # "download" /\ pc' # "judge" /\ arm' \in Arms
    BY <1>0, <1>26 DEF Publish, Go, Stop, Arms
  <2>2. QED
    BY <1>0, <2>1
<1>27. CASE Fails
  <2>1. UNCHANGED <<since, pause>> /\ ~admitted' /\ pc' # "download" /\ pc' # "judge" /\ arm' \in Arms
    BY <1>0, <1>27 DEF Fails, Go, Stop, Arms
  <2>2. QED
    BY <1>0, <2>1
<1>28. CASE Deadline
  <2>1. UNCHANGED <<since, pause, pc, arm>>
    BY <1>28 DEF Deadline
  <2>2. admitted' = admitted
    BY <1>28, ZenonT(30) DEF Deadline
  <2>3. QED
    BY <1>0, <2>1, <2>2
<1>29. CASE Kill
  <2>1. UNCHANGED <<since, pause>> /\ ~admitted' /\ pc' # "download" /\ pc' # "judge" /\ arm' \in Arms
    BY <1>0, <1>29 DEF Kill, Go, Stop, Arms
  <2>2. QED
    BY <1>0, <2>1
<1>30. CASE Pause
  <2>1. since' = 0 /\ UNCHANGED <<pc, arm>>
    BY <1>30 DEF Pause
  <2>2. admitted' = admitted
    BY <1>30, Zenon DEF Pause, coordinator
  <2>3. QED
    BY <1>0, <2>1, <2>2
<1>31. CASE UNCHANGED vars
  BY <1>0, <1>31
<1>32. QED
  BY <1>1, <1>2, <1>3, <1>4, <1>5, <1>6, <1>7, <1>8, <1>9, <1>10, <1>11, <1>12, <1>13, <1>14,
     <1>15, <1>16, <1>17, <1>18, <1>19, <1>20, <1>21, <1>22, <1>23, <1>24, <1>25, <1>26, <1>27,
     <1>28, <1>29, <1>30, <1>31 DEF Next, Coordinate

LEMMA PauseInit == Init => PauseInv
  BY DEF Init, PauseInv, Arms

LEMMA PauseAlways == Spec => []PauseInv
<1>1. PauseInv /\ Flags /\ [Next]_vars => PauseInv'
  BY PauseStep
<1>2. QED
  BY PauseInit, <1>1, ResultAlways, PTL DEF Spec

LEMMA OnceAlways == Spec => []OnceInv
<1>1. Init => OnceInv
  BY DEF Init, OnceInv
<1>2. OnceInv /\ ResultInv /\ [Next]_vars => OnceInv'
  BY OnceStep DEF ResultInv
<1>3. QED
  BY <1>1, <1>2, ResultAlways, PTL DEF Spec

(* A published result is about one binary per arm: of the wanted head and  *)
(* that variant, which the smoke evidence saw and the arm's trial ran,     *)
(* from equal workspaces.                                                  *)
THEOREM ResultIsSound == Spec => []SoundResult
<1>1. ResultInv /\ Flags /\ PauseInv => TypeOK
  <2>1. ResultInv /\ PauseInv =>
            /\ World /\ Control /\ Records /\ since \in Nat
            /\ result \in {None} \cup [Arms -> [verified : Runs, smoked : Binaries]]
    BY DEF ResultInv, PauseInv, Trials
  <2>2. World => archive \in 0..MaxFaults
    BY Constants DEF World
  <2>3. QED
    BY <2>1, <2>2, ZenonT(60) DEF World, Control, Records, Flags, TypeOK
<1>2. ResultInv => ResultIsOneBinary
  BY DEF ResultInv, Prepared, Trials, ResultIsOneBinary
<1>3. QED
  BY <1>1, <1>2, ResultAlways, PauseAlways, PTL DEF SoundResult

(* An arm's paid trial is run at most once over a root, whoever runs it.   *)
THEOREM PaidOnce == Spec => []TrialsRunOnce
<1>1. OnceInv => TrialsRunOnce
  <2> SUFFICES ASSUME OnceInv, NEW a \in Arms PROVE Cardinality(tried[a]) <= 1
    BY DEF TrialsRunOnce
  <2>1. PICK trial : tried[a] \subseteq {trial}
    BY DEF OnceInv
  <2>2. IsFiniteSet({trial}) /\ Cardinality({trial}) = 1
    BY FS_Singleton
  <2>3. QED
    BY <2>1, <2>2, FS_Subset
<1>2. QED
  BY <1>1, OnceAlways, PTL

(* Under a pause file the coordinator begins at most the one operation it  *)
(* had admitted.                                                           *)
THEOREM PauseHolds == Spec => []PauseStops
<1>1. PauseInv => PauseStops
  BY DEF PauseInv, PauseStops
<1>2. QED
  BY <1>1, PauseAlways, PTL
===============================================================================
