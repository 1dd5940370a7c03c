---------------------------- MODULE SyncPipeline ----------------------------
(***************************************************************************)
(* One target of .github/workflows/sync-codex-windows-custom.yml: runs are *)
(* triggered by schedule, pushes and people; each checks out this          *)
(* repository, resolves an upstream source, skips it or patches and builds *)
(* it, publishes a release per SHA and the rolling release, and records    *)
(* the source in the state files on the branch.                            *)
(*                                                                         *)
(* target = "windows" is the job "sync" with sync-codex-windows-custom.ps1,*)
(* target = "linux" the job "linux-i686-musl" with its own script, state   *)
(* files and releases; the other target's commits are OtherCommit here.    *)
(*                                                                         *)
(* A source is what a ref offers at one moment, the SHA and the version    *)
(* base that upstream's tags imply; several sources may share a SHA.       *)
(* A recipe is the build-recipe fingerprint of a commit of this repository.*)
(* A job may fail or be killed at any point (JobFails).                    *)
(***************************************************************************)
EXTENDS Integers, Sequences, FiniteSets

CONSTANTS
    Targets,     (* of "windows" and "linux", the ones looked at             *)
    Groups,      (* concurrency groups, one for each value of run_target     *)
    Refs,        (* upstream refs a run may be asked for; "main" moves       *)
    MaxSource,   (* bound: the last source upstream reaches                  *)
    MaxRecipe,   (* bound: the last recipe of this repository                *)
    MaxManual,   (* bound: pushes and dispatches, others' commits included   *)
    MaxFailures, (* bound: jobs that fail or are killed, pulls that fail     *)
    ShaOf,       (* the SHA of a source                                      *)
    Unpatchable, (* <<sha, recipe>> pairs on which the patches do not apply  *)
    None

Sources == 1..MaxSource
Recipes == 1..MaxRecipe
Shas == {ShaOf[s] : s \in Sources}
Rolling == "rolling"
Tags == Shas \cup {Rolling}

ASSUME SyncAssumption ==
    /\ Targets \subseteq {"windows", "linux"}
    /\ "all" \in Groups /\ "main" \in Refs
    /\ MaxSource \in Nat \ {0} /\ MaxRecipe \in Nat \ {0}
    /\ MaxManual \in Nat /\ MaxFailures \in Nat
    /\ DOMAIN ShaOf = Sources /\ Rolling \notin Shas
    /\ Unpatchable \subseteq Shas \X Recipes

VARIABLES
    target,    (* the job this is; it never changes                         *)
    upstream,  (* the source each ref offers                                 *)
    recipe,    (* the recipe at the tip of the branch                        *)
    main,      (* what the state files at the tip of the branch record       *)
    waiting,   (* each group's pending run                                   *)
    run,       (* each group's run in progress, or its last one              *)
    releases   (* each tag's card (title and body) and assets                *)

(* What happened so far; no action of the code reads these. *)
VARIABLES
    manual,    (* pushes and dispatches                                      *)
    failures,  (* failed jobs and pulls                                      *)
    published  (* the builds whose two releases were published in full       *)

world == <<target, upstream, recipe>>
ghosts == <<manual, failures, published>>
vars == <<world, main, waiting, run, releases, ghosts>>

Status == {"not_run", "applied", "failed"}
Source == [source : Sources, ref : Refs, recipe : Recipes]
Card == [source : Sources, status : Status]
Asset == [kind : {"bundle", "manifest", "installer"}, build : Source, status : Status]
Release == [card : Card \cup {None}, assets : SUBSET Asset]

Stages == {"queued", "resolve", "decide", "build", "announce", "clear", "upload",
           "commit", "push", "green", "red"}
Run == [stage : Stages, ref : Refs, force : BOOLEAN, dry : BOOLEAN,
        recipe : Recipes, base : Source \cup {None}, source : Sources \cup {None},
        status : Status, tag : Tags \cup {None}, todo : Seq(Asset),
        behind : BOOLEAN, moved : BOOLEAN, landed : BOOLEAN]

ASSUME NoneAssumption == None \notin Run \cup Source \cup Sources \cup Card \cup Tags

(* What a run knows at each stage; a failed one may know anything. *)
WellStaged(r) ==
    /\ r.stage \in {"queued", "resolve"} => r.source = None
    /\ r.stage \notin {"queued", "resolve", "red"} => r.source # None
    /\ r.tag # None <=> r.stage \in {"announce", "clear", "upload"}
    /\ r.todo # <<>> <=> r.stage \in {"clear", "upload"}
    /\ r.stage \in {"queued", "resolve", "decide"} => r.status = "not_run"
    /\ r.stage \in {"build", "commit", "push"} => r.status = "applied"
    /\ r.landed => r.stage = "green"

TypeOK ==
    /\ target \in Targets
    /\ upstream \in [Refs -> Sources]
    /\ recipe \in Recipes
    /\ main \in Source \cup {None}
    /\ waiting \in [Groups -> Run \cup {None}]
    /\ run \in [Groups -> Run \cup {None}]
    /\ releases \in [Tags -> Release]
    /\ \A g \in Groups : \A r \in {run[g], waiting[g]} \ {None} : WellStaged(r)
    /\ manual \in 0..MaxManual
    /\ failures \in 0..MaxFailures
    /\ published \subseteq Source

Init ==
    /\ target \in Targets
    /\ upstream = [ref \in Refs |-> 1]
    /\ recipe = 1
    /\ main = None
    /\ waiting = [g \in Groups |-> None]
    /\ run = [g \in Groups |-> None]
    /\ releases = [t \in Tags |-> [card |-> None, assets |-> {}]]
    /\ manual = 0
    /\ failures = 0
    /\ published = {}
-----------------------------------------------------------------------------
(***************************************************************************)
(* Upstream, the branch and the triggers.                                  *)
(***************************************************************************)
UpstreamAdvances ==
    /\ upstream["main"] < MaxSource
    /\ upstream' = [upstream EXCEPT !["main"] = @ + 1]
    /\ UNCHANGED <<target, recipe, main, waiting, run, releases, ghosts>>

(* actions/checkout takes github.sha, the tip when the run was triggered. *)
NewRun(ref, force, dry, tip) ==
    [stage |-> "queued", ref |-> ref, force |-> force, dry |-> dry,
     recipe |-> tip, base |-> main, source |-> None, status |-> "not_run",
     tag |-> None, todo |-> <<>>, behind |-> FALSE, moved |-> FALSE, landed |-> FALSE]

(* A group holds one pending run; a later one takes its place. *)
Enqueue(queue, g, r) == [queue EXCEPT ![g] = r]

(* The tip of the branch moved: a push that is not based on it is refused; *)
(* if the state files changed too, a rebase of another change conflicts.   *)
Overtaken(r, state) ==
    IF state THEN [r EXCEPT !.moved = TRUE, !.behind = TRUE] ELSE [r EXCEPT !.moved = TRUE]

Moved(runs, state) ==
    [g \in Groups |->
        IF runs[g] # None => runs[g].stage \in {"green", "red"} THEN runs[g]
        ELSE Overtaken(runs[g], state)]

Schedule ==
    /\ waiting' = Enqueue(waiting, "all", NewRun("main", FALSE, FALSE, recipe))
    /\ UNCHANGED <<world, main, run, releases, ghosts>>

(* A push to a watched path: the recipe may be the same (README, tests). *)
Push(tip) ==
    /\ manual < MaxManual
    /\ tip \in {recipe, recipe + 1} \cap Recipes
    /\ manual' = manual + 1
    /\ recipe' = tip
    /\ waiting' = Enqueue(Moved(waiting, FALSE), "all", NewRun("main", TRUE, FALSE, tip))
    /\ run' = Moved(run, FALSE)
    /\ UNCHANGED <<target, upstream, main, releases, failures, published>>

Dispatch(g, ref, force, dry) ==
    /\ manual < MaxManual
    /\ manual' = manual + 1
    /\ waiting' = Enqueue(waiting, g, NewRun(ref, force, dry, recipe))
    /\ UNCHANGED <<world, main, run, releases, failures, published>>

(* The other target's state commit, or a push to a path nobody watches. *)
OtherCommit ==
    /\ manual < MaxManual
    /\ manual' = manual + 1
    /\ waiting' = Moved(waiting, FALSE)
    /\ run' = Moved(run, FALSE)
    /\ UNCHANGED <<world, main, releases, failures, published>>

(* The linux job refreshes the branch before it reads the state files. *)
CheckedOut_NeverRefreshes(r) == [r EXCEPT !.stage = "resolve"]

CheckedOut(r) ==
    IF target = "windows" THEN [r EXCEPT !.stage = "resolve"]
    ELSE [r EXCEPT !.stage = "resolve", !.recipe = recipe, !.base = main,
                   !.behind = FALSE, !.moved = FALSE]

Ended == {"green", "red"}
Idle(g) == run[g] # None => run[g].stage \in Ended

Start(g) ==
    /\ waiting[g] # None
    /\ Idle(g)
    /\ run' = [run EXCEPT ![g] = CheckedOut(waiting[g])]
    /\ waiting' = [waiting EXCEPT ![g] = None]
    /\ UNCHANGED <<world, main, releases, ghosts>>
-----------------------------------------------------------------------------
(***************************************************************************)
(* The sync script. Step(g, from, r) takes g's run from one stage to r.    *)
(***************************************************************************)
Step(g, from, r) ==
    /\ run[g] # None
    /\ run[g].stage = from
    /\ run' = [run EXCEPT ![g] = r]

Resolve(g) ==
    /\ Step(g, "resolve", [run[g] EXCEPT !.stage = "decide",
                                         !.source = upstream[run[g].ref]])
    /\ UNCHANGED <<world, main, waiting, releases, ghosts>>

SourceOf(r) == [source |-> r.source, ref |-> r.ref, recipe |-> r.recipe]

StateCurrent_IgnoresRecipe(r) ==
    r.base # None /\ r.base.source = r.source /\ r.base.ref = r.ref

(* Test-WindowsBuildStateCurrent; the linux script compares the SHA only. *)
StateCurrent(r) ==
    /\ r.base # None
    /\ IF target = "windows" THEN r.base = SourceOf(r)
       ELSE ShaOf[r.base.source] = ShaOf[r.source]

Skip(g) ==
    /\ Step(g, "decide", [run[g] EXCEPT !.stage = "green"])
    /\ ~run[g].force
    /\ StateCurrent(run[g])
    /\ UNCHANGED <<world, main, waiting, releases, ghosts>>

Patchable(r) == <<ShaOf[r.source], r.recipe>> \notin Unpatchable

(* The linux script has no failure card: a patch that fails throws. *)
Patched(g, applied) ==
    LET r == run[g]
        next == IF applied THEN "build"
                ELSE IF target = "windows" /\ ~r.dry THEN "announce" ELSE "red" IN
    /\ Step(g, "decide", [r EXCEPT !.stage = next,
            !.status = IF applied THEN "applied" ELSE "failed",
            !.tag = IF next = "announce" THEN ShaOf[r.source] ELSE None])
    /\ r.force \/ ~StateCurrent(r)
    /\ UNCHANGED <<world, main, waiting, releases, manual, published>>

Patch(g) == Patched(g, Patchable(run[g])) /\ UNCHANGED failures

(* Anything thrown while patching (a tool, the disk) makes a failure card. *)
PatchThrows(g) ==
    /\ failures < MaxFailures
    /\ failures' = failures + 1
    /\ Patched(g, FALSE)

Build(g) ==
    LET r == run[g] IN
    /\ Step(g, "build",
            IF r.dry THEN [r EXCEPT !.stage = "green"]
            ELSE [r EXCEPT !.stage = "announce", !.tag = ShaOf[r.source]])
    /\ UNCHANGED <<world, main, waiting, releases, ghosts>>
-----------------------------------------------------------------------------
(***************************************************************************)
(* publish-github-release.ps1, once for the versioned tag and once, with   *)
(* ClearExistingAssets, for the rolling one. Requests are single steps;    *)
(* what a request goes through is in ReleasePublisher.                     *)
(***************************************************************************)
AssetOf(r, kind) == [kind |-> kind, build |-> SourceOf(r), status |-> r.status]

Files(r) ==
    IF r.status = "failed" THEN <<AssetOf(r, "manifest")>>
    ELSE IF target = "linux" THEN <<AssetOf(r, "bundle"), AssetOf(r, "manifest")>>
    ELSE <<AssetOf(r, "bundle"), AssetOf(r, "manifest"), AssetOf(r, "installer")>>

(* Bundles and manifests are named after the SHA, the installer is not. *)
SameName(a, b) ==
    a.kind = b.kind /\ (a.kind = "installer" \/ ShaOf[a.build.source] = ShaOf[b.build.source])

Others(tag, asset) == {a \in releases[tag].assets : ~SameName(a, asset)}

Announce(g) ==
    LET r == run[g] IN
    /\ Step(g, "announce", [r EXCEPT !.stage = IF r.tag = Rolling THEN "clear" ELSE "upload",
                                     !.todo = Files(r)])
    /\ releases' = [releases EXCEPT ![r.tag].card = [source |-> r.source, status |-> r.status]]
    /\ UNCHANGED <<world, main, waiting, ghosts>>

Clear_Skipped(g) ==
    /\ Step(g, "clear", [run[g] EXCEPT !.stage = "upload"])
    /\ UNCHANGED <<world, main, waiting, releases, ghosts>>

Clear(g) ==
    /\ Step(g, "clear", [run[g] EXCEPT !.stage = "upload"])
    /\ releases' = [releases EXCEPT ![run[g].tag].assets = {}]
    /\ UNCHANGED <<world, main, waiting, ghosts>>

(* After the last file of the versioned release comes the rolling one;     *)
(* after that a failed patch fails the job and a build is recorded.        *)
Uploaded_RecordsFailures(r) ==
    IF Len(r.todo) > 1 THEN [r EXCEPT !.todo = Tail(@)]
    ELSE IF r.tag # Rolling THEN [r EXCEPT !.stage = "announce", !.tag = Rolling, !.todo = <<>>]
    ELSE [r EXCEPT !.stage = "commit", !.tag = None, !.todo = <<>>]

Uploaded(r) ==
    IF Len(r.todo) > 1 THEN [r EXCEPT !.todo = Tail(@)]
    ELSE IF r.tag # Rolling THEN [r EXCEPT !.stage = "announce", !.tag = Rolling, !.todo = <<>>]
    ELSE [r EXCEPT !.stage = IF r.status = "applied" THEN "commit" ELSE "red",
                   !.tag = None, !.todo = <<>>]

Upload(g) ==
    LET r == run[g]
        asset == Head(r.todo) IN
    /\ Step(g, "upload", Uploaded(r))
    /\ releases' = [releases EXCEPT ![r.tag].assets = Others(r.tag, asset) \cup {asset}]
    /\ published' = IF r.tag = Rolling /\ Len(r.todo) = 1 /\ r.status = "applied"
                    THEN published \cup {SourceOf(r)} ELSE published
    /\ UNCHANGED <<world, main, waiting, manual, failures>>
-----------------------------------------------------------------------------
(***************************************************************************)
(* "Commit State Files". pwsh does not stop at a native command that       *)
(* fails: after a conflict HEAD is the fetched tip, so the push that       *)
(* follows has nothing to send, succeeds, and the commit is left behind.   *)
(* git diff --cached --quiet prints nothing, so its test never holds.      *)
(***************************************************************************)
Pull(g) ==
    /\ Step(g, "commit", [run[g] EXCEPT !.stage = "push", !.moved = FALSE])
    /\ UNCHANGED <<world, main, waiting, releases, ghosts>>

(* The pull did not reach the server; the push goes ahead without it. *)
PullFails(g) ==
    /\ failures < MaxFailures
    /\ Step(g, "commit", [run[g] EXCEPT !.stage = "push"])
    /\ failures' = failures + 1
    /\ UNCHANGED <<world, main, waiting, releases, manual, published>>

Rejected(r) == r.moved

Conflicted_OverwritesState(r) == FALSE

Conflicted(r) == r.behind

PushRejected(g) ==
    /\ Step(g, "push", [run[g] EXCEPT !.stage = "red"])
    /\ Rejected(run[g])
    /\ UNCHANGED <<world, main, waiting, releases, ghosts>>

PushNothing(g) ==
    /\ Step(g, "push", [run[g] EXCEPT !.stage = "green"])
    /\ ~Rejected(run[g])
    /\ Conflicted(run[g])
    /\ UNCHANGED <<world, main, waiting, releases, ghosts>>

PushState(g) ==
    /\ run[g] # None /\ run[g].stage = "push"
    /\ ~Rejected(run[g])
    /\ ~Conflicted(run[g])
    /\ main' = SourceOf(run[g])
    /\ run' = [Moved(run, TRUE) EXCEPT ![g] = [run[g] EXCEPT !.stage = "green", !.landed = TRUE]]
    /\ waiting' = Moved(waiting, TRUE)
    /\ UNCHANGED <<world, releases, ghosts>>

(* What a publication cut short may have deleted already. *)
Remains(r) ==
    CASE r.stage = "clear" -> SUBSET releases[r.tag].assets
      [] r.stage = "upload" -> {releases[r.tag].assets, Others(r.tag, Head(r.todo))}
      [] OTHER -> {}

(* A step of the job throws, times out or is killed. *)
JobFails(g) ==
    /\ ~Idle(g)
    /\ failures < MaxFailures
    /\ failures' = failures + 1
    /\ run' = [run EXCEPT ![g] = [run[g] EXCEPT !.stage = "red", !.tag = None, !.todo = <<>>]]
    /\ \/ UNCHANGED releases
       \/ \E left \in Remains(run[g]) :
              releases' = [releases EXCEPT ![run[g].tag].assets = left]
    /\ UNCHANGED <<world, main, waiting, manual, published>>
-----------------------------------------------------------------------------
Syncing(g) ==
    \/ Start(g) \/ Resolve(g) \/ Skip(g) \/ Patch(g) \/ Build(g)
    \/ Announce(g) \/ Clear(g) \/ Upload(g)
    \/ Pull(g) \/ PushRejected(g) \/ PushNothing(g) \/ PushState(g)

Failing(g) == PatchThrows(g) \/ PullFails(g) \/ JobFails(g)

People ==
    \/ \E tip \in Recipes : Push(tip)
    \/ \E g \in Groups, ref \in Refs, force, dry \in BOOLEAN : Dispatch(g, ref, force, dry)
    \/ OtherCommit

Next ==
    \/ UpstreamAdvances
    \/ Schedule
    \/ People
    \/ \E g \in Groups : Syncing(g) \/ Failing(g)

Spec == Init /\ [][Next]_vars

(***************************************************************************)
(* GitHub fires the schedule and runs the steps of a job it has started.   *)
(* Upstream, people and failures are not obliged to do anything.           *)
(***************************************************************************)
FairSpec ==
    /\ Spec
    /\ WF_vars(Schedule)
    /\ \A g \in Groups : WF_vars(Syncing(g))
-----------------------------------------------------------------------------
(***************************************************************************)
(* Properties.                                                             *)
(***************************************************************************)
Runs == {run[g] : g \in Groups} \ {None}

(* The state files only ever record a build whose versioned and rolling    *)
(* releases were both published in full: never a failed patch, and never   *)
(* one whose publication was cut short.                                    *)
RecordedWasPublished == main # None => main \in published

(* A run skips its build only if exactly that source, ref and recipe (for  *)
(* linux: that SHA) was published by some earlier run, however stale the   *)
(* state files it read and whatever other runs did since.                  *)
Matches(p, r) ==
    IF target = "windows" THEN p = SourceOf(r) ELSE ShaOf[p.source] = ShaOf[r.source]

SkipsOnlyPublished ==
    \A r \in Runs : r.stage = "green" /\ r.status = "not_run" =>
        \E p \in published : Matches(p, r)

(* The state files vouch for what they record and what is skipped on them, *)
(* and every run knows what its stage needs.                               *)
SoundRecords == TypeOK /\ RecordedWasPublished /\ SkipsOnlyPublished

(* Overlapping and queued runs finish in any order, but the source         *)
(* recorded for main never goes back to an older one: the rebase conflict  *)
(* drops the record of a run that started from older state files.          *)
RecordedNeverGoesBack ==
    [][main # None /\ main'.ref = "main" /\ main.ref = "main"
       => main'.source >= main.source]_vars

(* When a run goes on to record its build, the rolling release is exactly  *)
(* that build: its card and its files, none of an earlier one.             *)
RollingIsWhole ==
    \A r \in Runs : r.stage \in {"commit", "push"} =>
        /\ releases[Rolling].card = [source |-> r.source, status |-> "applied"]
        /\ releases[Rolling].assets = {Files(r)[i] : i \in 1..Len(Files(r))}

(* A run that ends without an error has recorded what it built, as         *)
(* README.md says ("commits the latest synced upstream SHA and manifest    *)
(* after a successful build").                                             *)
GreenMeansRecorded ==
    \A r \in Runs : r.stage = "green" /\ r.status = "applied" /\ ~r.dry => r.landed

(* The linux job, which refreshes the branch before it reads the state     *)
(* files, does keep that promise while its runs are serialized.            *)
LinuxGreenMeansRecorded == target = "linux" => GreenMeansRecorded

(* Whatever was lost, failed or superseded, once upstream, people and      *)
(* failures are at rest the schedule brings the state files to what main   *)
(* offers and stays there, if the patches apply to it.                     *)
Wanted == [stage |-> "wanted", source |-> upstream["main"], ref |-> "main", recipe |-> recipe]
EventuallyRecorded ==
    <>[](Patchable(Wanted) => main # None /\ Matches(main, Wanted))
=============================================================================
