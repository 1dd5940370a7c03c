-------------------------- MODULE ReleasePublisher --------------------------
(***************************************************************************)
(* publish-github-release.ps1: one run announces a release under a tag,    *)
(* clears its assets or not, and uploads its files one after another, each *)
(* after deleting the assets of that name it knows of. Every request may   *)
(* be lost, or applied and its answer lost; five transient errors of one   *)
(* request, or any other error, end the run. Runs of several jobs may work *)
(* on one tag at once, and a run that failed may be run again.             *)
(***************************************************************************)
EXTENDS Integers, Sequences, FiniteSets

CONSTANTS
    Publishers,  (* the runs that publish under the tag                      *)
    FilesOf,     (* the names of the files of each, in upload order          *)
    Leftovers,   (* names of files an earlier build may have left            *)
    MaxAttempts, (* bound of the code: tries of one request                  *)
    MaxFaults,   (* bound, by the number of runs there are: lost requests,   *)
                 (* lost answers, killed runs                                *)
    Earlier,     (* whoever published before                                 *)
    None

Names == Leftovers \cup UNION {{FilesOf[p][i] : i \in 1..Len(FilesOf[p])} : p \in Publishers}

(* Ids are as many as the release and the copies of it can name, so there  *)
(* is always one that nobody has seen; GitHub never gives one again.       *)
Ids == 1..(Cardinality(Names) * (Cardinality(Publishers) + 1) + 1)
Asset == [id : Ids, name : Names, by : Publishers \cup {Earlier}]

(* The copy of a run that has seen no release. *)
NoView == {None}

ASSUME PublisherAssumption ==
    /\ IsFiniteSet(Publishers) /\ IsFiniteSet(Leftovers)
    /\ FilesOf \in [Publishers -> Seq(Names)] /\ \A p \in Publishers : FilesOf[p] # <<>>
    /\ Earlier \notin Publishers /\ None \notin Asset
    /\ MaxAttempts \in Nat \ {0}
    /\ MaxFaults \in [1..Cardinality(Publishers) -> Nat]

VARIABLES
    rolling, (* the tag is the rolling one: runs get -ClearExistingAssets    *)
    release, (* what GitHub keeps under the tag                              *)
    stage,   (* what each run does next; "absent" if there is no such run    *)
    view,    (* of its latest copy of the release, the assets it may yet use *)
    doomed,  (* the ids it is about to delete                                *)
    todo,    (* the files it has still to upload                             *)
    attempt  (* which try of the request at hand this is                     *)

(* What happened so far; no action of the code reads these. *)
VARIABLES
    faults,  (* requests and answers lost, runs killed                       *)
    had      (* the names it had assets for since a run was last begun       *)

mine == <<stage, view, doomed, todo, attempt>>
vars == <<rolling, release, mine, faults, had>>

Requesting == {"look", "announce", "clear", "refetch", "replace", "upload"}

TypeOK ==
    /\ rolling \in BOOLEAN
    /\ release.exists \in BOOLEAN
    /\ release.card \in Publishers \cup {Earlier}
    /\ release.assets \subseteq Asset
    /\ stage \in [Publishers -> Requesting \cup {"done", "failed", "absent"}]
    /\ \A p \in Publishers :
           /\ view[p] # NoView => view[p] \subseteq Asset
           /\ doomed[p] \subseteq Ids
           /\ doomed[p] # {} <=> stage[p] \in {"clear", "replace"}
           /\ todo[p] # <<>> <=> stage[p] # "done"
           /\ attempt[p] \in 1..MaxAttempts
    /\ faults \in Nat
    /\ had \subseteq Names

Present == {p \in Publishers : stage[p] # "absent"}
NamesIn(assets) == {a.name : a \in assets}
IdsIn(assets) == {a.id : a \in assets}

Numbered == CHOOSE f \in [Names -> 1..Cardinality(Names)] :
    \A m, n \in Names : f[m] = f[n] => m = n

(* No release yet, or an earlier one with some of the files it may have.   *)
Init ==
    /\ rolling \in BOOLEAN
    /\ \E names \in SUBSET Names, exists \in BOOLEAN :
           /\ ~exists => names = {}
           /\ release = [exists |-> exists, card |-> Earlier, assets |->
                  {[id |-> Numbered[n], name |-> n, by |-> Earlier] : n \in names}]
           /\ had = names
    /\ stage \in [Publishers -> {"look", "absent"}] /\ Present # {}
    /\ view = [p \in Publishers |-> NoView]
    /\ doomed = [p \in Publishers |-> {}]
    /\ todo = FilesOf
    /\ attempt = [p \in Publishers |-> 1]
    /\ faults = 0
-----------------------------------------------------------------------------
(***************************************************************************)
(* The requests: when GitHub accepts one and what it makes of the release. *)
(***************************************************************************)
FreshId == CHOOSE i \in Ids : \A p \in Publishers :
    i \notin IdsIn(release.assets) \cup doomed[p] \cup (IF view[p] = NoView THEN {} ELSE IdsIn(view[p]))

Announced(p) == [release EXCEPT !.exists = TRUE, !.card = p]
Without(i) == [release EXCEPT !.assets = {a \in @ : a.id # i}]
With(p) == [release EXCEPT !.assets = @ \cup {[id |-> FreshId, name |-> Head(todo[p]), by |-> p]}]

(* POST of a tag that exists, DELETE of an asset that is gone and upload   *)
(* under a name in use are refused.                                        *)
Creates(p) == stage[p] = "announce" /\ view[p] = NoView
Accepts(p, i) ==
    /\ Creates(p) => ~release.exists
    /\ stage[p] \in {"clear", "replace"} => i \in IdsIn(release.assets)
    /\ stage[p] = "upload" => Head(todo[p]) \notin NamesIn(release.assets)

Changed(p, i) ==
    CASE stage[p] = "announce" -> Announced(p)
      [] stage[p] \in {"clear", "replace"} -> Without(i)
      [] stage[p] = "upload" -> With(p)
      [] OTHER -> release

(* The asset a request is about: only a delete names one. *)
Targets(p) == IF stage[p] \in {"clear", "replace"} THEN doomed[p] ELSE {1}

(* The request is applied; what it adds to had is kept. *)
Apply(p, i) ==
    /\ release' = Changed(p, i)
    /\ had' = had \cup NamesIn(release'.assets)

Fail(p) ==
    /\ stage' = [stage EXCEPT ![p] = "failed"]
    /\ view' = [view EXCEPT ![p] = NoView]
    /\ doomed' = [doomed EXCEPT ![p] = {}]
    /\ todo' = [todo EXCEPT ![p] = FilesOf[p]]
    /\ attempt' = [attempt EXCEPT ![p] = 1]

GivesUp(p) == attempt[p] >= MaxAttempts

(* Invoke-WithGitHubRetry after a transient error. *)
Again(p) ==
    IF GivesUp(p) THEN Fail(p)
    ELSE attempt' = [attempt EXCEPT ![p] = @ + 1] /\ UNCHANGED <<stage, view, doomed, todo>>
-----------------------------------------------------------------------------
Answered(p) == attempt' = [attempt EXCEPT ![p] = 1]

Known_Nothing(assets, name) == {}

Known_Every(assets, name) == assets

(* The assets an upload first deletes: those of its name in the copy. *)
Known(assets, name) == {a \in assets : a.name = name}

(* Upload-ReleaseAsset for the first of files, or the end of the script.   *)
Begin(p, files, assets) ==
    /\ todo' = [todo EXCEPT ![p] = files]
    /\ IF files = <<>>
       THEN /\ stage' = [stage EXCEPT ![p] = "done"]
            /\ view' = [view EXCEPT ![p] = NoView]
            /\ UNCHANGED doomed
       ELSE /\ view' = [view EXCEPT ![p] = {a \in assets : \E i \in 2..Len(files) : files[i] = a.name}]
            /\ doomed' = [doomed EXCEPT ![p] = IdsIn(Known(assets, Head(files)))]
            /\ stage' = [stage EXCEPT ![p] = IF doomed'[p] = {} THEN "upload" ELSE "replace"]

(* Get-ReleaseByTag: of an existing release only the id is used. *)
Look(p) ==
    /\ stage[p] = "look"
    /\ Answered(p)
    /\ view' = [view EXCEPT ![p] = IF release.exists THEN {} ELSE NoView]
    /\ stage' = [stage EXCEPT ![p] = "announce"]
    /\ UNCHANGED <<rolling, release, doomed, todo, faults, had>>

ClearsFirst_Always(p) == TRUE
ClearsFirst_Never(p) == FALSE

ClearsFirst(p) == rolling

(* The answer to POST and to PATCH is the copy the run goes on with. *)
Announce(p) ==
    /\ stage[p] = "announce"
    /\ Accepts(p, None)
    /\ Apply(p, None)
    /\ Answered(p)
    /\ IF ClearsFirst(p)
       THEN /\ view' = [view EXCEPT ![p] = {}]
            /\ doomed' = [doomed EXCEPT ![p] = IdsIn(release.assets)]
            /\ stage' = [stage EXCEPT ![p] = IF doomed'[p] = {} THEN "refetch" ELSE "clear"]
            /\ UNCHANGED todo
       ELSE Begin(p, todo[p], release.assets)
    /\ UNCHANGED <<rolling, faults>>

Delete(p, i) ==
    /\ stage[p] \in {"clear", "replace"}
    /\ i \in doomed[p]
    /\ Accepts(p, i)
    /\ Apply(p, i)
    /\ Answered(p)
    /\ doomed' = [doomed EXCEPT ![p] = @ \ {i}]
    /\ stage' = [stage EXCEPT ![p] =
           IF doomed'[p] # {} THEN @ ELSE IF @ = "clear" THEN "refetch" ELSE "upload"]
    /\ UNCHANGED <<rolling, view, todo, faults>>

Refetch(p) ==
    /\ stage[p] = "refetch"
    /\ Answered(p)
    /\ Begin(p, todo[p], release.assets)
    /\ UNCHANGED <<rolling, release, faults, had>>

Upload_TakesConflictAsDone(p) ==
    /\ stage[p] = "upload"
    /\ IF Accepts(p, None) THEN Apply(p, None) ELSE UNCHANGED <<release, had>>
    /\ Answered(p)
    /\ Begin(p, Tail(todo[p]), view[p])
    /\ UNCHANGED <<rolling, faults>>

Upload(p) ==
    /\ stage[p] = "upload"
    /\ Accepts(p, None)
    /\ Apply(p, None)
    /\ Answered(p)
    /\ Begin(p, Tail(todo[p]), view[p])
    /\ UNCHANGED <<rolling, faults>>

(* A status that is not transient is thrown at once. *)
Refused(p) ==
    /\ stage[p] \in Requesting
    /\ \E i \in Targets(p) : ~Accepts(p, i)
    /\ Fail(p)
    /\ UNCHANGED <<rolling, release, faults, had>>
-----------------------------------------------------------------------------
Fault(p) == stage[p] \in Requesting /\ faults < MaxFaults[Cardinality(Present)] /\ faults' = faults + 1

RequestLost(p) == Fault(p) /\ Again(p) /\ UNCHANGED <<rolling, release, had>>

AnswerLost(p) ==
    /\ Fault(p)
    /\ \E i \in Targets(p) : Accepts(p, i) /\ Apply(p, i)
    /\ Again(p)
    /\ UNCHANGED rolling

Killed(p) == Fault(p) /\ Fail(p) /\ UNCHANGED <<rolling, release, had>>

(* The failed job is run again, or the next sync publishes the same files. *)
Rerun(p) ==
    /\ stage[p] = "failed"
    /\ stage' = [stage EXCEPT ![p] = "look"]
    /\ had' = NamesIn(release.assets)
    /\ UNCHANGED <<rolling, release, view, doomed, todo, attempt, faults>>

Publish(p) ==
    \/ Look(p) \/ Announce(p) \/ Refetch(p) \/ Upload(p) \/ Refused(p)
    \/ \E i \in doomed[p] : Delete(p, i)

Next == \E p \in Publishers :
    Publish(p) \/ RequestLost(p) \/ AnswerLost(p) \/ Killed(p) \/ Rerun(p)

Spec == Init /\ [][Next]_vars

(* A script runs until it ends, and what failed is tried again. *)
FairSpec == Spec /\ \A p \in Publishers : WF_vars(Publish(p)) /\ WF_vars(Rerun(p))
-----------------------------------------------------------------------------
(***************************************************************************)
(* Properties.                                                             *)
(***************************************************************************)
Shared == {n \in Names : \A p \in Present : \E i \in 1..Len(FilesOf[p]) : FilesOf[p][i] = n}

(* Runs that overlapped on one tag and all ended without error left the    *)
(* files of one of them under the names they share: whoever mixes its      *)
(* files with another's meets an asset that is gone or a name in use       *)
(* (publish-github-release.ps1:256).                                       *)
GreenIsOneBuild ==
    (\A p \in Present : stage[p] = "done") =>
        \E p \in Present : \A n \in Shared :
            \E a \in release.assets : a.name = n /\ a.by = p

(* Ids, copies and stages are always well formed, and green runs left one  *)
(* build.                                                                  *)
SoundRelease == TypeOK /\ GreenIsOneBuild

(* Without clearing, a run has at most one file deleted and not yet back,  *)
(* however it fails: the release never lacks more of the files it had      *)
(* since a run was last begun than there are runs.                         *)
FailureLosesOneFile ==
    ~rolling => Cardinality(had \ NamesIn(release.assets)) <= Cardinality(Present)

(* A run that ended and had the tag to itself left all its files there and *)
(* its card; after clearing there is nothing else, otherwise the files of  *)
(* other names are still there.                                            *)
PublishesItsFiles ==
    \A p \in Publishers : stage[p] = "done" /\ Present = {p} =>
        LET own == {FilesOf[p][i] : i \in 1..Len(FilesOf[p])} IN
        /\ release.card = p
        /\ {a.name : a \in {b \in release.assets : b.by = p}} = own
        /\ NamesIn(release.assets) = IF rolling THEN own ELSE own \cup had

(* If a run has the tag to itself, publishing comes to what Publication    *)
(* says, and what SyncPipeline counts on: its deletes do not show unless   *)
(* it fails, and then they cost the file at hand, or what was to be        *)
(* cleared (publish-github-release.ps1:274).                               *)
Lone == CHOOSE p \in Present : TRUE
Alone == Present = {Lone}

StepOf(p) ==
    CASE stage[p] \in {"look", "announce"} -> "announce"
      [] stage[p] \in {"clear", "refetch"} -> "clear"
      [] stage[p] \in {"replace", "upload"} -> "upload"
      [] OTHER -> stage[p]

(* The files there were when the step at hand began: until it is over, a   *)
(* delete has not happened.                                                *)
NamesOf(p) ==
    IF StepOf(p) = "clear" \/ (StepOf(p) = "upload" /\ ~rolling)
    THEN had ELSE NamesIn(release.assets)

Published == INSTANCE Publication WITH
    clears <- rolling,
    files <- FilesOf[Lone],
    step <- IF Alone THEN StepOf(Lone) ELSE "absent",
    todo <- IF Alone THEN todo[Lone] ELSE FilesOf[Lone],
    names <- IF Alone THEN NamesOf(Lone) ELSE {},
    announced <- Alone /\ release.card = Lone
ImplementsPublication == Published!Spec

(* A run that is tried again after any lost request, lost answer or kill   *)
(* publishes in the end, if it has the tag to itself: what the failed one  *)
(* left does not block it.                                                 *)
EventuallyPublishes == \A p \in Publishers : <>(Present = {p} => stage[p] = "done")
=============================================================================
