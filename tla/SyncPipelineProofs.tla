-------------------------- MODULE SyncPipelineProofs --------------------------
(***************************************************************************)
(* What the sync workflow may rely on, for any number of groups, refs,     *)
(* sources, recipes, pushes and failures.                                  *)
(***************************************************************************)
EXTENDS SyncPipeline, SequenceTheorems, TLAPS

LEMMA Constants ==
    /\ "main" \in Refs /\ "all" \in Groups
    /\ MaxSource \in Nat \ {0} /\ MaxRecipe \in Nat \ {0}
    /\ MaxManual \in Nat /\ MaxFailures \in Nat
    /\ Rolling \in Tags /\ \A s \in Sources : ShaOf[s] \in Tags
    /\ Targets \subseteq {"windows", "linux"}
  BY SyncAssumption DEF Tags, Shas

LEMMA NoneIsNew ==
    /\ None \notin Run /\ None \notin Source /\ None \notin Sources
    /\ None \notin Card /\ None \notin Tags
  BY NoneAssumption

-----------------------------------------------------------------------------
(***************************************************************************)
(* The invariant.  A run relies on the state files it read: they were of a *)
(* published build, are those of the branch unless it is behind, and are   *)
(* no newer than what it resolved.                                         *)
(***************************************************************************)
World ==
    /\ target \in Targets
    /\ upstream \in [Refs -> Sources]
    /\ recipe \in Recipes
    /\ manual \in 0..MaxManual
    /\ failures \in 0..MaxFailures

Recorded ==
    /\ published \subseteq Source
    /\ main # None => /\ main \in published
                      /\ main.ref = "main" => main.source <= upstream["main"]

Shelves == releases \in [Tags -> Release]

(* The state files a run has were published, and show the branch's unless  *)
(* it is behind.                                                           *)
Informed(r) ==
    /\ r.base # None => r.base \in published
    /\ r.base # None /\ r.base.ref = "main" => r.base.source <= upstream["main"]
    /\ r.stage \notin Ended /\ ~r.behind => r.base = main

(* What it resolved is no older, and what it did is as published. *)
Truthful(r) ==
    /\ r.source # None /\ r.ref = "main" =>
        /\ r.source <= upstream["main"]
        /\ r.base # None /\ r.base.ref = "main" => r.base.source <= r.source
    /\ r.stage \in {"commit", "push"} => SourceOf(r) \in published
    /\ r.stage = "green" /\ r.status = "not_run" => \E p \in published : Matches(p, r)

Good(r) == r \in Run /\ WellStaged(r) /\ Informed(r) /\ Truthful(r)

Running == \A g \in Groups : run[g] # None => Good(run[g])
Queued == \A g \in Groups : waiting[g] # None => Good(waiting[g]) /\ waiting[g].stage = "queued"
Slots == run \in [Groups -> Run \cup {None}] /\ waiting \in [Groups -> Run \cup {None}]

SyncInv == World /\ Recorded /\ Shelves /\ Slots /\ Running /\ Queued

-----------------------------------------------------------------------------
(* A run stays good while the world moves on around it, and when the state *)
(* files change, if it is behind from then on.                             *)
Advances == target' = target /\ upstream["main"] <= upstream'["main"] /\ published \subseteq published'

LEMMA StillGood ==
    ASSUME World, World', Recorded, NEW r, Good(r), Advances,
           main' = main \/ r.stage \in Ended \/ r.behind
    PROVE  Good(r)'
<1>1. upstream["main"] \in Nat /\ upstream'["main"] \in Nat
  BY Constants DEF World, Sources
<1>2. r.base # None => r.base \in Source /\ r.base.source \in Nat
  BY DEF Good, Informed, Recorded, Source, Sources
<1>3. r.source # None => r.source \in Nat
  BY DEF Good, Run, Sources
<1>4. Informed(r)'
  BY <1>1, <1>2 DEF Good, Informed, Advances
<1>5. Truthful(r)'
  BY <1>1, <1>3 DEF Good, Truthful, Advances, Matches
<1> QED
  BY <1>4, <1>5 DEF Good

LEMMA OvertakenIsGood ==
    ASSUME NEW r, Good(r), NEW state \in BOOLEAN
    PROVE  /\ Overtaken(r, state) \in Run /\ Good(Overtaken(r, state))
           /\ Overtaken(r, state).stage = r.stage
           /\ state => Overtaken(r, state).behind
<1> DEFINE m == Overtaken(r, state)
<1>1. m \in Run
  BY DEF Good, Run, Overtaken
<1>2. /\ m.stage = r.stage /\ m.ref = r.ref /\ m.recipe = r.recipe /\ m.base = r.base
      /\ m.source = r.source /\ m.status = r.status /\ m.tag = r.tag /\ m.todo = r.todo
      /\ m.landed = r.landed
  BY DEF Good, Run, Overtaken
<1>3. (state => m.behind) /\ (~m.behind => ~r.behind)
  BY DEF Good, Run, Overtaken
<1> HIDE DEF m
<1>4. WellStaged(m)
  BY <1>2 DEF Good, WellStaged
<1>5. Informed(m)
  BY <1>2, <1>3 DEF Good, Informed
<1>6. Truthful(m)
  BY <1>2 DEF Good, Truthful, Matches, SourceOf
<1> QED
  BY <1>1, <1>2, <1>3, <1>4, <1>5, <1>6 DEF Good, m

LEMMA MovedIsGood ==
    ASSUME NEW runs \in [Groups -> Run \cup {None}], NEW state \in BOOLEAN,
           \A h \in Groups : runs[h] # None => Good(runs[h])
    PROVE  /\ Moved(runs, state) \in [Groups -> Run \cup {None}]
           /\ \A g \in Groups : runs[g] = None => Moved(runs, state)[g] = None
           /\ \A g \in Groups : runs[g] # None =>
                /\ Moved(runs, state)[g] # None
                /\ Good(Moved(runs, state)[g])
                /\ Moved(runs, state)[g].stage = runs[g].stage
                /\ runs[g].stage \in Ended \/ (state => Moved(runs, state)[g].behind)
<1>1. \A g \in Groups : Moved(runs, state)[g] =
          IF runs[g] # None => runs[g].stage \in {"green", "red"} THEN runs[g]
          ELSE Overtaken(runs[g], state)
  BY DEF Moved
<1>2. Moved(runs, state) = [g \in Groups |-> Moved(runs, state)[g]]
  BY DEF Moved
<1>3. ASSUME NEW g \in Groups, runs[g] # None
      PROVE  /\ Moved(runs, state)[g] \in Run
             /\ Good(Moved(runs, state)[g])
             /\ Moved(runs, state)[g].stage = runs[g].stage
             /\ runs[g].stage \in Ended \/ (state => Moved(runs, state)[g].behind)
  BY <1>1, <1>3, OvertakenIsGood DEF Ended
<1>4. ASSUME NEW g \in Groups PROVE Moved(runs, state)[g] \in Run \cup {None}
  BY <1>1, <1>3
<1> HIDE DEF Moved
<1> QED
  BY <1>1, <1>2, <1>3, <1>4, NoneIsNew

-----------------------------------------------------------------------------
(* A step of one run r, which becomes x. *)
Follows(x, r) ==
    /\ x \in Run /\ WellStaged(x) /\ r.stage \notin Ended
    /\ x.ref = r.ref /\ x.recipe = r.recipe /\ x.base = r.base /\ x.behind = r.behind
    /\ x.source = r.source \/ (r.source = None /\ x.source = upstream[r.ref])
    /\ x.stage \in {"commit", "push"} => r.stage \in {"commit", "push"} \/ SourceOf(x) \in published'
    /\ x.stage \in {"commit", "push"} => x.source = r.source
    /\ x.stage = "green" /\ x.status = "not_run" => \E p \in published : Matches(p, x)

Alone == world' = world /\ main' = main /\ waiting' = waiting
         /\ published \subseteq published' /\ published' \subseteq Source

LEMMA RunMoves ==
    ASSUME SyncInv, World', Shelves', Alone, NEW g \in Groups, NEW r, r = run[g], r # None,
           NEW x, run' = [run EXCEPT ![g] = x], Follows(x, r)
    PROVE  SyncInv'
<1>1. Good(r)
  BY DEF SyncInv, Running
<1>2. Advances
  <2>1. upstream' = upstream /\ target' = target
    BY DEF Alone, world
  <2> QED
    BY <2>1, Constants DEF Alone, Advances, SyncInv, World, Sources
<1>3. Recorded'
  BY Constants DEF SyncInv, Recorded, Alone, world
<1>4. \A q : Good(q) => Good(q)'
  BY <1>2, StillGood DEF SyncInv, Alone
<1>5. upstream' = upstream /\ target' = target /\ upstream["main"] \in Nat
      /\ upstream[r.ref] \in Sources /\ None \notin Sources
  BY <1>1, Constants, NoneIsNew DEF Alone, world, SyncInv, World, Good, Run, Sources
<1>6. Good(r)'
  BY <1>1, <1>4
<1>7. Informed(x)'
  BY <1>6 DEF Follows, Good, Informed
<1>8. Truthful(x)'
  <2>1. x.source # None /\ x.ref = "main" =>
            /\ x.source <= upstream'["main"]
            /\ x.base # None /\ x.base.ref = "main" => x.base.source <= x.source
    <3>1. CASE x.source = r.source
      BY <1>5, <1>6, <3>1 DEF Follows, Good, Truthful
    <3>2. CASE r.source = None /\ x.source = upstream[r.ref]
      BY <1>5, <1>6, <3>2 DEF Follows, Good, Informed
    <3> QED
      BY <3>1, <3>2 DEF Follows
  <2>2. x.stage \in {"commit", "push"} => SourceOf(x) \in published'
    BY <1>6 DEF Follows, Good, Truthful, SourceOf
  <2>3. x.stage = "green" /\ x.status = "not_run" => (\E p \in published : Matches(p, x))'
    BY <1>5 DEF Follows, Matches, Alone
  <2> QED
    BY <2>1, <2>2, <2>3 DEF Truthful
<1>9. Good(x)' /\ x # None
  BY <1>7, <1>8, NoneIsNew DEF Good, Follows
<1>10. Slots'
  BY DEF SyncInv, Slots, Follows, Alone
<1>11. Running'
  BY <1>4, <1>9 DEF SyncInv, Running, Slots
<1>12. Queued'
  BY <1>4 DEF SyncInv, Queued, Alone
<1> QED
  BY <1>3, <1>10, <1>11, <1>12 DEF SyncInv

-----------------------------------------------------------------------------
(* What a run publishes, and that releases stay releases. *)
LEMMA FilesType ==
    ASSUME NEW r, Good(r), r.source # None
    PROVE  /\ Files(r) \in Seq(Asset) /\ Files(r) # <<>> /\ Len(Files(r)) \in 1..3
           /\ \A i \in 1..Len(Files(r)) : Files(r)[i] \in Asset
<1>1. SourceOf(r) \in Source /\ r.status \in Status
  BY DEF Good, Run, SourceOf, Source
<1>2. \A k \in {"bundle", "manifest", "installer"} : AssetOf(r, k) \in Asset
  BY <1>1 DEF AssetOf, Asset
<1> QED
  BY <1>2 DEF Files

LEMMA NonEmpty ==
    ASSUME NEW S, NEW s \in Seq(S), s # <<>>
    PROVE  /\ Head(s) \in S /\ Tail(s) \in Seq(S) /\ <<>> \in Seq(S)
           /\ Len(s) > 1 => Tail(s) # <<>>
           /\ Len(s) = 1 <=> ~(Len(s) > 1)
<1>1. Len(s) \in Nat \ {0} /\ Len(<<>>) = 0 /\ <<>> \in Seq(S)
  BY EmptySeq
<1>2. Head(s) \in S /\ Tail(s) \in Seq(S) /\ Len(Tail(s)) = Len(s) - 1
  BY HeadTailProperties
<1>3. \A n \in Nat \ {0} : n = 1 <=> ~(n > 1)
  OBVIOUS
<1>4. Len(s) = 1 <=> ~(Len(s) > 1)
  BY <1>1, <1>3, Zenon
<1>5. Len(s) > 1 => Tail(s) # <<>>
  BY <1>1, <1>2
<1> QED
  BY <1>1, <1>2, <1>4, <1>5, Zenon

LEMMA CardType ==
    ASSUME Shelves, NEW t \in Tags, NEW c \in Card
    PROVE  [releases EXCEPT ![t].card = c] \in [Tags -> Release]
  BY DEF Shelves, Release

LEMMA FilesOnShelf ==
    ASSUME Shelves, NEW t \in Tags, NEW files \in SUBSET Asset
    PROVE  [releases EXCEPT ![t].assets = files] \in [Tags -> Release]
  BY DEF Shelves, Release

LEMMA ResolveStep == ASSUME SyncInv, NEW g \in Groups, Resolve(g) PROVE SyncInv'
<1> USE DEF world, ghosts, Step
<1>1. PICK r : r = run[g]
  OBVIOUS
<1>2. PICK x : x = [r EXCEPT !.stage = "decide", !.source = upstream[r.ref]]
  OBVIOUS
<1>3. r # None /\ r.stage = "resolve" /\ Good(r) /\ run' = [run EXCEPT ![g] = x]
  BY <1>1, <1>2 DEF Resolve, SyncInv, Running
<1>4. upstream[r.ref] \in Sources /\ upstream[r.ref] # None
  BY <1>3, NoneIsNew DEF SyncInv, World, Good, Run
<1>5. x \in Run
  BY <1>2, <1>3, <1>4 DEF Good, Run, Stages
<1>6. Follows(x, r)
  BY <1>2, <1>3, <1>4, <1>5 DEF Follows, Good, Run, WellStaged, Ended
<1>7. World' /\ Shelves' /\ Alone
  BY DEF Resolve, SyncInv, World, Shelves, Alone, Recorded
<1> QED
  BY <1>1, <1>3, <1>6, <1>7, RunMoves

LEMMA SkipStep == ASSUME SyncInv, NEW g \in Groups, Skip(g) PROVE SyncInv'
<1> USE DEF world, ghosts, Step
<1>1. PICK r : r = run[g]
  OBVIOUS
<1>2. PICK x : x = [r EXCEPT !.stage = "green"]
  OBVIOUS
<1>3. r # None /\ r.stage = "decide" /\ Good(r) /\ run' = [run EXCEPT ![g] = x] /\ StateCurrent(r)
  BY <1>1, <1>2 DEF Skip, SyncInv, Running
<1>4. x \in Run
  BY <1>2, <1>3 DEF Good, Run, Stages
<1>5. x.source = r.source /\ x.ref = r.ref /\ x.recipe = r.recipe
  BY <1>2, <1>3 DEF Good, Run
<1>6. r.base \in published /\ Matches(r.base, x)
  BY <1>3, <1>5 DEF StateCurrent, Good, Informed, Matches, SourceOf
<1>7. Follows(x, r)
  BY <1>2, <1>3, <1>4, <1>6 DEF Follows, Good, Run, WellStaged, Ended
<1>8. World' /\ Shelves' /\ Alone
  BY DEF Skip, SyncInv, World, Shelves, Alone, Recorded
<1> QED
  BY <1>1, <1>3, <1>7, <1>8, RunMoves

LEMMA PatchedStep ==
    ASSUME SyncInv, NEW g \in Groups, NEW applied \in BOOLEAN, Patched(g, applied),
           failures' \in 0..MaxFailures
    PROVE  SyncInv'
<1> USE DEF world, Step
<1>1. PICK r : r = run[g]
  OBVIOUS
<1> DEFINE next == IF applied THEN "build"
                   ELSE IF target = "windows" /\ ~r.dry THEN "announce" ELSE "red"
<1>2. PICK x : x = [r EXCEPT !.stage = next,
                             !.status = IF applied THEN "applied" ELSE "failed",
                             !.tag = IF next = "announce" THEN ShaOf[r.source] ELSE None]
  OBVIOUS
<1>3. r # None /\ r.stage = "decide" /\ Good(r) /\ run' = [run EXCEPT ![g] = x]
  BY <1>1, <1>2 DEF Patched, SyncInv, Running
<1>4. r.source \in Sources /\ ShaOf[r.source] \in Tags /\ ShaOf[r.source] # None
  BY <1>3, Constants, NoneIsNew DEF Good, Run, WellStaged
<1>5. next \in {"build", "announce", "red"} /\ (next = "build" <=> applied)
  OBVIOUS
<1> HIDE DEF next
<1>6. x \in Run
  BY <1>2, <1>3, <1>4, <1>5 DEF Good, Run, Stages, Status
<1>7. /\ x.stage = next /\ (next = "build" => x.status = "applied")
      /\ x.tag = IF next = "announce" THEN ShaOf[r.source] ELSE None
      /\ x.source = r.source /\ x.ref = r.ref /\ x.recipe = r.recipe /\ x.base = r.base
      /\ x.behind = r.behind /\ x.todo = r.todo /\ x.landed = r.landed
  BY <1>2, <1>3, <1>5 DEF Good, Run
<1>8. WellStaged(x)
  BY <1>3, <1>4, <1>5, <1>7 DEF Good, WellStaged
<1>9. Follows(x, r)
  BY <1>3, <1>5, <1>6, <1>7, <1>8 DEF Follows, Ended
<1>10. World' /\ Shelves' /\ Alone
  BY DEF Patched, SyncInv, World, Shelves, Alone, Recorded
<1> QED
  BY <1>1, <1>3, <1>9, <1>10, RunMoves

LEMMA BuildStep == ASSUME SyncInv, NEW g \in Groups, Build(g) PROVE SyncInv'
<1> USE DEF world, ghosts, Step
<1>1. PICK r : r = run[g]
  OBVIOUS
<1>2. PICK x : x = IF r.dry THEN [r EXCEPT !.stage = "green"]
                   ELSE [r EXCEPT !.stage = "announce", !.tag = ShaOf[r.source]]
  OBVIOUS
<1>3. r # None /\ r.stage = "build" /\ Good(r) /\ run' = [run EXCEPT ![g] = x]
  BY <1>1, <1>2 DEF Build, SyncInv, Running
<1>4. r.source \in Sources /\ ShaOf[r.source] \in Tags /\ ShaOf[r.source] # None
  BY <1>3, Constants, NoneIsNew DEF Good, Run, WellStaged
<1>5. \/ x = [r EXCEPT !.stage = "green"]
      \/ x = [r EXCEPT !.stage = "announce", !.tag = ShaOf[r.source]]
  <2>1. CASE r.dry
    BY <1>2, <2>1, Zenon
  <2>2. CASE ~r.dry
    BY <1>2, <2>2, Zenon
  <2> QED
    BY <2>1, <2>2
<1>6. /\ x \in Run
      /\ \/ x.stage = "green" /\ x.tag = r.tag
         \/ x.stage = "announce" /\ x.tag \in Tags
  BY <1>3, <1>4, <1>5 DEF Good, Run, Stages
<1>7. /\ x.source = r.source /\ x.ref = r.ref /\ x.recipe = r.recipe /\ x.base = r.base
      /\ x.behind = r.behind /\ x.todo = r.todo /\ x.landed = r.landed /\ x.status = r.status
  BY <1>3, <1>5 DEF Good, Run
<1>8. WellStaged(x) /\ x.status # "not_run"
  BY <1>3, <1>4, <1>6, <1>7, NoneIsNew DEF Good, WellStaged
<1>9. Follows(x, r)
  BY <1>3, <1>6, <1>7, <1>8 DEF Follows, Ended
<1>10. World' /\ Shelves' /\ Alone
  BY DEF Build, SyncInv, World, Shelves, Alone, Recorded
<1> QED
  BY <1>1, <1>3, <1>9, <1>10, RunMoves

LEMMA AnnounceStep == ASSUME SyncInv, NEW g \in Groups, Announce(g) PROVE SyncInv'
<1> USE DEF world, ghosts, Step
<1>1. PICK r : r = run[g]
  OBVIOUS
<1> DEFINE next == IF r.tag = Rolling THEN "clear" ELSE "upload"
<1>2. PICK x : x = [r EXCEPT !.stage = next, !.todo = Files(r)]
  OBVIOUS
<1>3. r # None /\ r.stage = "announce" /\ Good(r) /\ run' = [run EXCEPT ![g] = x]
  BY <1>1, <1>2 DEF Announce, SyncInv, Running
<1>4. r.source # None /\ r.source \in Sources /\ r.tag \in Tags /\ r.status \in Status
  BY <1>3 DEF Good, Run, WellStaged
<1>5. next \in {"clear", "upload"} /\ Files(r) \in Seq(Asset) /\ Files(r) # <<>>
  BY <1>3, <1>4, FilesType
<1> HIDE DEF next
<1>6. x \in Run
  BY <1>2, <1>3, <1>5 DEF Good, Run, Stages
<1>7. Follows(x, r)
  BY <1>2, <1>3, <1>4, <1>5, <1>6 DEF Follows, Good, Run, WellStaged, Ended
<1>8. World' /\ Alone
  BY DEF Announce, SyncInv, World, Alone, Recorded
<1>9. Shelves'
  <2> DEFINE card == [source |-> r.source, status |-> r.status]
  <2>1. card \in Card
    BY <1>4 DEF Card
  <2>2. releases' = [releases EXCEPT ![r.tag].card = card]
    BY <1>1 DEF Announce
  <2> HIDE DEF card
  <2> QED
    BY <1>4, <2>1, <2>2, CardType DEF SyncInv, Shelves
<1> QED
  BY <1>1, <1>3, <1>7, <1>8, <1>9, RunMoves

LEMMA ClearStep == ASSUME SyncInv, NEW g \in Groups, Clear(g) PROVE SyncInv'
<1> USE DEF world, ghosts, Step
<1>1. PICK r : r = run[g]
  OBVIOUS
<1>2. PICK x : x = [r EXCEPT !.stage = "upload"]
  OBVIOUS
<1>3. r # None /\ r.stage = "clear" /\ Good(r) /\ run' = [run EXCEPT ![g] = x]
  BY <1>1, <1>2 DEF Clear, SyncInv, Running
<1>4. x \in Run /\ r.tag \in Tags
  BY <1>2, <1>3 DEF Good, Run, Stages, WellStaged
<1>5. Follows(x, r)
  BY <1>2, <1>3, <1>4 DEF Follows, Good, Run, WellStaged, Ended
<1>6. World' /\ Alone
  BY DEF Clear, SyncInv, World, Alone, Recorded
<1>7. Shelves'
  <2>1. releases' = [releases EXCEPT ![r.tag].assets = {}]
    BY <1>1 DEF Clear
  <2>2. {} \in SUBSET Asset
    OBVIOUS
  <2> QED
    BY <1>4, <2>1, <2>2, FilesOnShelf DEF SyncInv, Shelves
<1> QED
  BY <1>1, <1>3, <1>5, <1>6, <1>7, RunMoves

LEMMA PullStep == ASSUME SyncInv, NEW g \in Groups, Pull(g) PROVE SyncInv'
<1> USE DEF world, ghosts, Step
<1>1. PICK r : r = run[g]
  OBVIOUS
<1>2. PICK x : x = [r EXCEPT !.stage = "push", !.moved = FALSE]
  OBVIOUS
<1>3. r # None /\ r.stage = "commit" /\ Good(r) /\ run' = [run EXCEPT ![g] = x]
  BY <1>1, <1>2 DEF Pull, SyncInv, Running
<1>4. x \in Run
  BY <1>2, <1>3 DEF Good, Run, Stages
<1>5. Follows(x, r)
  BY <1>2, <1>3, <1>4 DEF Follows, Good, Run, WellStaged, Ended
<1>6. World' /\ Shelves' /\ Alone
  BY Constants DEF Pull, SyncInv, World, Shelves, Alone, Recorded
<1> QED
  BY <1>1, <1>3, <1>5, <1>6, RunMoves

LEMMA PullFailsStep == ASSUME SyncInv, NEW g \in Groups, PullFails(g) PROVE SyncInv'
<1> USE DEF world, ghosts, Step
<1>1. PICK r : r = run[g]
  OBVIOUS
<1>2. PICK x : x = [r EXCEPT !.stage = "push"]
  OBVIOUS
<1>3. r # None /\ r.stage = "commit" /\ Good(r) /\ run' = [run EXCEPT ![g] = x]
  BY <1>1, <1>2 DEF PullFails, SyncInv, Running
<1>4. x \in Run
  BY <1>2, <1>3 DEF Good, Run, Stages
<1>5. Follows(x, r)
  BY <1>2, <1>3, <1>4 DEF Follows, Good, Run, WellStaged, Ended
<1>6. World' /\ Shelves' /\ Alone
  BY Constants DEF PullFails, SyncInv, World, Shelves, Alone, Recorded
<1> QED
  BY <1>1, <1>3, <1>5, <1>6, RunMoves

LEMMA PushRejectedStep == ASSUME SyncInv, NEW g \in Groups, PushRejected(g) PROVE SyncInv'
<1> USE DEF world, ghosts, Step
<1>1. PICK r : r = run[g]
  OBVIOUS
<1>2. PICK x : x = [r EXCEPT !.stage = "red"]
  OBVIOUS
<1>3. r # None /\ r.stage = "push" /\ Good(r) /\ run' = [run EXCEPT ![g] = x]
  BY <1>1, <1>2 DEF PushRejected, SyncInv, Running
<1>4. x \in Run
  BY <1>2, <1>3 DEF Good, Run, Stages
<1>5. Follows(x, r)
  BY <1>2, <1>3, <1>4 DEF Follows, Good, Run, WellStaged, Ended
<1>6. World' /\ Shelves' /\ Alone
  BY Constants DEF PushRejected, SyncInv, World, Shelves, Alone, Recorded
<1> QED
  BY <1>1, <1>3, <1>5, <1>6, RunMoves

LEMMA PushNothingStep == ASSUME SyncInv, NEW g \in Groups, PushNothing(g) PROVE SyncInv'
<1> USE DEF world, ghosts, Step
<1>1. PICK r : r = run[g]
  OBVIOUS
<1>2. PICK x : x = [r EXCEPT !.stage = "green"]
  OBVIOUS
<1>3. r # None /\ r.stage = "push" /\ Good(r) /\ run' = [run EXCEPT ![g] = x]
  BY <1>1, <1>2 DEF PushNothing, SyncInv, Running
<1>4. x \in Run
  BY <1>2, <1>3 DEF Good, Run, Stages
<1>5. Follows(x, r)
  BY <1>2, <1>3, <1>4 DEF Follows, Good, Run, WellStaged, Ended
<1>6. World' /\ Shelves' /\ Alone
  BY Constants DEF PushNothing, SyncInv, World, Shelves, Alone, Recorded
<1> QED
  BY <1>1, <1>3, <1>5, <1>6, RunMoves

LEMMA UploadStep == ASSUME SyncInv, NEW g \in Groups, Upload(g) PROVE SyncInv'
<1> USE DEF world, ghosts, Step
<1>1. PICK r : r = run[g]
  OBVIOUS
<1>2. PICK x : x = Uploaded(r)
  OBVIOUS
<1>3. r # None /\ r.stage = "upload" /\ Good(r) /\ run' = [run EXCEPT ![g] = x]
  BY <1>1, <1>2 DEF Upload, SyncInv, Running
<1>4. /\ r.source # None /\ r.source \in Sources /\ r.tag \in Tags /\ r.status \in Status
      /\ r.todo \in Seq(Asset) /\ r.todo # <<>> /\ r \in Run
  BY <1>3 DEF Good, Run, WellStaged
<1>5. /\ Head(r.todo) \in Asset /\ (Len(r.todo) = 1 <=> ~(Len(r.todo) > 1))
      /\ Tail(r.todo) \in Seq(Asset) /\ <<>> \in Seq(Asset)
      /\ Len(r.todo) > 1 => Tail(r.todo) # <<>>
  BY <1>4, NonEmpty, Zenon
<1>6. /\ x \in Run /\ x.source = r.source /\ x.ref = r.ref /\ x.recipe = r.recipe
      /\ x.base = r.base /\ x.behind = r.behind /\ x.landed = r.landed /\ x.status = r.status
      /\ \/ x.stage = "upload" /\ x.tag = r.tag /\ x.todo = Tail(r.todo) /\ Len(r.todo) > 1
         \/ x.stage = "announce" /\ x.tag = Rolling /\ x.todo = <<>>
         \/ /\ x.tag = None /\ x.todo = <<>> /\ r.tag = Rolling /\ Len(r.todo) = 1
            /\ x.stage = IF r.status = "applied" THEN "commit" ELSE "red"
  <2>1. CASE Len(r.todo) > 1
    <3>1. x = [r EXCEPT !.todo = Tail(@)]
      BY <1>2, <2>1 DEF Uploaded
    <3> QED
      BY <1>3, <1>4, <1>5, <2>1, <3>1 DEF Run
  <2>2. CASE ~(Len(r.todo) > 1) /\ r.tag # Rolling
    <3>1. x = [r EXCEPT !.stage = "announce", !.tag = Rolling, !.todo = <<>>]
      BY <1>2, <2>2 DEF Uploaded
    <3> QED
      BY <1>3, <1>4, <1>5, <2>2, <3>1, Constants DEF Run, Stages
  <2>3. CASE ~(Len(r.todo) > 1) /\ r.tag = Rolling
    <3> DEFINE next == IF r.status = "applied" THEN "commit" ELSE "red"
    <3>1. x = [r EXCEPT !.stage = next, !.tag = None, !.todo = <<>>]
      BY <1>2, <2>3 DEF Uploaded
    <3>2. next \in Stages
      BY DEF Stages
    <3> HIDE DEF next
    <3>3. /\ x \in Run /\ x.source = r.source /\ x.ref = r.ref /\ x.recipe = r.recipe
          /\ x.base = r.base /\ x.behind = r.behind /\ x.landed = r.landed
          /\ x.status = r.status /\ x.tag = None /\ x.todo = <<>> /\ x.stage = next
      BY <1>4, <1>5, <3>1, <3>2 DEF Run
    <3>4. Len(r.todo) = 1
      BY <1>5, <2>3, Zenon
    <3> QED
      BY <2>3, <3>3, <3>4, Zenon DEF next
  <2> QED
    BY <2>1, <2>2, <2>3
<1>7. WellStaged(x)
  BY <1>3, <1>4, <1>5, <1>6, Constants, NoneIsNew DEF Good, WellStaged
<1>8. SourceOf(x) = SourceOf(r) /\ SourceOf(r) \in Source
  BY <1>4, <1>6 DEF SourceOf, Source, Run
<1>9. published' = IF r.tag = Rolling /\ Len(r.todo) = 1 /\ r.status = "applied"
                   THEN published \cup {SourceOf(r)} ELSE published
  BY <1>1 DEF Upload
<1>10. x.stage \notin {"green", "push"} /\ (x.stage = "commit" => SourceOf(x) \in published')
  BY <1>6, <1>8, <1>9
<1>11. Follows(x, r)
  BY <1>3, <1>6, <1>7, <1>10 DEF Follows, Ended
<1>12. World' /\ Alone
  BY <1>8, <1>9 DEF Upload, SyncInv, World, Alone, Recorded
<1>13. Shelves'
  <2> DEFINE files == Others(r.tag, Head(r.todo)) \cup {Head(r.todo)}
  <2>1. files \in SUBSET Asset
    BY <1>4, <1>5 DEF SyncInv, Shelves, Release, Others
  <2>2. releases' = [releases EXCEPT ![r.tag].assets = files]
    BY <1>1 DEF Upload
  <2> HIDE DEF files
  <2> QED
    BY <1>4, <2>1, <2>2, FilesOnShelf DEF SyncInv, Shelves
<1> QED
  BY <1>1, <1>3, <1>11, <1>12, <1>13, RunMoves

LEMMA JobFailsStep == ASSUME SyncInv, NEW g \in Groups, JobFails(g) PROVE SyncInv'
<1> USE DEF world, ghosts
<1>1. PICK r : r = run[g]
  OBVIOUS
<1>2. PICK x : x = [r EXCEPT !.stage = "red", !.tag = None, !.todo = <<>>]
  OBVIOUS
<1>3. r # None /\ r.stage \notin Ended /\ Good(r) /\ run' = [run EXCEPT ![g] = x]
  BY <1>1, <1>2 DEF JobFails, Idle, SyncInv, Running
<1>4. r \in Run /\ <<>> \in Seq(Asset)
  BY <1>3 DEF Good
<1>5. x \in Run
  BY <1>2, <1>3, <1>4 DEF Run, Stages
<1>6. /\ x.stage = "red" /\ x.tag = None /\ x.todo = <<>> /\ x.source = r.source /\ x.ref = r.ref
      /\ x.recipe = r.recipe /\ x.base = r.base /\ x.behind = r.behind /\ x.landed = r.landed
  BY <1>2, <1>3, <1>4 DEF Run
<1>7. WellStaged(x)
  BY <1>3, <1>6 DEF Good, WellStaged, Ended
<1>8. Follows(x, r)
  BY <1>3, <1>5, <1>6, <1>7 DEF Follows
<1>9. World' /\ Alone
  BY Constants DEF JobFails, SyncInv, World, Alone, Recorded
<1>10. Shelves'
  <2>1. CASE UNCHANGED releases
    BY <2>1 DEF SyncInv, Shelves
  <2>2. ASSUME NEW left \in Remains(r), releases' = [releases EXCEPT ![r.tag].assets = left]
        PROVE  Shelves'
    <3>1. r.stage \in {"clear", "upload"}
      BY <2>2 DEF Remains
    <3>2. r.tag \in Tags /\ r.todo \in Seq(Asset)
      BY <1>3, <3>1 DEF Good, WellStaged, Run
    <3>3. releases[r.tag].assets \in SUBSET Asset
      BY <3>2 DEF SyncInv, Shelves, Release
    <3>4. left \in SUBSET Asset
      BY <2>2, <3>1, <3>3 DEF Remains, Others
    <3> QED
      BY <2>2, <3>2, <3>4, FilesOnShelf DEF SyncInv, Shelves
  <2> QED
    BY <1>1, <2>1, <2>2 DEF JobFails
<1> QED
  BY <1>1, <1>3, <1>8, <1>9, <1>10, RunMoves

-----------------------------------------------------------------------------
(* Steps that change the queue, several runs or none. *)
LEMMA NewRunIsGood ==
    ASSUME SyncInv, NEW ref \in Refs, NEW force \in BOOLEAN, NEW dry \in BOOLEAN, NEW tip \in Recipes,
           NEW x, x = NewRun(ref, force, dry, tip)
    PROVE  Good(x) /\ x.stage = "queued" /\ ~x.behind /\ x.base = main
<1>1. main \in Source \cup {None} /\ <<>> \in Seq(Asset)
  BY DEF SyncInv, Recorded
<1>2. x \in Run
  BY <1>1 DEF NewRun, Run, Stages, Status
<1>3. /\ x.stage = "queued" /\ x.base = main /\ x.source = None /\ x.status = "not_run"
      /\ x.tag = None /\ x.todo = <<>> /\ x.behind = FALSE /\ x.landed = FALSE
  BY DEF NewRun
<1>4. WellStaged(x)
  BY <1>3 DEF WellStaged
<1>5. Informed(x) /\ Truthful(x)
  BY <1>3 DEF Informed, Truthful, SyncInv, Recorded
<1> QED
  BY <1>2, <1>3, <1>4, <1>5 DEF Good

(* A run is queued while others run on. *)
LEMMA Enqueues ==
    ASSUME SyncInv, World', UNCHANGED <<target, upstream, main, releases, published>>,
           NEW g \in Groups, NEW x, Good(x), x.stage = "queued",
           NEW queue \in [Groups -> Run \cup {None}], waiting' = [queue EXCEPT ![g] = x],
           \A h \in Groups : queue[h] # None => Good(queue[h]) /\ queue[h].stage = "queued",
           run' \in [Groups -> Run \cup {None}],
           \A h \in Groups : run'[h] # None => \E r : r = run'[h] /\ Good(r)
    PROVE  SyncInv'
<1>1. Advances
  BY Constants DEF Advances, SyncInv, World, Sources
<1>2. \A q : Good(q) => Good(q)'
  BY <1>1, StillGood DEF SyncInv
<1>3. Recorded' /\ Shelves'
  BY DEF SyncInv, Recorded, Shelves
<1>4. Slots'
  BY DEF Slots, Good
<1>5. Running'
  BY <1>2 DEF Running
<1>6. Queued'
  BY <1>2 DEF Queued
<1> QED
  BY <1>3, <1>4, <1>5, <1>6 DEF SyncInv

LEMMA ScheduleStep == ASSUME SyncInv, Schedule PROVE SyncInv'
<1> USE DEF world, ghosts
<1>1. PICK x : x = NewRun("main", FALSE, FALSE, recipe)
  OBVIOUS
<1>2. Good(x) /\ x.stage = "queued"
  BY <1>1, Constants, NewRunIsGood DEF SyncInv, World
<1>3. World'
  BY DEF Schedule, SyncInv, World
<1>4. waiting' = [waiting EXCEPT !["all"] = x] /\ run' = run
  BY <1>1 DEF Schedule, Enqueue
<1>5. PICK queue : queue = waiting
  OBVIOUS
<1>6. /\ queue \in [Groups -> Run \cup {None}] /\ waiting' = [queue EXCEPT !["all"] = x]
      /\ \A h \in Groups : queue[h] # None => Good(queue[h]) /\ queue[h].stage = "queued"
  BY <1>4, <1>5 DEF SyncInv, Slots, Queued
<1>7. /\ run' \in [Groups -> Run \cup {None}]
      /\ \A h \in Groups : run'[h] # None => \E r : r = run'[h] /\ Good(r)
  BY <1>4 DEF SyncInv, Slots, Running
<1>8. UNCHANGED <<target, upstream, main, releases, published>>
  BY DEF Schedule
<1> QED
  BY <1>2, <1>3, <1>6, <1>7, <1>8, Constants, Enqueues

LEMMA DispatchStep ==
    ASSUME SyncInv, NEW g \in Groups, NEW ref \in Refs, NEW force \in BOOLEAN, NEW dry \in BOOLEAN,
           Dispatch(g, ref, force, dry)
    PROVE  SyncInv'
<1> USE DEF world
<1>1. PICK x : x = NewRun(ref, force, dry, recipe)
  OBVIOUS
<1>2. Good(x) /\ x.stage = "queued"
  BY <1>1, NewRunIsGood DEF SyncInv, World
<1>3. World'
  BY Constants DEF Dispatch, SyncInv, World
<1>4. waiting' = [waiting EXCEPT ![g] = x] /\ run' = run
  BY <1>1 DEF Dispatch, Enqueue
<1>5. PICK queue : queue = waiting
  OBVIOUS
<1>6. /\ queue \in [Groups -> Run \cup {None}] /\ waiting' = [queue EXCEPT ![g] = x]
      /\ \A h \in Groups : queue[h] # None => Good(queue[h]) /\ queue[h].stage = "queued"
  BY <1>4, <1>5 DEF SyncInv, Slots, Queued
<1>7. /\ run' \in [Groups -> Run \cup {None}]
      /\ \A h \in Groups : run'[h] # None => \E r : r = run'[h] /\ Good(r)
  BY <1>4 DEF SyncInv, Slots, Running
<1>8. UNCHANGED <<target, upstream, main, releases, published>>
  BY DEF Dispatch
<1> QED
  BY <1>2, <1>3, <1>6, <1>7, <1>8, Enqueues

(* The runs and the queue as a moved branch leaves them. *)
LEMMA MovedSlots ==
    ASSUME SyncInv, NEW state \in BOOLEAN
    PROVE  /\ Moved(run, state) \in [Groups -> Run \cup {None}]
           /\ Moved(waiting, state) \in [Groups -> Run \cup {None}]
           /\ \A h \in Groups : Moved(run, state)[h] # None =>
                /\ Good(Moved(run, state)[h])
                /\ state => Moved(run, state)[h].stage \in Ended \/ Moved(run, state)[h].behind
           /\ \A h \in Groups : Moved(waiting, state)[h] # None =>
                /\ Good(Moved(waiting, state)[h])
                /\ Moved(waiting, state)[h].stage = "queued"
                /\ state => Moved(waiting, state)[h].behind
<1>1. PICK queue : queue = waiting
  OBVIOUS
<1>2. PICK runs : runs = run
  OBVIOUS
<1>3. /\ queue \in [Groups -> Run \cup {None}]
      /\ \A h \in Groups : queue[h] # None => Good(queue[h]) /\ queue[h].stage = "queued"
  BY <1>1 DEF SyncInv, Slots, Queued
<1>4. /\ runs \in [Groups -> Run \cup {None}]
      /\ \A h \in Groups : runs[h] # None => Good(runs[h])
  BY <1>2 DEF SyncInv, Slots, Running
<1>5. /\ Moved(queue, state) \in [Groups -> Run \cup {None}]
      /\ \A h \in Groups : Moved(queue, state)[h] # None =>
            /\ Good(Moved(queue, state)[h])
            /\ Moved(queue, state)[h].stage = "queued"
            /\ state => Moved(queue, state)[h].behind
  BY <1>3, MovedIsGood DEF Ended
<1>6. /\ Moved(runs, state) \in [Groups -> Run \cup {None}]
      /\ \A h \in Groups : Moved(runs, state)[h] # None =>
            /\ Good(Moved(runs, state)[h])
            /\ state => Moved(runs, state)[h].stage \in Ended \/ Moved(runs, state)[h].behind
  BY <1>4, MovedIsGood
<1> QED
  BY <1>1, <1>2, <1>5, <1>6

LEMMA PushStep == ASSUME SyncInv, NEW tip \in Recipes, Push(tip) PROVE SyncInv'
<1>1. PICK x : x = NewRun("main", TRUE, FALSE, tip)
  OBVIOUS
<1>2. Good(x) /\ x.stage = "queued"
  BY <1>1, Constants, NewRunIsGood
<1>3. World'
  BY Constants DEF Push, SyncInv, World
<1>4. waiting' = [Moved(waiting, FALSE) EXCEPT !["all"] = x] /\ run' = Moved(run, FALSE)
  BY <1>1 DEF Push, Enqueue
<1>5. PICK queue : queue = Moved(waiting, FALSE)
  OBVIOUS
<1>6. /\ queue \in [Groups -> Run \cup {None}] /\ waiting' = [queue EXCEPT !["all"] = x]
      /\ \A h \in Groups : queue[h] # None => Good(queue[h]) /\ queue[h].stage = "queued"
  BY <1>4, <1>5, MovedSlots
<1>7. /\ run' \in [Groups -> Run \cup {None}]
      /\ \A h \in Groups : run'[h] # None => \E r : r = run'[h] /\ Good(r)
  BY <1>4, MovedSlots
<1>8. UNCHANGED <<target, upstream, main, releases, published>>
  BY DEF Push
<1> QED
  BY <1>2, <1>3, <1>6, <1>7, <1>8, Constants, Enqueues

(* The world moves on and each run with it. *)
LEMMA AllMove ==
    ASSUME SyncInv, World', Recorded', Shelves', Advances,
           run' \in [Groups -> Run \cup {None}], waiting' \in [Groups -> Run \cup {None}],
           \A h \in Groups : run'[h] # None =>
               \E r : /\ r = run'[h]
                      /\ Good(r)' \/ (Good(r) /\ (main' = main \/ r.stage \in Ended \/ r.behind)),
           \A h \in Groups : waiting'[h] # None =>
               \E r : /\ r = waiting'[h] /\ r.stage = "queued"
                      /\ Good(r) /\ (main' = main \/ r.behind)
    PROVE  SyncInv'
<1>1. \A q : Good(q) /\ (main' = main \/ q.stage \in Ended \/ q.behind) => Good(q)'
  BY StillGood DEF SyncInv
<1>2. Running'
  BY <1>1 DEF Running
<1>3. Queued'
  BY <1>1 DEF Queued
<1> QED
  BY <1>2, <1>3 DEF SyncInv, Slots

LEMMA OtherCommitStep == ASSUME SyncInv, OtherCommit PROVE SyncInv'
<1> USE DEF world
<1>1. run' = Moved(run, FALSE) /\ waiting' = Moved(waiting, FALSE) /\ main' = main
  BY DEF OtherCommit
<1>2. World' /\ Recorded' /\ Shelves'
  BY Constants DEF OtherCommit, SyncInv, World, Recorded, Shelves
<1>3. Advances
  BY Constants DEF OtherCommit, Advances, SyncInv, World, Sources
<1> QED
  BY <1>1, <1>2, <1>3, MovedSlots, AllMove

LEMMA UpstreamStep == ASSUME SyncInv, UpstreamAdvances PROVE SyncInv'
<1> USE DEF ghosts
<1>1. upstream' = [upstream EXCEPT !["main"] = @ + 1] /\ upstream["main"] \in Nat
      /\ upstream["main"] < MaxSource
  BY Constants DEF UpstreamAdvances, SyncInv, World, Sources
<1>2. upstream'["main"] = upstream["main"] + 1 /\ World'
  BY <1>1, Constants DEF UpstreamAdvances, SyncInv, World, Sources
<1>3. Advances
  BY <1>1, <1>2 DEF UpstreamAdvances, Advances
<1>4. main # None => main.source \in Nat
  BY DEF SyncInv, Recorded, Source, Sources
<1>5. Recorded' /\ Shelves'
  BY <1>1, <1>2, <1>4 DEF UpstreamAdvances, SyncInv, Recorded, Shelves
<1>6. run' = run /\ waiting' = waiting /\ main' = main
  BY DEF UpstreamAdvances
<1> QED
  BY <1>2, <1>3, <1>5, <1>6, AllMove DEF SyncInv, Slots, Running, Queued

LEMMA StartStep == ASSUME SyncInv, NEW g \in Groups, Start(g) PROVE SyncInv'
<1> USE DEF world, ghosts
<1>1. PICK r : r = waiting[g]
  OBVIOUS
<1>2. PICK x : x = CheckedOut(r)
  OBVIOUS
<1>3. /\ Good(r) /\ r.stage = "queued" /\ main' = main
      /\ run' = [run EXCEPT ![g] = x] /\ waiting' = [waiting EXCEPT ![g] = None]
  BY <1>1, <1>2 DEF Start, SyncInv, Queued
<1>4. main \in Source \cup {None} /\ recipe \in Recipes
  BY DEF SyncInv, Recorded, World
<1>5. /\ x \in Run /\ x.stage = "resolve" /\ x.source = r.source /\ x.status = r.status
      /\ x.tag = r.tag /\ x.todo = r.todo /\ x.landed = r.landed
      /\ (x.base = r.base /\ x.behind = r.behind) \/ x.base = main
  <2>1. CASE target = "windows"
    <3>1. x = [r EXCEPT !.stage = "resolve"]
      BY <1>2, <2>1 DEF CheckedOut
    <3> QED
      BY <1>3, <3>1 DEF Good, Run, Stages
  <2>2. CASE target # "windows"
    <3>1. x = [r EXCEPT !.stage = "resolve", !.recipe = recipe, !.base = main,
                        !.behind = FALSE, !.moved = FALSE]
      BY <1>2, <2>2 DEF CheckedOut
    <3> QED
      BY <1>3, <1>4, <3>1 DEF Good, Run, Stages
  <2> QED
    BY <2>1, <2>2
<1>6. WellStaged(x)
  BY <1>3, <1>5 DEF Good, WellStaged
<1>7. Informed(x)
  BY <1>3, <1>5 DEF Good, Informed, SyncInv, Recorded, Ended
<1>8. Truthful(x)
  BY <1>3, <1>5 DEF Good, WellStaged, Truthful
<1>9. Good(x)
  BY <1>5, <1>6, <1>7, <1>8 DEF Good
<1>10. World' /\ Recorded' /\ Shelves'
  BY DEF Start, SyncInv, World, Recorded, Shelves
<1>11. Advances
  BY Constants DEF Start, Advances, SyncInv, World, Sources
<1>12. run' \in [Groups -> Run \cup {None}] /\ waiting' \in [Groups -> Run \cup {None}]
  BY <1>3, <1>5 DEF SyncInv, Slots
<1>13. \A h \in Groups : run'[h] # None => \E q : q = run'[h] /\ Good(q)
  BY <1>3, <1>9 DEF SyncInv, Slots, Running
<1>14. \A h \in Groups : waiting'[h] # None => \E q : q = waiting'[h] /\ q.stage = "queued" /\ Good(q)
  BY <1>3 DEF SyncInv, Slots, Queued
<1> QED
  BY <1>3, <1>10, <1>11, <1>12, <1>13, <1>14, AllMove

LEMMA PushStateStep == ASSUME SyncInv, NEW g \in Groups, PushState(g) PROVE SyncInv'
<1> USE DEF world, ghosts
<1>1. PICK r : r = run[g]
  OBVIOUS
<1>2. PICK x : x = [r EXCEPT !.stage = "green", !.landed = TRUE]
  OBVIOUS
<1>3. /\ r # None /\ r.stage = "push" /\ Good(r) /\ ~r.behind /\ main' = SourceOf(r)
      /\ run' = [Moved(run, TRUE) EXCEPT ![g] = x] /\ waiting' = Moved(waiting, TRUE)
  BY <1>1, <1>2 DEF PushState, Conflicted, SyncInv, Running
<1>4. /\ x \in Run /\ x.stage = "green" /\ x.ref = r.ref /\ x.recipe = r.recipe /\ x.base = r.base
      /\ x.source = r.source /\ x.status = r.status /\ x.tag = r.tag /\ x.todo = r.todo
  BY <1>2, <1>3 DEF Good, Run, Stages
<1>5. WellStaged(x)
  BY <1>3, <1>4 DEF Good, WellStaged
<1>6. Informed(x)
  BY <1>3, <1>4 DEF Good, Informed, Ended
<1>7. Truthful(x)
  BY <1>3, <1>4 DEF Good, WellStaged, Truthful
<1>8. Good(x) /\ x.stage \in Ended
  BY <1>4, <1>5, <1>6, <1>7 DEF Good, Ended
<1>9. World' /\ Shelves'
  BY DEF PushState, SyncInv, World, Shelves
<1>10. Recorded'
  <2>1. r.source # None /\ SourceOf(r) \in published
    BY <1>3 DEF Good, WellStaged, Truthful
  <2>2. SourceOf(r).source = r.source /\ SourceOf(r).ref = r.ref
    BY DEF SourceOf
  <2>3. r.ref = "main" => r.source <= upstream["main"]
    BY <1>3, <2>1 DEF Good, Truthful
  <2> QED
    BY <1>3, <2>1, <2>2, <2>3 DEF PushState, SyncInv, Recorded
<1>11. Advances
  BY Constants DEF PushState, Advances, SyncInv, World, Sources
<1>12. run' \in [Groups -> Run \cup {None}] /\ waiting' \in [Groups -> Run \cup {None}]
  BY <1>3, <1>4, MovedSlots
<1>13. \A h \in Groups : run'[h] # None =>
          \E q : q = run'[h] /\ Good(q) /\ (q.stage \in Ended \/ q.behind)
  BY <1>3, <1>8, MovedSlots
<1>14. \A h \in Groups : waiting'[h] # None =>
          \E q : q = waiting'[h] /\ q.stage = "queued" /\ Good(q) /\ q.behind
  BY <1>3, MovedSlots
<1> QED
  BY <1>9, <1>10, <1>11, <1>12, <1>13, <1>14, AllMove

-----------------------------------------------------------------------------
LEMMA SyncInit == Init => SyncInv
<1> SUFFICES ASSUME Init PROVE SyncInv
  OBVIOUS
<1>1. 1 \in Sources /\ 1 \in Recipes
  BY Constants DEF Sources, Recipes
<1>2. World
  BY <1>1, Constants DEF Init, World
<1>3. Shelves
  <2>1. [card |-> None, assets |-> {}] \in Release
    BY DEF Release
  <2> QED
    BY <2>1 DEF Init, Shelves
<1> QED
  BY <1>2, <1>3 DEF Init, SyncInv, Recorded, Slots, Running, Queued

LEMMA SyncStep == SyncInv /\ [Next]_vars => SyncInv'
<1> SUFFICES ASSUME SyncInv, [Next]_vars PROVE SyncInv'
  OBVIOUS
<1>1. CASE UpstreamAdvances
  BY <1>1, UpstreamStep
<1>2. CASE Schedule
  BY <1>2, ScheduleStep
<1>3. CASE People
  BY <1>3, PushStep, DispatchStep, OtherCommitStep DEF People
<1>4. ASSUME NEW g \in Groups, Syncing(g) PROVE SyncInv'
  <2>1. CASE Patch(g)
    <3>1. Patched(g, Patchable(run[g])) /\ failures' = failures
      BY <2>1 DEF Patch
    <3>2. PICK applied \in BOOLEAN : applied = Patchable(run[g])
      BY DEF Patchable
    <3>3. Patched(g, applied)
      BY <3>1, <3>2
    <3> QED
      BY <3>1, <3>3, PatchedStep DEF SyncInv, World
  <2> QED
    BY <1>4, <2>1, StartStep, ResolveStep, SkipStep, BuildStep, AnnounceStep, ClearStep,
       UploadStep,
       PullStep, PushRejectedStep, PushNothingStep, PushStateStep DEF Syncing
<1>5. ASSUME NEW g \in Groups, Failing(g) PROVE SyncInv'
  <2>1. CASE PatchThrows(g)
    <3>1. Patched(g, FALSE)
      BY <2>1 DEF PatchThrows
    <3>2. failures' \in 0..MaxFailures
      BY <2>1, Constants DEF PatchThrows, SyncInv, World
    <3> QED
      BY <3>1, <3>2, PatchedStep
  <2> QED
    BY <1>5, <2>1, PullFailsStep, JobFailsStep DEF Failing
<1>6. CASE UNCHANGED vars
  <2> USE <1>6 DEF vars, world, ghosts
  <2>1. World' /\ Recorded' /\ Shelves'
    BY DEF SyncInv, World, Recorded, Shelves
  <2>2. Advances
    BY Constants DEF Advances, SyncInv, World, Sources
  <2>3. run' = run /\ waiting' = waiting /\ main' = main
    OBVIOUS
  <2> QED
    BY <2>1, <2>2, <2>3, AllMove DEF SyncInv, Slots, Running, Queued
<1> QED
  BY <1>1, <1>2, <1>3, <1>4, <1>5, <1>6 DEF Next

(* The state files and every run stay as SyncInv says, however runs        *)
(* overlap, fail and queue.                                                *)
THEOREM SyncAlways == Spec => []SyncInv
<1> QED
  BY SyncInit, SyncStep, PTL DEF Spec

(* What the state files record was published in full, and so was whatever  *)
(* a run skips on; every run knows what its stage needs: SoundRecords.     *)
THEOREM RecordsAreSound == Spec => []SoundRecords
<1>1. SyncInv => SoundRecords
  <2> SUFFICES ASSUME SyncInv PROVE SoundRecords
    OBVIOUS
  <2>1. RecordedWasPublished
    BY DEF SyncInv, Recorded, RecordedWasPublished
  <2>2. SkipsOnlyPublished
    BY DEF SyncInv, Running, Good, Truthful, SkipsOnlyPublished, Runs
  <2>3. \A g \in Groups : \A r \in {run[g], waiting[g]} \ {None} : WellStaged(r)
    BY DEF SyncInv, Running, Queued, Good
  <2>4. main \in Source \cup {None} /\ published \subseteq Source
    BY DEF SyncInv, Recorded
  <2>5. TypeOK
    BY <2>3, <2>4 DEF SyncInv, World, Shelves, Slots, TypeOK
  <2> QED
    BY <2>1, <2>2, <2>5 DEF SoundRecords
<1> QED
  BY <1>1, SyncAlways, PTL

(* The record of main never goes back to an older source, however runs     *)
(* overlap: only a run that read the state files as they are may replace   *)
(* them, and it resolved upstream after that.                              *)
THEOREM NeverGoesBack == Spec => RecordedNeverGoesBack
<1>1. SyncInv /\ [Next]_vars
      => [main # None /\ main'.ref = "main" /\ main.ref = "main" => main'.source >= main.source]_vars
  <2> SUFFICES ASSUME SyncInv, Next, main # None, main'.ref = "main", main.ref = "main"
               PROVE  main'.source >= main.source
    OBVIOUS
  <2>1. main.source \in Nat
    BY DEF SyncInv, Recorded, Source, Sources
  <2>2. ASSUME NEW g \in Groups, PushState(g) PROVE main'.source >= main.source
    <3>1. PICK r : r = run[g]
      OBVIOUS
    <3>2. r # None /\ r.stage = "push" /\ ~r.behind /\ main' = SourceOf(r)
      BY <2>2, <3>1 DEF PushState, Conflicted
    <3>3. Good(r)
      BY <3>1, <3>2 DEF SyncInv, Running
    <3>4. r.base = main /\ r.source # None /\ r.source \in Sources /\ r.ref = main'.ref
      BY <3>2, <3>3 DEF Good, Run, WellStaged, Informed, Ended, SourceOf
    <3>5. main.source <= r.source
      BY <3>3, <3>4 DEF Good, Truthful
    <3>6. main'.source = r.source /\ r.source \in Nat
      BY <3>2, <3>4 DEF SourceOf, Sources
    <3> QED
      BY <2>1, <3>5, <3>6
  <2>3. ASSUME main' = main PROVE main'.source >= main.source
    BY <2>1, <2>3
  <2>4. main' = main \/ \E g \in Groups : PushState(g)
    BY DEF Next, Syncing, Failing, People, UpstreamAdvances, Schedule, Push, Dispatch,
       OtherCommit,
           Start, Resolve, Skip, Patch, Patched, PatchThrows, Build, Announce, Clear, Upload, Pull,
           PullFails, PushRejected, PushNothing, JobFails, vars
  <2> QED
    BY <2>2, <2>3, <2>4
<1> QED
  BY <1>1, SyncAlways, PTL DEF RecordedNeverGoesBack, Spec

-----------------------------------------------------------------------------
(***************************************************************************)
(* With a single concurrency group nothing else touches a release while a  *)
(* run publishes.  Of its n - 1 first files the rolling release holds      *)
(* exactly those, and the others are still to do; and nobody moves the     *)
(* state files under a linux run.                                          *)
(***************************************************************************)
Parts(r, n) == {Files(r)[i] : i \in 1..(n - 1)}
ToDo(r, n) ==
    /\ Len(r.todo) = Len(Files(r)) - n + 1
    /\ \A i \in 1..Len(r.todo) : r.todo[i] = Files(r)[n + i - 1]

Holds(r, n) ==
    /\ releases[Rolling].card = [source |-> r.source, status |-> r.status]
    /\ releases[Rolling].assets = Parts(r, n)

Publishing(r) ==
    /\ r.stage \in {"clear", "upload"} =>
        \E n \in 1..Len(Files(r)) :
            /\ ToDo(r, n)
            /\ r.stage = "clear" => n = 1 /\ r.tag = Rolling
            /\ r.tag = Rolling /\ r.stage = "upload" => Holds(r, n)
    /\ r.stage = "clear" => releases[Rolling].card = [source |-> r.source, status |-> r.status]
    /\ r.stage \in {"commit", "push"} => Holds(r, Len(Files(r)) + 1)

Unmoved(r) ==
    target = "linux" =>
        /\ r.stage \notin Ended \cup {"queued"} => ~r.behind
        /\ r.stage = "green" /\ r.status = "applied" /\ ~r.dry => r.landed

Serial(r) == Publishing(r) /\ Unmoved(r)
SerialInv == \A r : r = run["all"] /\ r # None => Serial(r)

(* The same build, looked at again. *)
SameBuild(q, r) ==
    /\ q.source = r.source /\ q.ref = r.ref /\ q.recipe = r.recipe /\ q.status = r.status
    /\ target' = target

LEMMA SameFiles ==
    ASSUME NEW q, NEW r, SameBuild(q, r)
    PROVE  /\ Files(q)' = Files(r)
           /\ \A n : Parts(q, n)' = Parts(r, n)
<1>1. \A k : AssetOf(q, k) = AssetOf(r, k)
  BY DEF SameBuild, AssetOf, SourceOf
<1>2. Files(q)' = Files(r)
  BY <1>1 DEF Files, SameBuild
<1> QED
  BY <1>2 DEF Parts

(* A run whose build is not on its way to the rolling release. *)
LEMMA ElsewhereIsSerial ==
    ASSUME NEW q, q.stage \in {"queued", "resolve", "decide", "build", "announce", "green", "red"},
           Unmoved(q)'
    PROVE  Serial(q)'
  BY DEF Serial, Publishing

LEMMA StillPublishing ==
    ASSUME NEW q, NEW r, Publishing(r), SameBuild(q, r), releases' = releases,
           q.tag = r.tag, q.todo = r.todo,
           q.stage = r.stage \/ (r.stage = "commit" /\ q.stage = "push")
    PROVE  Publishing(q)'
<1>1. Files(q)' = Files(r) /\ \A n : Parts(q, n)' = Parts(r, n)
  BY SameFiles
<1>2. \A n : ToDo(r, n) => ToDo(q, n)'
  BY <1>1 DEF ToDo
<1>3. \A n : Holds(r, n) => Holds(q, n)'
  BY <1>1 DEF Holds, SameBuild
<1>4. q.stage \in {"clear", "upload"} =>
          (\E n \in 1..Len(Files(q)) : /\ ToDo(q, n)
                                       /\ q.stage = "clear" => n = 1 /\ q.tag = Rolling
                                       /\ q.tag = Rolling /\ q.stage = "upload" => Holds(q, n))'
  BY <1>1, <1>2, <1>3 DEF Publishing
<1>5. q.stage = "clear" => releases'[Rolling].card = [source |-> q.source, status |-> q.status]
  BY DEF Publishing, SameBuild
<1>6. q.stage \in {"commit", "push"} => Holds(q, Len(Files(q)) + 1)'
  BY <1>1, <1>3 DEF Publishing
<1> QED
  BY <1>4, <1>5, <1>6 DEF Publishing

(* No two files of a build have the same name. *)
LEMMA FilesDiffer ==
    ASSUME NEW r, NEW i \in 1..Len(Files(r)), NEW j \in 1..Len(Files(r)), i < j
    PROVE  ~SameName(Files(r)[i], Files(r)[j])
<1>1. CASE r.status = "failed"
  BY <1>1 DEF Files
<1>2. CASE r.status # "failed" /\ target = "linux"
  BY <1>2 DEF Files, AssetOf, SameName
<1>3. CASE r.status # "failed" /\ target # "linux"
  BY <1>3 DEF Files, AssetOf, SameName
<1> QED
  BY <1>1, <1>2, <1>3

(* The next file joins those uploaded before. *)
LEMMA OneMoreFile ==
    ASSUME SyncInv, NEW r, Good(r), r.stage = "upload", r.tag = Rolling,
           NEW n \in 1..Len(Files(r)), ToDo(r, n), Holds(r, n),
           releases' = [releases EXCEPT ![r.tag].assets = Others(r.tag, Head(r.todo)) \cup {Head(r.todo)}]
    PROVE  /\ releases'[Rolling].card = releases[Rolling].card
           /\ releases'[Rolling].assets = Parts(r, n + 1)
<1>1. /\ r.source # None /\ r.todo \in Seq(Asset) /\ r.todo # <<>>
  BY DEF Good, Run, WellStaged
<1>2. Len(Files(r)) \in 1..3
  BY <1>1, FilesType
<1>3. Head(r.todo) = Files(r)[n]
  <2>1. Len(r.todo) \in Nat \ {0}
    BY <1>1, EmptySeq
  <2>2. r.todo[1] = Files(r)[n]
    <3>1. 1 \in 1..Len(r.todo)
      BY <2>1
    <3>2. r.todo[1] = Files(r)[n + 1 - 1]
      BY <3>1 DEF ToDo
    <3>3. n + 1 - 1 = n
      BY <1>2
    <3> QED
      BY <3>2, <3>3
  <2>3. Head(r.todo) = r.todo[1]
    BY <1>1
  <2> QED
    BY <2>2, <2>3
<1>4. Others(Rolling, Files(r)[n]) = Parts(r, n)
  <2>1. \A i \in 1..(n - 1) : i \in 1..Len(Files(r)) /\ i < n
    BY <1>2
  <2>2. \A i \in 1..(n - 1) : ~SameName(Files(r)[i], Files(r)[n])
    BY <2>1, FilesDiffer
  <2> QED
    BY <2>2 DEF Others, Holds, Parts
<1>5. Parts(r, n + 1) = Parts(r, n) \cup {Files(r)[n]}
  <2>1. 1..(n + 1 - 1) = 1..(n - 1) \cup {n}
    BY <1>2
  <2> QED
    BY <2>1 DEF Parts
<1>6. releases \in [Tags -> Release] /\ Rolling \in Tags
  BY Constants DEF SyncInv, Shelves
<1>7. /\ releases'[Rolling].card = releases[Rolling].card
      /\ releases'[Rolling].assets = Others(Rolling, Files(r)[n]) \cup {Files(r)[n]}
  BY <1>3, <1>6 DEF Release
<1> QED
  BY <1>4, <1>5, <1>7

LEMMA UploadSerial ==
    ASSUME SyncInv, SerialInv, Upload("all"), NEW q, q = run'["all"]
    PROVE  Serial(q)'
<1>1. PICK r : r = run["all"]
  OBVIOUS
<1>2. PICK x : x = Uploaded(r)
  OBVIOUS
<1>3. /\ r # None /\ r.stage = "upload" /\ Good(r) /\ Serial(r) /\ q = x /\ target' = target
      /\ releases' = [releases EXCEPT ![r.tag].assets = Others(r.tag, Head(r.todo)) \cup {Head(r.todo)}]
  BY <1>1, <1>2, Constants DEF Upload, Step, world, SyncInv, Running, SerialInv, Slots
<1>4. r \in Run /\ r.todo \in Seq(Asset) /\ r.todo # <<>> /\ r.source # None
  BY <1>3 DEF Good, Run, WellStaged
<1>5. PICK n \in 1..Len(Files(r)) : ToDo(r, n) /\ (r.tag = Rolling => Holds(r, n))
  BY <1>3 DEF Serial, Publishing
<1>6. Len(Files(r)) \in 1..3
  BY <1>3, <1>4, FilesType
<1>7. Unmoved(q)' /\ SameBuild(q, r)
  <2>1. CASE Len(r.todo) > 1
    <3>1. x = [r EXCEPT !.todo = Tail(@)]
      BY <1>2, <2>1 DEF Uploaded
    <3> QED
      BY <1>3, <1>4, <3>1 DEF Serial, Unmoved, SameBuild, Run
  <2>2. CASE ~(Len(r.todo) > 1) /\ r.tag # Rolling
    <3>1. x = [r EXCEPT !.stage = "announce", !.tag = Rolling, !.todo = <<>>]
      BY <1>2, <2>2 DEF Uploaded
    <3> QED
      BY <1>3, <1>4, <3>1 DEF Serial, Unmoved, SameBuild, Run, Ended
  <2>3. CASE ~(Len(r.todo) > 1) /\ r.tag = Rolling
    <3> DEFINE next == IF r.status = "applied" THEN "commit" ELSE "red"
    <3>1. x = [r EXCEPT !.stage = next, !.tag = None, !.todo = <<>>]
      BY <1>2, <2>3 DEF Uploaded
    <3>2. next # "green"
      OBVIOUS
    <3> HIDE DEF next
    <3> QED
      BY <1>3, <1>4, <3>1, <3>2 DEF Serial, Unmoved, SameBuild, Run, Ended
  <2> QED
    BY <2>1, <2>2, <2>3
<1>8. Files(q)' = Files(r) /\ \A m : Parts(q, m)' = Parts(r, m)
  BY <1>7, SameFiles
<1>9. CASE Len(r.todo) > 1
  <2>1. q = [r EXCEPT !.todo = Tail(@)]
    BY <1>2, <1>3, <1>9 DEF Uploaded
  <2>2. q.stage = "upload" /\ q.tag = r.tag /\ q.todo = Tail(r.todo)
    BY <1>3, <1>4, <2>1 DEF Run
  <2>3. Len(r.todo) = Len(Files(r)) - n + 1 /\ Len(r.todo) \in Nat
    BY <1>4, <1>5, EmptySeq DEF ToDo
  <2>4. n + 1 \in 1..Len(Files(r))
    BY <1>6, <1>9, <2>3
  <2>5. ToDo(q, n + 1)'
    <3>1. /\ Len(q.todo) = Len(r.todo) - 1
          /\ \A i \in 1..Len(q.todo) : q.todo[i] = r.todo[i + 1]
      BY <1>4, <2>2, HeadTailProperties
    <3>2. \A i \in 1..Len(q.todo) : i + 1 \in 1..Len(r.todo) /\ n + (i + 1) - 1 = n + 1 + i - 1
      BY <1>6, <2>3, <3>1
    <3>3. \A i \in 1..Len(q.todo) : q.todo[i] = Files(r)[n + 1 + i - 1]
      BY <1>5, <3>1, <3>2 DEF ToDo
    <3>4. Len(q.todo) = Len(Files(r)) - (n + 1) + 1
      BY <1>6, <2>3, <3>1
    <3> QED
      BY <1>8, <3>3, <3>4 DEF ToDo
  <2>6. q.tag = Rolling => Holds(q, n + 1)'
    BY <1>3, <1>5, <1>7, <1>8, <2>2, OneMoreFile DEF Holds, SameBuild
  <2> QED
    BY <1>7, <1>8, <2>2, <2>4, <2>5, <2>6 DEF Serial, Publishing
<1>10. CASE ~(Len(r.todo) > 1) /\ r.tag # Rolling
  <2>1. x = [r EXCEPT !.stage = "announce", !.tag = Rolling, !.todo = <<>>]
    BY <1>2, <1>10 DEF Uploaded
  <2>2. q.stage = "announce"
    BY <1>3, <1>4, <2>1 DEF Run
  <2> QED
    BY <1>7, <2>2, ElsewhereIsSerial
<1>11. CASE ~(Len(r.todo) > 1) /\ r.tag = Rolling
  <2> DEFINE next == IF r.status = "applied" THEN "commit" ELSE "red"
  <2>1. x = [r EXCEPT !.stage = next, !.tag = None, !.todo = <<>>]
    BY <1>2, <1>11 DEF Uploaded
  <2>2. next \in {"commit", "red"}
    OBVIOUS
  <2> HIDE DEF next
  <2>3. q.stage \in {"commit", "red"}
    BY <1>3, <1>4, <2>1, <2>2 DEF Run
  <2>4. n = Len(Files(r))
    <3>1. Len(r.todo) = 1
      BY <1>4, <1>11, NonEmpty, Zenon
    <3>2. Len(r.todo) = Len(Files(r)) - n + 1
      BY <1>5 DEF ToDo
    <3>3. n \in Int /\ Len(Files(r)) \in Int
      BY <1>5, <1>6
    <3>4. \A a, b \in Int : 1 = a - b + 1 => b = a
      OBVIOUS
    <3> QED
      BY <3>1, <3>2, <3>3, <3>4, Zenon
  <2>5. Holds(q, Len(Files(q)) + 1)'
    BY <1>3, <1>5, <1>7, <1>8, <1>11, <2>4, OneMoreFile DEF Holds, SameBuild
  <2> QED
    BY <1>7, <2>3, <2>5 DEF Serial, Publishing
<1> QED
  BY <1>9, <1>10, <1>11

LEMMA ResolveSerial ==
    ASSUME SyncInv, SerialInv, Resolve("all"), NEW q, q = run'["all"]
    PROVE  Serial(q)'
<1>1. PICK r : r = run["all"]
  OBVIOUS
<1>2. PICK x : x = [r EXCEPT !.stage = "decide", !.source = upstream[r.ref]]
  OBVIOUS
<1>3. r # None /\ r.stage = "resolve" /\ Good(r) /\ Serial(r) /\ q = x /\ target' = target
  BY <1>1, <1>2, Constants DEF Resolve, Step, world, SyncInv, Running, SerialInv, Slots
<1>4. r \in Run
  BY <1>3 DEF Good
<1>5. Unmoved(q)' /\ q.stage = "decide"
  BY <1>2, <1>3, <1>4 DEF Serial, Unmoved, Run, Ended
<1> QED
  BY <1>5, ElsewhereIsSerial

LEMMA SkipSerial ==
    ASSUME SyncInv, SerialInv, Skip("all"), NEW q, q = run'["all"]
    PROVE  Serial(q)'
<1>1. PICK r : r = run["all"]
  OBVIOUS
<1>2. PICK x : x = [r EXCEPT !.stage = "green"]
  OBVIOUS
<1>3. r # None /\ r.stage = "decide" /\ Good(r) /\ Serial(r) /\ q = x /\ target' = target
  BY <1>1, <1>2, Constants DEF Skip, Step, world, SyncInv, Running, SerialInv, Slots
<1>4. r \in Run
  BY <1>3 DEF Good
<1>5. q.stage = "green" /\ q.status = "not_run"
  BY <1>2, <1>3, <1>4 DEF Good, WellStaged, Run
<1>6. Unmoved(q)'
  BY <1>5 DEF Unmoved, Ended
<1> QED
  BY <1>5, <1>6, ElsewhereIsSerial

LEMMA PushRejectedSerial ==
    ASSUME SyncInv, SerialInv, PushRejected("all"), NEW q, q = run'["all"]
    PROVE  Serial(q)'
<1>1. PICK r : r = run["all"]
  OBVIOUS
<1>2. PICK x : x = [r EXCEPT !.stage = "red"]
  OBVIOUS
<1>3. r # None /\ r.stage = "push" /\ Good(r) /\ Serial(r) /\ q = x /\ target' = target
  BY <1>1, <1>2, Constants DEF PushRejected, Step, world, SyncInv, Running, SerialInv, Slots
<1>4. r \in Run
  BY <1>3 DEF Good
<1>5. Unmoved(q)' /\ q.stage = "red"
  BY <1>2, <1>3, <1>4 DEF Serial, Unmoved, Run, Ended
<1> QED
  BY <1>5, ElsewhereIsSerial

LEMMA PushNothingSerial ==
    ASSUME SyncInv, SerialInv, PushNothing("all"), NEW q, q = run'["all"]
    PROVE  Serial(q)'
<1>1. PICK r : r = run["all"]
  OBVIOUS
<1>2. PICK x : x = [r EXCEPT !.stage = "green"]
  OBVIOUS
<1>3. r # None /\ r.stage = "push" /\ Good(r) /\ Serial(r) /\ q = x /\ target' = target
  BY <1>1, <1>2, Constants DEF PushNothing, Step, world, SyncInv, Running, SerialInv, Slots
<1>4. r \in Run
  BY <1>3 DEF Good
<1>5. target # "linux" /\ q.stage = "green"
  BY <1>1, <1>2, <1>3, <1>4 DEF PushNothing, Conflicted, Serial, Unmoved, Run, Ended
<1>6. Unmoved(q)'
  BY <1>3, <1>5 DEF Unmoved
<1> QED
  BY <1>5, <1>6, ElsewhereIsSerial

LEMMA PullSerial ==
    ASSUME SyncInv, SerialInv, Pull("all"), NEW q, q = run'["all"]
    PROVE  Serial(q)'
<1>1. PICK r : r = run["all"]
  OBVIOUS
<1>2. PICK x : x = [r EXCEPT !.stage = "push", !.moved = FALSE]
  OBVIOUS
<1>3. r # None /\ r.stage = "commit" /\ Good(r) /\ Serial(r) /\ q = x /\ target' = target
  BY <1>1, <1>2, Constants DEF Pull, Step, world, SyncInv, Running, SerialInv, Slots
<1>4. r \in Run
  BY <1>3 DEF Good
<1>5. SameBuild(q, r) /\ q.tag = r.tag /\ q.todo = r.todo /\ q.stage = "push"
  BY <1>2, <1>3, <1>4 DEF SameBuild, Run
<1>6. releases' = releases
  BY DEF Pull
<1>7. Publishing(q)'
  BY <1>3, <1>5, <1>6, StillPublishing DEF Serial
<1>8. Unmoved(q)'
  BY <1>2, <1>3, <1>4, <1>5 DEF Serial, Unmoved, Run, Ended
<1> QED
  BY <1>7, <1>8 DEF Serial

LEMMA PullFailsSerial ==
    ASSUME SyncInv, SerialInv, PullFails("all"), NEW q, q = run'["all"]
    PROVE  Serial(q)'
<1>1. PICK r : r = run["all"]
  OBVIOUS
<1>2. PICK x : x = [r EXCEPT !.stage = "push"]
  OBVIOUS
<1>3. r # None /\ r.stage = "commit" /\ Good(r) /\ Serial(r) /\ q = x /\ target' = target
  BY <1>1, <1>2, Constants DEF PullFails, Step, world, SyncInv, Running, SerialInv, Slots
<1>4. r \in Run
  BY <1>3 DEF Good
<1>5. SameBuild(q, r) /\ q.tag = r.tag /\ q.todo = r.todo /\ q.stage = "push"
  BY <1>2, <1>3, <1>4 DEF SameBuild, Run
<1>6. releases' = releases
  BY DEF PullFails
<1>7. Publishing(q)'
  BY <1>3, <1>5, <1>6, StillPublishing DEF Serial
<1>8. Unmoved(q)'
  BY <1>2, <1>3, <1>4, <1>5 DEF Serial, Unmoved, Run, Ended
<1> QED
  BY <1>7, <1>8 DEF Serial

LEMMA PatchedSerial ==
    ASSUME SyncInv, SerialInv, NEW applied \in BOOLEAN, Patched("all", applied), NEW q, q = run'["all"]
    PROVE  Serial(q)'
<1>1. PICK r : r = run["all"]
  OBVIOUS
<1> DEFINE next == IF applied THEN "build"
                   ELSE IF target = "windows" /\ ~r.dry THEN "announce" ELSE "red"
<1>2. PICK x : x = [r EXCEPT !.stage = next,
                             !.status = IF applied THEN "applied" ELSE "failed",
                             !.tag = IF next = "announce" THEN ShaOf[r.source] ELSE None]
  OBVIOUS
<1>3. r # None /\ r.stage = "decide" /\ Good(r) /\ Serial(r) /\ q = x /\ target' = target
  BY <1>1, <1>2, Constants DEF Patched, Step, world, SyncInv, Running, SerialInv, Slots
<1>4. next \in {"build", "announce", "red"}
  OBVIOUS
<1> HIDE DEF next
<1>5. q.stage = next /\ q.behind = r.behind
  BY <1>2, <1>3 DEF Good, Run
<1>6. Unmoved(q)'
  BY <1>3, <1>4, <1>5 DEF Serial, Unmoved, Ended
<1> QED
  BY <1>4, <1>5, <1>6, ElsewhereIsSerial

LEMMA BuildSerial ==
    ASSUME SyncInv, SerialInv, Build("all"), NEW q, q = run'["all"]
    PROVE  Serial(q)'
<1>1. PICK r : r = run["all"]
  OBVIOUS
<1>2. PICK x : x = IF r.dry THEN [r EXCEPT !.stage = "green"]
                   ELSE [r EXCEPT !.stage = "announce", !.tag = ShaOf[r.source]]
  OBVIOUS
<1>3. r # None /\ r.stage = "build" /\ Good(r) /\ Serial(r) /\ q = x /\ target' = target
  BY <1>1, <1>2, Constants DEF Build, Step, world, SyncInv, Running, SerialInv, Slots
<1>4. r \in Run /\ (target = "linux" => ~r.behind)
  BY <1>3 DEF Good, Serial, Unmoved, Ended
<1>5. CASE r.dry
  <2>1. q = [r EXCEPT !.stage = "green"]
    BY <1>2, <1>3, <1>5, Zenon
  <2>2. q.stage = "green" /\ q.dry
    BY <1>4, <1>5, <2>1 DEF Run
  <2>3. Unmoved(q)'
    BY <2>2 DEF Unmoved, Ended
  <2> QED
    BY <2>2, <2>3, ElsewhereIsSerial
<1>6. CASE ~r.dry
  <2>1. q = [r EXCEPT !.stage = "announce", !.tag = ShaOf[r.source]]
    BY <1>2, <1>3, <1>6, Zenon
  <2>2. q.stage = "announce" /\ (target = "linux" => ~q.behind)
    BY <1>4, <2>1 DEF Run
  <2>3. Unmoved(q)'
    BY <1>3, <2>2 DEF Unmoved
  <2> QED
    BY <2>2, <2>3, ElsewhereIsSerial
<1> QED
  BY <1>5, <1>6

LEMMA AnnounceSerial ==
    ASSUME SyncInv, SerialInv, Announce("all"), NEW q, q = run'["all"]
    PROVE  Serial(q)'
<1>1. PICK r : r = run["all"]
  OBVIOUS
<1> DEFINE next == IF r.tag = Rolling THEN "clear" ELSE "upload"
<1>2. PICK x : x = [r EXCEPT !.stage = next, !.todo = Files(r)]
  OBVIOUS
<1>3. /\ r # None /\ r.stage = "announce" /\ Good(r) /\ Serial(r) /\ q = x /\ target' = target
      /\ releases' = [releases EXCEPT ![r.tag].card = [source |-> r.source, status |-> r.status]]
  BY <1>1, <1>2, Constants DEF Announce, Step, world, SyncInv, Running, SerialInv, Slots
<1>4. /\ next \in {"clear", "upload"} /\ (next = "clear" => r.tag = Rolling)
      /\ next = "upload" => r.tag # Rolling
  OBVIOUS
<1> HIDE DEF next
<1>5. /\ q.stage = next /\ q.todo = Files(r) /\ q.behind = r.behind /\ q.tag = r.tag
      /\ SameBuild(q, r)
  BY <1>2, <1>3 DEF Good, Run, SameBuild
<1>6. Unmoved(q)'
  BY <1>3, <1>4, <1>5 DEF Serial, Unmoved, Ended
<1>7. Files(q)' = Files(r) /\ r.source # None
  BY <1>3, <1>5, SameFiles DEF Good, WellStaged
<1>8. Len(Files(r)) \in 1..3
  BY <1>3, <1>7, FilesType
<1>9. ToDo(q, 1)'
  <2>1. Len(q.todo) = Len(Files(r)) - 1 + 1 /\ \A i \in 1..Len(q.todo) : 1 + i - 1 = i
    BY <1>5, <1>8
  <2> QED
    BY <1>5, <1>7, <2>1 DEF ToDo
<1>10. next = "clear" => releases'[Rolling].card = [source |-> q.source, status |-> q.status]
  <2>1. releases \in [Tags -> Release] /\ Rolling \in Tags
    BY Constants DEF SyncInv, Shelves
  <2> QED
    BY <1>3, <1>4, <1>5, <2>1 DEF Release, SameBuild
<1>11. Publishing(q)'
  <2>1. 1 \in 1..Len(Files(r))
    BY <1>8
  <2> QED
    BY <1>4, <1>5, <1>7, <1>9, <1>10, <2>1 DEF Publishing
<1> QED
  BY <1>6, <1>11 DEF Serial

LEMMA ClearSerial ==
    ASSUME SyncInv, SerialInv, Clear("all"), NEW q, q = run'["all"]
    PROVE  Serial(q)'
<1>1. PICK r : r = run["all"]
  OBVIOUS
<1>2. PICK x : x = [r EXCEPT !.stage = "upload"]
  OBVIOUS
<1>3. /\ r # None /\ r.stage = "clear" /\ Good(r) /\ Serial(r) /\ q = x /\ target' = target
      /\ releases' = [releases EXCEPT ![r.tag].assets = {}]
  BY <1>1, <1>2, Constants DEF Clear, Step, world, SyncInv, Running, SerialInv, Slots
<1>4. q.stage = "upload" /\ q.tag = r.tag /\ q.todo = r.todo /\ q.behind = r.behind /\ SameBuild(q, r)
  BY <1>2, <1>3 DEF Good, Run, SameBuild
<1>5. Unmoved(q)'
  BY <1>3, <1>4 DEF Serial, Unmoved, Ended
<1>6. Files(q)' = Files(r) /\ \A m : Parts(q, m)' = Parts(r, m)
  BY <1>4, SameFiles
<1>7. /\ 1 \in 1..Len(Files(r)) /\ ToDo(r, 1) /\ r.tag = Rolling
      /\ releases[Rolling].card = [source |-> r.source, status |-> r.status]
  BY <1>3 DEF Serial, Publishing
<1>8. ToDo(q, 1)'
  BY <1>4, <1>6, <1>7 DEF ToDo
<1>9. Parts(r, 1) = {}
  BY DEF Parts
<1>10. Holds(q, 1)'
  <2>1. releases \in [Tags -> Release] /\ Rolling \in Tags
    BY Constants DEF SyncInv, Shelves
  <2>2. releases'[Rolling].card = releases[Rolling].card /\ releases'[Rolling].assets = {}
    BY <1>3, <1>7, <2>1 DEF Release
  <2> QED
    BY <1>4, <1>6, <1>7, <1>9, <2>2 DEF Holds, SameBuild
<1>11. Publishing(q)'
  BY <1>4, <1>6, <1>7, <1>8, <1>10 DEF Publishing
<1> QED
  BY <1>5, <1>11 DEF Serial

LEMMA JobFailsSerial ==
    ASSUME SyncInv, SerialInv, JobFails("all"), NEW q, q = run'["all"]
    PROVE  Serial(q)'
<1>1. PICK r : r = run["all"]
  OBVIOUS
<1>2. PICK x : x = [r EXCEPT !.stage = "red", !.tag = None, !.todo = <<>>]
  OBVIOUS
<1>3. r # None /\ Good(r) /\ q = x
  BY <1>1, <1>2, Constants DEF JobFails, Idle, SyncInv, Running, Slots
<1>4. q.stage = "red"
  BY <1>2, <1>3 DEF Good, Run
<1>5. Unmoved(q)'
  BY <1>4 DEF Unmoved, Ended
<1> QED
  BY <1>4, <1>5, ElsewhereIsSerial

LEMMA PushStateSerial ==
    ASSUME SyncInv, SerialInv, PushState("all"), NEW q, q = run'["all"]
    PROVE  Serial(q)'
<1>1. PICK r : r = run["all"]
  OBVIOUS
<1>2. PICK x : x = [r EXCEPT !.stage = "green", !.landed = TRUE]
  OBVIOUS
<1>3. r # None /\ Good(r) /\ run' = [Moved(run, TRUE) EXCEPT !["all"] = x]
  BY <1>1, <1>2, Constants DEF PushState, SyncInv, Running
<1>4. q = x
  BY <1>3, MovedSlots, Constants
<1>5. q.stage = "green" /\ q.landed
  BY <1>2, <1>3, <1>4 DEF Good, Run
<1>6. Unmoved(q)'
  BY <1>5 DEF Unmoved, Ended
<1> QED
  BY <1>5, <1>6, ElsewhereIsSerial

LEMMA StartSerial ==
    ASSUME SyncInv, SerialInv, Start("all"), NEW q, q = run'["all"]
    PROVE  Serial(q)'
<1>1. PICK r : r = waiting["all"]
  OBVIOUS
<1>2. PICK x : x = CheckedOut(r)
  OBVIOUS
<1>3. Good(r) /\ q = x /\ target' = target
  BY <1>1, <1>2, Constants DEF Start, world, SyncInv, Queued, Slots
<1>4. q.stage = "resolve" /\ (target = "linux" => ~q.behind)
  <2>1. CASE target = "windows"
    BY <1>2, <1>3, <2>1 DEF CheckedOut, Good, Run
  <2>2. CASE target # "windows"
    <3>1. x = [r EXCEPT !.stage = "resolve", !.recipe = recipe, !.base = main,
                        !.behind = FALSE, !.moved = FALSE]
      BY <1>2, <2>2 DEF CheckedOut
    <3> QED
      BY <1>3, <3>1 DEF Good, Run
  <2> QED
    BY <2>1, <2>2
<1>5. Unmoved(q)'
  BY <1>3, <1>4 DEF Unmoved
<1> QED
  BY <1>4, <1>5, ElsewhereIsSerial

(* A commit by others changes nothing of a run but the push it must repeat. *)
LEMMA OthersSerial ==
    ASSUME SyncInv, SerialInv, target' = target, releases' = releases,
           run' = run \/ run' = Moved(run, FALSE), NEW q, q = run'["all"], q # None
    PROVE  Serial(q)'
<1>1. PICK r : r = run["all"]
  OBVIOUS
<1>2. q = r \/ (r # None /\ q = Overtaken(r, FALSE))
  BY <1>1, Constants DEF Moved
<1>3. r # None /\ Good(r) /\ Serial(r)
  BY <1>1, <1>2, Constants DEF SyncInv, Running, SerialInv
<1>4. /\ q.stage = r.stage /\ q.tag = r.tag /\ q.todo = r.todo /\ q.behind = r.behind
      /\ q.landed = r.landed /\ q.dry = r.dry /\ SameBuild(q, r)
  BY <1>2, <1>3 DEF Good, Run, Overtaken, SameBuild
<1>5. Publishing(q)'
  BY <1>3, <1>4, StillPublishing DEF Serial
<1>6. Unmoved(q)'
  BY <1>3, <1>4 DEF Serial, Unmoved, SameBuild
<1> QED
  BY <1>5, <1>6 DEF Serial

LEMMA SerialStep ==
    ASSUME Groups = {"all"}
    PROVE  SyncInv /\ SerialInv /\ [Next]_vars => SerialInv'
<1> SUFFICES ASSUME SyncInv, SerialInv, [Next]_vars, NEW q, q = run'["all"], q # None
             PROVE  Serial(q)'
  BY DEF SerialInv
<1>1. CASE Syncing("all")
  <2>1. CASE Patch("all")
    <3>1. Patched("all", Patchable(run["all"]))
      BY <2>1 DEF Patch
    <3>2. PICK applied \in BOOLEAN : applied = Patchable(run["all"])
      BY DEF Patchable
    <3>3. Patched("all", applied)
      BY <3>1, <3>2
    <3> QED
      BY <3>3, PatchedSerial
  <2> QED
    BY <1>1, <2>1, StartSerial, ResolveSerial, SkipSerial, BuildSerial, AnnounceSerial,
       ClearSerial,
       UploadSerial, PullSerial, PushRejectedSerial, PushNothingSerial, PushStateSerial DEF Syncing
<1>2. CASE Failing("all")
  <2>1. CASE PatchThrows("all")
    <3>1. Patched("all", FALSE)
      BY <2>1 DEF PatchThrows
    <3> QED
      BY <3>1, PatchedSerial
  <2> QED
    BY <1>2, <2>1, PullFailsSerial, JobFailsSerial DEF Failing
<1>3. CASE UpstreamAdvances \/ Schedule \/ People \/ UNCHANGED vars
  <2>1. target' = target /\ releases' = releases /\ (run' = run \/ run' = Moved(run, FALSE))
    BY <1>3 DEF UpstreamAdvances, Schedule, People, Push, Dispatch, OtherCommit, vars, world
  <2> QED
    BY <2>1, OthersSerial
<1> QED
  BY <1>1, <1>2, <1>3 DEF Next

LEMMA SerialAlways == ASSUME Groups = {"all"} PROVE Spec => [](SyncInv /\ SerialInv)
<1>1. Init => SyncInv /\ SerialInv
  BY SyncInit, Constants DEF Init, SerialInv
<1>2. SyncInv /\ SerialInv /\ [Next]_vars => (SyncInv /\ SerialInv)'
  BY SyncStep, SerialStep
<1> QED
  BY <1>1, <1>2, PTL DEF Spec

(* With a single group, a run that goes on to its state commit left        *)
(* exactly its own files and card in the rolling release: RollingIsWhole.  *)
THEOREM WholeWhenSerial == ASSUME Groups = {"all"} PROVE Spec => []RollingIsWhole
<1>1. SyncInv /\ SerialInv => RollingIsWhole
  <2> SUFFICES ASSUME SyncInv, SerialInv, NEW r \in Runs, r.stage \in {"commit", "push"}
               PROVE  /\ releases[Rolling].card = [source |-> r.source, status |-> "applied"]
                      /\ releases[Rolling].assets = {Files(r)[i] : i \in 1..Len(Files(r))}
    BY DEF RollingIsWhole
  <2>1. r = run["all"] /\ r # None
    BY DEF Runs
  <2>2. Good(r) /\ Serial(r)
    BY <2>1, Constants DEF SyncInv, Running, SerialInv
  <2>3. Holds(r, Len(Files(r)) + 1) /\ r.status = "applied" /\ r.source # None
    BY <2>2 DEF Serial, Publishing, Good, WellStaged
  <2>4. Len(Files(r)) + 1 - 1 = Len(Files(r))
    BY <2>2, <2>3, FilesType
  <2> QED
    BY <2>3, <2>4 DEF Holds, Parts
<1> QED
  BY <1>1, SerialAlways, PTL

(* With a single group, a linux run that ends without an error recorded    *)
(* what it built: LinuxGreenMeansRecorded.                                 *)
THEOREM LinuxRecords == ASSUME Groups = {"all"} PROVE Spec => []LinuxGreenMeansRecorded
<1>1. SerialInv => LinuxGreenMeansRecorded
  BY DEF SerialInv, Serial, Unmoved, LinuxGreenMeansRecorded, GreenMeansRecorded, Runs
<1> QED
  BY <1>1, SerialAlways, PTL
===============================================================================
