---------------------------- MODULE ReleaseProofs ----------------------------
(***************************************************************************)
(* Proofs about a release: what ReleasePublisher puts under a tag, for any *)
(* runs, files, leftovers and numbers of attempts and faults, and what the *)
(* checks of ReleaseProbe vouch for, for any set of daemon commands.       *)
(***************************************************************************)
EXTENDS ReleasePublisher, ReleaseProbe, FiniteSetTheorems, TLAPS

(* The stages between a run's first copy of the release and its end. *)
Working == {"clear", "refetch", "replace", "upload"}
(* The stages from a run's last copy of the release to its end. *)
Uploading == {"replace", "upload", "done"}

(* A run's files, those it has uploaded, the ids its copies name, and      *)
(* assets no two of which have one name.                                   *)
Own(p) == {FilesOf[p][i] : i \in 1..Len(FilesOf[p])}
Uploaded(p) == {FilesOf[p][i] : i \in 1..(Len(FilesOf[p]) - Len(todo[p]))}
Held(p) == doomed[p] \cup (IF view[p] = NoView THEN {} ELSE IdsIn(view[p]))
OneEach(assets) == \A a, b \in assets : a.name = b.name => a = b

(* What a release and its runs are. *)
Typed ==
    /\ rolling \in BOOLEAN
    /\ release \in [exists : BOOLEAN, card : Publishers \cup {Earlier},
                    assets : SUBSET Asset]
    /\ stage \in [Publishers -> Requesting \cup {"done", "failed", "absent"}]
    /\ view \in [Publishers -> {NoView} \cup SUBSET Asset]
    /\ doomed \in [Publishers -> SUBSET Ids]
    /\ todo \in [Publishers -> Seq(Names)]
    /\ attempt \in [Publishers -> 1..MaxAttempts]
    /\ faults \in Nat
    /\ had \subseteq Names

(* What a run's stage says of its copy and its files; todo is always the    *)
(* end of its files.                                                       *)
Stays(p) ==
    /\ doomed[p] # {} <=> stage[p] \in {"clear", "replace"}
    /\ todo[p] # <<>> <=> stage[p] # "done"
    /\ stage[p] \in Working => view[p] \in SUBSET Asset
    /\ stage[p] \in {"clear", "refetch"} => rolling
    /\ stage[p] \notin Uploading => todo[p] = FilesOf[p]
Remains(files, all) ==
    /\ Len(files) <= Len(all)
    /\ \A i \in 1..Len(files) : files[i] = all[Len(all) - Len(files) + i]
Staged == \A p \in Publishers : Stays(p) /\ Remains(todo[p], FilesOf[p])

(* A release has one asset of each name and id, a copy does not mistake     *)
(* one name for another, and what a run deletes is its next file.          *)
Named ==
    /\ OneEach(release.assets)
    /\ \A a, b \in release.assets : a.id = b.id => a = b
    /\ \A p \in Publishers : stage[p] = "replace" =>
           \A a \in release.assets : a.id \in doomed[p] => a.name = Head(todo[p])
    /\ \A p \in Publishers : stage[p] \in Working =>
           \A a \in release.assets, b \in view[p] : a.id = b.id => a.name = b.name

(* The ids a run holds are of one look at the release: one for each name.  *)
(* So release and copies together cannot use up the ids.                   *)
Copied == \A p \in Publishers : \E S \in SUBSET Asset :
    /\ OneEach(S)
    /\ Held(p) \subseteq IdsIn(S)
    /\ stage[p] \in Working => view[p] \subseteq S

(* Some run's uploads are out of every run's reach: the run that copied    *)
(* the release last, whose ids nobody's copy has. A run that copies it     *)
(* later takes its place, with nothing uploaded yet.                       *)
Kept(p) == \A n \in Uploaded(p) : \E a \in release.assets :
    a.name = n /\ a.by = p /\ \A q \in Publishers : a.id \notin Held(q)
LatestIsKept == \E p \in Present : stage[p] \in Uploading => Kept(p)

(* An asset is one of its run's files, a release has had all it has, and   *)
(* its card is that of a run.                                              *)
Originated ==
    /\ \A a \in release.assets : a.by \in Publishers => a.name \in Own(a.by)
    /\ NamesIn(release.assets) \subseteq had
    /\ (\E p \in Publishers : stage[p] \in Working \cup {"done"}) => release.card \in Present

(* Under a tag that is not replaced as a whole, each missing file is       *)
(* answered for by a run of its own, that failed or is between the delete  *)
(* and the upload of that file.                                            *)
Lost == had \ NamesIn(release.assets)
Blames(g, lost, at, files) ==
    /\ \A m, n \in lost : g[m] = g[n] => m = n
    /\ \A n \in lost :
           \/ at[g[n]] = "failed"
           \/ at[g[n]] \in {"replace", "upload"} /\ Head(files[g[n]]) = n
Blamed == ~rolling => \E g \in [Lost -> Present] : Blames(g, Lost, stage, todo)

(* A run alone with a rolling release leaves nothing of earlier runs.      *)
Cleared == \A p \in Publishers : rolling /\ Present = {p} =>
    /\ stage[p] = "clear" => IdsIn(release.assets) \subseteq doomed[p]
    /\ stage[p] = "refetch" => release.assets = {}
    /\ stage[p] \in Uploading => NamesIn(release.assets) \subseteq Own(p)

-----------------------------------------------------------------------------
(***************************************************************************)
(* There is always an id nobody has seen: FreshId and Numbered are defined. *)
(***************************************************************************)
(* Finitely many runs and leftovers name finitely many files.              *)
LEMMA FiniteNames == IsFiniteSet(Names)
<1> DEFINE Files(p) == {FilesOf[p][i] : i \in 1..Len(FilesOf[p])}
           Of == [p \in Publishers |-> Files(p)]
           All == {Files(p) : p \in Publishers}
<1>1. ASSUME NEW p \in Publishers PROVE IsFiniteSet(Files(p))
  <2> DEFINE f == [i \in 1..Len(FilesOf[p]) |-> FilesOf[p][i]]
  <2>1. Len(FilesOf[p]) \in Nat
    BY PublisherAssumption
  <2>2. IsFiniteSet(1..Len(FilesOf[p]))
    BY <2>1, FS_Interval
  <2>3. f \in Surjection(1..Len(FilesOf[p]), Files(p))
    BY DEF Surjection
  <2>4. QED
    BY <2>2, <2>3, FS_Surjection
<1>2. Of \in Surjection(Publishers, All)
  BY DEF Surjection
<1>3. IsFiniteSet(All)
  <2>1. IsFiniteSet(Publishers)
    BY PublisherAssumption
  <2>2. QED
    BY <1>2, <2>1, FS_Surjection
<1>4. IsFiniteSet(UNION All)
  <2>1. \A T \in All : IsFiniteSet(T)
    BY <1>1
  <2>2. QED
    BY <1>3, <2>1, FS_UNION
<1>5. IsFiniteSet(Leftovers)
  BY PublisherAssumption
<1>6. Names = Leftovers \cup UNION All
  BY DEF Names
<1>7. QED
  BY <1>4, <1>5, <1>6, FS_Union

(* Ids are one more than release and copies together can name. *)
LEMMA IdBounds ==
    /\ Cardinality(Names) \in Nat /\ Cardinality(Publishers) \in Nat
    /\ Ids \subseteq Nat /\ IsFiniteSet(Ids)
    /\ Cardinality(Ids) = Cardinality(Names) * (Cardinality(Publishers) + 1) + 1
    /\ 1..Cardinality(Names) \subseteq Ids
<1>1. Cardinality(Names) \in Nat /\ Cardinality(Publishers) \in Nat
  BY FiniteNames, PublisherAssumption, FS_CardinalityType
<1> DEFINE n == Cardinality(Names)
           k == Cardinality(Publishers)
<1>2. n * (k + 1) \in Nat /\ n * (k + 1) >= n
  <2> SUFFICES ASSUME n \in Nat, k \in Nat PROVE n * (k + 1) \in Nat /\ n * (k + 1) >= n
    BY <1>1
  <2> HIDE DEF n, k
  <2>1. n * (k + 1) = n * k + n
    OBVIOUS
  <2>2. n * k \in Nat
    OBVIOUS
  <2>3. QED
    BY <2>1, <2>2
<1>3. Ids = 1..(n * (k + 1) + 1)
  BY DEF Ids
<1> HIDE DEF n, k
<1>4. IsFiniteSet(Ids) /\ Cardinality(Ids) = n * (k + 1) + 1
  <2> DEFINE m == n * (k + 1) + 1
  <2>1. m \in Nat /\ m >= 1
    BY <1>2
  <2> HIDE DEF m
  <2>2. IsFiniteSet(1..m) /\ Cardinality(1..m) = m
    BY <2>1, FS_Interval
  <2>3. QED
    BY <1>3, <2>2 DEF m
<1>5. Ids \subseteq Nat /\ 1..n \subseteq Ids
  <2> DEFINE m == n * (k + 1)
  <2>1. n \in Nat /\ m \in Nat /\ m >= n
    BY <1>1, <1>2 DEF n
  <2>2. Ids = 1..(m + 1)
    BY <1>3
  <2> HIDE DEF m
  <2>3. QED
    BY <2>1, <2>2
<1>6. QED
  BY <1>1, <1>4, <1>5 DEF n, k

(* There is a numbering of the names, so Init numbers each its own way. *)
LEMMA NumberedNames ==
    /\ Numbered \in [Names -> 1..Cardinality(Names)]
    /\ \A m, n \in Names : Numbered[m] = Numbered[n] => m = n
<1>1. ExistsBijection(1..Cardinality(Names), Names)
  BY FiniteNames, FS_CardinalityType
<1>2. PICK b \in Bijection(1..Cardinality(Names), Names) : TRUE
  BY <1>1 DEF ExistsBijection
<1> DEFINE f == [n \in Names |-> CHOOSE i \in 1..Cardinality(Names) : b[i] = n]
<1>3. \A n \in Names : f[n] \in 1..Cardinality(Names) /\ b[f[n]] = n
  BY <1>2 DEF Bijection, Surjection
<1>4. f \in [Names -> 1..Cardinality(Names)] /\ \A m, n \in Names : f[m] = f[n] => m = n
  <2>1. f \in [Names -> 1..Cardinality(Names)]
    BY <1>3
  <2>2. \A m, n \in Names : f[m] = f[n] => m = n
    BY <1>3
  <2>3. QED
    BY <2>1, <2>2
<1> HIDE DEF f
<1>5. \E g \in [Names -> 1..Cardinality(Names)] : \A m, n \in Names : g[m] = g[n] => m = n
  BY <1>4
<1>6. QED
  BY <1>5 DEF Numbered

(* There is an id that neither the release nor any copy has: their assets  *)
(* have different names within each, so all of them together have fewer    *)
(* ids than there are.                                                     *)
LEMMA FreshIdExists ==
    ASSUME Publishers # {}, Typed, Named, Copied
    PROVE  /\ FreshId \in Ids
           /\ \A a \in release.assets : a.id # FreshId
           /\ \A p \in Publishers : FreshId \notin Held(p)
<1> DEFINE Copy(p, S) == OneEach(S) /\ Held(p) \subseteq IdsIn(S)
           copy == [p \in Publishers |-> CHOOSE S \in SUBSET Asset : Copy(p, S)]
           From(w) == IF w = Earlier THEN release.assets ELSE copy[w]
           Who == Publishers \cup {Earlier}
           Taken == IdsIn(release.assets) \cup UNION {Held(p) : p \in Publishers}
           Source(i, t) == \E a \in From(t[2]) : a.id = i /\ a.name = t[1]
           f == [i \in Ids |-> CHOOSE t \in Names \X Who : Source(i, t)]
<1>1. \A p \in Publishers : copy[p] \in SUBSET Asset /\ Copy(p, copy[p])
  <2> SUFFICES ASSUME NEW p \in Publishers PROVE copy[p] \in SUBSET Asset /\ Copy(p, copy[p])
    OBVIOUS
  <2>1. \E S \in SUBSET Asset : Copy(p, S)
    BY DEF Copied
  <2> HIDE DEF Copy
  <2>2. QED
    BY <2>1
<1>2. release.assets \in SUBSET Asset /\ OneEach(release.assets)
  BY DEF Typed, Named
<1>3. Earlier \notin Publishers
  BY PublisherAssumption
<1>4. \A w \in Who : From(w) \in SUBSET Asset /\ OneEach(From(w))
  BY <1>1, <1>2, <1>3
<1>5. ~(Ids \subseteq Taken)
  <2> SUFFICES ASSUME Ids \subseteq Taken PROVE FALSE
    OBVIOUS
  <2>1. \A i \in Ids : \E w \in Who : i \in IdsIn(From(w))
    <3> SUFFICES ASSUME NEW i \in Ids PROVE \E w \in Who : i \in IdsIn(From(w))
      OBVIOUS
    <3>1. CASE i \in IdsIn(release.assets)
      BY <3>1
    <3>2. CASE \E p \in Publishers : i \in Held(p)
      <4> PICK p \in Publishers : i \in Held(p)
        BY <3>2
      <4>1. From(p) = copy[p] /\ p \in Who
        BY <1>3
      <4>2. QED
        BY <1>1, <4>1
    <3>3. QED
      BY <3>1, <3>2
  <2>2. \A i \in Ids : \E t \in Names \X Who : Source(i, t)
    <3> SUFFICES ASSUME NEW i \in Ids PROVE \E t \in Names \X Who : Source(i, t)
      OBVIOUS
    <3> PICK w \in Who : i \in IdsIn(From(w))
      BY <2>1
    <3> PICK a \in From(w) : a.id = i
      BY DEF IdsIn
    <3>1. a.name \in Names
      BY <1>4 DEF Asset
    <3> DEFINE t == <<a.name, w>>
    <3>2. t \in Names \X Who /\ t[1] = a.name /\ t[2] = w
      BY <3>1
    <3>3. QED
      BY <3>2
  <2>3. \A i \in Ids : f[i] \in Names \X Who /\ Source(i, f[i])
    <3> HIDE DEF Source, Who
    <3>1. QED
      BY <2>2
  <2>4. \A i, j \in Ids : f[i] = f[j] => i = j
    <3> SUFFICES ASSUME NEW i \in Ids, NEW j \in Ids, f[i] = f[j] PROVE i = j
      OBVIOUS
    <3> DEFINE t == f[i]
    <3> HIDE DEF f, Source
    <3>1. t \in Names \X Who /\ Source(i, t) /\ Source(j, t)
      BY <2>3
    <3> HIDE DEF t
    <3> USE DEF Source
    <3>2. t[2] \in Who
      BY <3>1
    <3>3. PICK a \in From(t[2]) : a.id = i /\ a.name = t[1]
      BY <3>1
    <3>4. PICK b \in From(t[2]) : b.id = j /\ b.name = t[1]
      BY <3>1
    <3>5. a = b
      BY <3>2, <3>3, <3>4, <1>4 DEF OneEach
    <3>6. QED
      BY <3>3, <3>4, <3>5
  <2>5. f \in Injection(Ids, Names \X Who)
    <3>1. f \in [Ids -> Names \X Who]
      BY <2>3
    <3> HIDE DEF f
    <3>2. QED
      BY <2>4, <3>1 DEF Injection, IsInjective
  <2>6. IsFiniteSet(Who) /\ Cardinality(Who) = Cardinality(Publishers) + 1
    BY <1>3, PublisherAssumption, FS_AddElement
  <2>7. /\ IsFiniteSet(Names \X Who)
        /\ Cardinality(Names \X Who) = Cardinality(Names) * (Cardinality(Publishers) + 1)
    <3> HIDE DEF Who
    <3>1. QED
      BY <2>6, FiniteNames, FS_Product
  <2>8. Cardinality(Ids) <= Cardinality(Names) * (Cardinality(Publishers) + 1)
    <3> HIDE DEF f, Who
    <3>1. Cardinality(Ids) <= Cardinality(Names \X Who)
      BY <2>5, <2>7, FS_Injection
    <3>2. QED
      BY <3>1, <2>7
  <2>9. QED
    <3> DEFINE m == Cardinality(Names) * (Cardinality(Publishers) + 1)
    <3>1. m \in Nat /\ Cardinality(Ids) = m + 1 /\ Cardinality(Ids) <= m
      BY <2>8, IdBounds
    <3> HIDE DEF m
    <3>2. QED
      BY <3>1
<1>6. PICK i \in Ids : i \notin Taken
  BY <1>5
<1> DEFINE Free(j) == \A p \in Publishers :
      j \notin IdsIn(release.assets) \cup doomed[p]
                \cup (IF view[p] = NoView THEN {} ELSE IdsIn(view[p]))
<1>7. FreshId = CHOOSE j \in Ids : Free(j)
  BY DEF FreshId
<1>8. Free(i)
  BY <1>6 DEF Held
<1>9. FreshId \in Ids /\ Free(FreshId)
  <2> HIDE DEF Free
  <2>1. QED
    BY <1>7, <1>8
<1>10. QED
  BY <1>9 DEF Held, IdsIn

-----------------------------------------------------------------------------
(***************************************************************************)
(* What a step does to the run that takes it, one lemma per action.        *)
(***************************************************************************)
(* What a step does, told apart by what the proofs need: a request fails   *)
(* or is tried again, unheard or after it was applied.                     *)
Falls(p) ==
    \/ Fail(p)
    \/ /\ ~GivesUp(p) /\ attempt' = [attempt EXCEPT ![p] = @ + 1]
       /\ UNCHANGED <<stage, view, doomed, todo>>
Quiet(p) ==
    stage[p] \in Requesting /\ Falls(p) /\ faults' \in Nat /\ UNCHANGED <<rolling, release, had>>
Applied(p, i) ==
    /\ stage[p] \in Requesting /\ i \in Targets(p) /\ Accepts(p, i) /\ Apply(p, i)
    /\ Falls(p) /\ faults' \in Nat /\ UNCHANGED rolling

(* What becomes of the assets. *)
Same == release'.assets = release.assets
Loses(p, i) ==
    /\ stage[p] \in {"clear", "replace"} /\ i \in doomed[p]
    /\ release'.assets = {a \in release.assets : a.id # i}
Gains(p) ==
    /\ stage[p] = "upload" /\ Head(todo[p]) \notin NamesIn(release.assets)
    /\ release'.assets = release.assets \cup {[id |-> FreshId, name |-> Head(todo[p]), by |-> p]}

(* Every step is one of the run's own, or a request that fails or goes     *)
(* unheard.                                                                *)
LEMMA StepCases ==
    ASSUME Typed, [Next]_vars
    PROVE  \/ UNCHANGED vars
           \/ \E p \in Publishers :
                  \/ Look(p) \/ Announce(p) \/ Refetch(p) \/ Upload(p) \/ Rerun(p) \/ Quiet(p)
                  \/ \E i \in doomed[p] : Delete(p, i)
                  \/ \E i \in Targets(p) : Applied(p, i)
<1> SUFFICES ASSUME NEW p \in Publishers,
                    Publish(p) \/ RequestLost(p) \/ AnswerLost(p) \/ Killed(p) \/ Rerun(p)
             PROVE  \/ Look(p) \/ Announce(p) \/ Refetch(p) \/ Upload(p) \/ Rerun(p) \/ Quiet(p)
                    \/ \E i \in doomed[p] : Delete(p, i)
                    \/ \E i \in Targets(p) : Applied(p, i)
  BY DEF Next
<1>1. faults \in Nat
  BY DEF Typed
<1>2. ASSUME Again(p) PROVE Falls(p)
  BY <1>2 DEF Again, Falls
<1>3. ASSUME Fault(p) PROVE stage[p] \in Requesting /\ faults' \in Nat
  BY <1>1, <1>3 DEF Fault
<1>4. ASSUME Refused(p) PROVE Quiet(p)
  BY <1>1, <1>4 DEF Refused, Quiet, Falls
<1>5. ASSUME RequestLost(p) PROVE Quiet(p)
  BY <1>2, <1>3, <1>5 DEF RequestLost, Quiet
<1>6. ASSUME Killed(p) PROVE Quiet(p)
  BY <1>3, <1>6 DEF Killed, Quiet, Falls
<1>7. ASSUME AnswerLost(p) PROVE \E i \in Targets(p) : Applied(p, i)
  BY <1>2, <1>3, <1>7 DEF AnswerLost, Applied
<1>8. QED
  BY <1>4, <1>5, <1>6, <1>7 DEF Publish

(* A run that is not done has a next file, one of its own.                 *)
LEMMA Heads ==
    ASSUME Typed, Staged, NEW p \in Publishers, stage[p] # "done"
    PROVE  /\ todo[p] # <<>> /\ todo[p] \in Seq(Names) /\ Head(todo[p]) \in Names
           /\ Len(todo[p]) \in Nat \ {0} /\ Head(todo[p]) = todo[p][1]
           /\ Head(todo[p]) \in Own(p)
<1>1. todo[p] # <<>> /\ todo[p] \in Seq(Names)
  BY DEF Typed, Staged, Stays
<1>2. Len(todo[p]) \in Nat \ {0} /\ Head(todo[p]) = todo[p][1] /\ Head(todo[p]) \in Names
  BY <1>1
<1>3. FilesOf[p] \in Seq(Names) /\ Len(FilesOf[p]) \in Nat
  BY PublisherAssumption
<1> DEFINE n == Len(FilesOf[p])
           m == Len(todo[p])
<1>4. n \in Nat /\ m \in Nat \ {0} /\ m <= n
  BY <1>2, <1>3 DEF Staged, Remains
<1>5. \A i \in 1..m : todo[p][i] = FilesOf[p][n - m + i]
  BY DEF Staged, Remains
<1>6. 1 \in 1..m /\ n - m + 1 \in 1..n
  <2> HIDE DEF n, m
  <2>1. QED
    BY <1>4
<1>7. Head(todo[p]) = FilesOf[p][n - m + 1]
  BY <1>2, <1>5, <1>6
<1>8. QED
  BY <1>1, <1>2, <1>6, <1>7 DEF Own

(* What an accepted request does to the release.                           *)
LEMMA Effect ==
    ASSUME Typed, Named, Copied, Staged, NEW p \in Publishers, stage[p] \in Requesting,
           NEW i, stage[p] \in {"clear", "replace"} => i \in doomed[p],
           Accepts(p, i), release' = Changed(p, i)
    PROVE  /\ release' \in [exists : BOOLEAN, card : Publishers \cup {Earlier},
                           assets : SUBSET Asset]
           /\ Same \/ Loses(p, i) \/ Gains(p)
           /\ stage[p] = "announce" => release'.card = p /\ Same
           /\ stage[p] # "announce" => release'.card = release.card
           /\ stage[p] = "upload" => Gains(p)
           /\ stage[p] \in {"clear", "replace"} => Loses(p, i)
<1>1. release \in [exists : BOOLEAN, card : Publishers \cup {Earlier}, assets : SUBSET Asset]
  BY DEF Typed
<1>2. CASE stage[p] \in {"look", "refetch"}
  BY <1>1, <1>2 DEF Changed, Same
<1>3. CASE stage[p] = "announce"
  BY <1>1, <1>3 DEF Changed, Announced, Same
<1>4. CASE stage[p] \in {"clear", "replace"}
  BY <1>1, <1>4 DEF Changed, Without, Loses
<1>5. CASE stage[p] = "upload"
  <2>1. Head(todo[p]) \in Names
    BY <1>5, Heads
  <2>2. FreshId \in Ids
    BY FreshIdExists
  <2>3. [id |-> FreshId, name |-> Head(todo[p]), by |-> p] \in Asset
    BY <2>1, <2>2 DEF Asset
  <2>4. QED
    BY <1>1, <1>5, <2>3 DEF Changed, With, Gains, Accepts
<1>6. QED
  BY <1>2, <1>3, <1>4, <1>5 DEF Requesting

(* The part of Typed about the runs, and what a run's step leaves alone.   *)
MineTyped ==
    /\ stage \in [Publishers -> Requesting \cup {"done", "failed", "absent"}]
    /\ view \in [Publishers -> {NoView} \cup SUBSET Asset]
    /\ doomed \in [Publishers -> SUBSET Ids]
    /\ todo \in [Publishers -> Seq(Names)]
    /\ attempt \in [Publishers -> 1..MaxAttempts]

Others(p) == \A q \in Publishers \ {p} :
    stage'[q] = stage[q] /\ view'[q] = view[q] /\ doomed'[q] = doomed[q] /\ todo'[q] = todo[q]

(* What a step does to the run that takes it, for each action in turn.     *)
LEMMA BeginEffect ==
    ASSUME Typed, NEW p \in Publishers, NEW files \in Seq(Names), NEW assets \in SUBSET Asset,
           Begin(p, files, assets), Answered(p)
    PROVE  /\ MineTyped' /\ Others(p)
           /\ todo'[p] = files
           /\ files = <<>> => stage'[p] = "done" /\ view'[p] = NoView /\ doomed'[p] = doomed[p]
           /\ files # <<>> =>
                  /\ stage'[p] = IF doomed'[p] = {} THEN "upload" ELSE "replace"
                  /\ view'[p] \in SUBSET assets
                  /\ \A i \in doomed'[p] : \E a \in assets : a.id = i /\ a.name = Head(files)
<1>1. MineTyped
  BY DEF Typed, MineTyped
<1>2. 1 \in 1..MaxAttempts
  BY PublisherAssumption
<1>3. attempt' \in [Publishers -> 1..MaxAttempts]
  BY <1>1, <1>2 DEF MineTyped, Answered
<1>4. todo' \in [Publishers -> Seq(Names)] /\ todo'[p] = files
      /\ \A q \in Publishers \ {p} : todo'[q] = todo[q]
  BY <1>1 DEF MineTyped, Begin
<1>5. CASE files = <<>>
  <2>1. /\ stage' = [stage EXCEPT ![p] = "done"]
        /\ view' = [view EXCEPT ![p] = NoView] /\ doomed' = doomed
    BY <1>5 DEF Begin
  <2>2. QED
    BY <1>1, <1>3, <1>4, <1>5, <2>1 DEF MineTyped, Others
<1>6. CASE files # <<>>
  <2> DEFINE rest == {a \in assets : \E i \in 2..Len(files) : files[i] = a.name}
             known == IdsIn(Known(assets, Head(files)))
  <2>1. /\ view' = [view EXCEPT ![p] = rest]
        /\ doomed' = [doomed EXCEPT ![p] = known]
        /\ stage' = [stage EXCEPT ![p] = IF doomed'[p] = {} THEN "upload" ELSE "replace"]
    BY <1>6 DEF Begin
  <2>2. rest \in SUBSET assets /\ rest \in SUBSET Asset
    OBVIOUS
  <2>3. known \in SUBSET Ids /\ \A i \in known : \E a \in assets : a.id = i /\ a.name = Head(files)
    BY DEF IdsIn, Known, Asset
  <2> HIDE DEF rest, known
  <2>4. /\ view' \in [Publishers -> {NoView} \cup SUBSET Asset] /\ view'[p] = rest
        /\ \A q \in Publishers \ {p} : view'[q] = view[q]
    BY <1>1, <2>1, <2>2 DEF MineTyped
  <2>5. /\ doomed' \in [Publishers -> SUBSET Ids] /\ doomed'[p] = known
        /\ \A q \in Publishers \ {p} : doomed'[q] = doomed[q]
    BY <1>1, <2>1, <2>3 DEF MineTyped
  <2>6. /\ stage' \in [Publishers -> Requesting \cup {"done", "failed", "absent"}]
        /\ stage'[p] = IF doomed'[p] = {} THEN "upload" ELSE "replace"
        /\ \A q \in Publishers \ {p} : stage'[q] = stage[q]
    <3>1. stage \in [Publishers -> Requesting \cup {"done", "failed", "absent"}]
      BY <1>1 DEF MineTyped
    <3>2. QED
      BY <2>1, <3>1 DEF Requesting
  <2>7. QED
    BY <1>3, <1>4, <1>6, <2>2, <2>3, <2>4, <2>5, <2>6 DEF MineTyped, Others
<1>7. QED
  BY <1>5, <1>6

(* A request that fails ends its run and forgets its copy, or changes      *)
(* nothing but the count of attempts.                                      *)
LEMMA FallsEffect ==
    ASSUME Typed, Staged, NEW p \in Publishers, Falls(p)
    PROVE  /\ MineTyped' /\ Others(p)
           /\ \/ /\ stage'[p] = "failed" /\ view'[p] = NoView /\ doomed'[p] = {}
                 /\ todo'[p] = FilesOf[p]
              \/ /\ stage'[p] = stage[p] /\ view'[p] = view[p]
                 /\ doomed'[p] = doomed[p] /\ todo'[p] = todo[p]
<1>1. MineTyped
  BY DEF Typed, MineTyped
<1>2. CASE Fail(p)
  <2>1. FilesOf[p] \in Seq(Names) /\ 1 \in 1..MaxAttempts
    BY PublisherAssumption
  <2>2. QED
    BY <1>1, <1>2, <2>1 DEF MineTyped, Fail, Others
<1>3. CASE /\ ~GivesUp(p) /\ attempt' = [attempt EXCEPT ![p] = @ + 1]
           /\ UNCHANGED <<stage, view, doomed, todo>>
  <2>1. attempt[p] \in 1..MaxAttempts /\ MaxAttempts \in Nat
    BY <1>1, PublisherAssumption DEF MineTyped
  <2>2. attempt[p] + 1 \in 1..MaxAttempts
    BY <1>3, <2>1 DEF GivesUp
  <2>3. QED
    BY <1>1, <1>3, <2>2 DEF MineTyped, Others
<1>4. QED
  BY <1>2, <1>3 DEF Falls

(* The first look at the release.                                          *)
LEMMA LookEffect ==
    ASSUME Typed, NEW p \in Publishers, Look(p)
    PROVE  /\ MineTyped' /\ Others(p)
           /\ stage[p] = "look" /\ stage'[p] = "announce" /\ view'[p] \in {{}, NoView}
           /\ doomed'[p] = doomed[p] /\ todo'[p] = todo[p]
<1>1. MineTyped
  BY DEF Typed, MineTyped
<1>2. 1 \in 1..MaxAttempts
  BY PublisherAssumption
<1>3. /\ attempt' \in [Publishers -> 1..MaxAttempts]
      /\ stage' \in [Publishers -> Requesting \cup {"done", "failed", "absent"}]
  BY <1>1, <1>2 DEF MineTyped, Look, Answered, Requesting
<1>4. QED
  BY <1>1, <1>3 DEF MineTyped, Look, Others

(* A rolling release announced: all its assets are doomed.                 *)
LEMMA ClearEffect ==
    ASSUME Typed, NEW p \in Publishers, Announce(p), rolling
    PROVE  /\ MineTyped' /\ Others(p)
           /\ stage'[p] = IF doomed'[p] = {} THEN "refetch" ELSE "clear"
           /\ view'[p] = {} /\ doomed'[p] = IdsIn(release.assets) /\ todo'[p] = todo[p]
<1>1. MineTyped
  BY DEF Typed, MineTyped
<1>2. 1 \in 1..MaxAttempts
  BY PublisherAssumption
<1>3. attempt' \in [Publishers -> 1..MaxAttempts]
  BY <1>1, <1>2 DEF MineTyped, Announce, Answered
<1>4. IdsIn(release.assets) \in SUBSET Ids
  BY DEF Typed, IdsIn, Asset
<1>5. /\ view' = [view EXCEPT ![p] = {}]
      /\ doomed' = [doomed EXCEPT ![p] = IdsIn(release.assets)]
      /\ stage' = [stage EXCEPT ![p] = IF doomed'[p] = {} THEN "refetch" ELSE "clear"]
      /\ todo' = todo
  BY DEF Announce, ClearsFirst
<1>6. stage' \in [Publishers -> Requesting \cup {"done", "failed", "absent"}]
  BY <1>1, <1>5 DEF MineTyped, Requesting
<1>7. QED
  BY <1>1, <1>3, <1>4, <1>5, <1>6 DEF MineTyped, Others

(* One doomed asset less.                                                  *)
LEMMA DeleteEffect ==
    ASSUME Typed, NEW p \in Publishers, NEW i \in doomed[p], Delete(p, i)
    PROVE  /\ MineTyped' /\ Others(p)
           /\ stage[p] \in {"clear", "replace"}
           /\ stage'[p] = IF doomed'[p] # {} THEN stage[p]
                          ELSE IF stage[p] = "clear" THEN "refetch" ELSE "upload"
           /\ view'[p] = view[p] /\ doomed'[p] = doomed[p] \ {i} /\ todo'[p] = todo[p]
<1>1. MineTyped
  BY DEF Typed, MineTyped
<1>2. 1 \in 1..MaxAttempts
  BY PublisherAssumption
<1>3. attempt' \in [Publishers -> 1..MaxAttempts]
  BY <1>1, <1>2 DEF MineTyped, Delete, Answered
<1>4. stage' \in [Publishers -> Requesting \cup {"done", "failed", "absent"}]
  BY <1>1 DEF MineTyped, Delete, Requesting
<1>5. QED
  BY <1>1, <1>3, <1>4 DEF MineTyped, Delete, Others

(* A failed run begins again.                                              *)
LEMMA RerunEffect ==
    ASSUME Typed, NEW p \in Publishers, Rerun(p)
    PROVE  /\ MineTyped' /\ Others(p)
           /\ stage[p] = "failed" /\ stage'[p] = "look"
           /\ view'[p] = view[p] /\ doomed'[p] = doomed[p] /\ todo'[p] = todo[p]
<1>1. MineTyped
  BY DEF Typed, MineTyped
<1>2. stage' \in [Publishers -> Requesting \cup {"done", "failed", "absent"}]
  BY <1>1 DEF MineTyped, Rerun, Requesting
<1>3. QED
  BY <1>1, <1>2 DEF MineTyped, Rerun, Others

-----------------------------------------------------------------------------
(***************************************************************************)
(* The same, pointwise and without the actions: what the invariants need.  *)
(***************************************************************************)
(* What a step of p does, said of p, the assets and the card alone.        *)
ReleaseType == [exists : BOOLEAN, card : Publishers \cup {Earlier}, assets : SUBSET Asset]
SameCard == release'.card = release.card
Adds == had' = had \cup NamesIn(release'.assets)
SameFiles(p) == view'[p] = view[p] /\ doomed'[p] = doomed[p] /\ todo'[p] = todo[p]

Began(p, files, assets) ==
    /\ todo'[p] = files
    /\ files = <<>> => stage'[p] = "done" /\ view'[p] = NoView /\ doomed'[p] = doomed[p]
    /\ files # <<>> =>
           /\ stage'[p] = IF doomed'[p] = {} THEN "upload" ELSE "replace"
           /\ view'[p] \in SUBSET assets
           /\ \A i \in doomed'[p] : \E a \in assets : a.id = i /\ a.name = Head(files)
Fell(p) ==
    \/ stage'[p] = "failed" /\ view'[p] = NoView /\ doomed'[p] = {} /\ todo'[p] = FilesOf[p]
    \/ stage'[p] = stage[p] /\ SameFiles(p)

Looks(p) ==
    /\ stage[p] = "look" /\ UNCHANGED <<release, had>>
    /\ stage'[p] = "announce" /\ view'[p] \in {{}, NoView}
    /\ doomed'[p] = doomed[p] /\ todo'[p] = todo[p]
Clears(p) ==
    /\ stage[p] = "announce" /\ rolling /\ Same /\ release'.card = p /\ Adds
    /\ stage'[p] = IF doomed'[p] = {} THEN "refetch" ELSE "clear"
    /\ view'[p] = {} /\ doomed'[p] = IdsIn(release.assets) /\ todo'[p] = todo[p]
Starts(p) ==
    /\ \/ stage[p] = "announce" /\ ~rolling /\ release'.card = p /\ Adds
       \/ stage[p] = "refetch" /\ SameCard /\ had' = had
    /\ Same /\ Began(p, todo[p], release.assets)
Uploads(p) ==
    stage[p] = "upload" /\ Gains(p) /\ SameCard /\ Adds /\ Began(p, Tail(todo[p]), view[p])
Deletes(p, i) ==
    /\ i \in doomed[p] /\ Loses(p, i) /\ SameCard /\ Adds
    /\ stage'[p] = IF doomed'[p] # {} THEN stage[p]
                   ELSE IF stage[p] = "clear" THEN "refetch" ELSE "upload"
    /\ view'[p] = view[p] /\ doomed'[p] = doomed[p] \ {i} /\ todo'[p] = todo[p]
Unheard(p) == stage[p] \in Requesting /\ Fell(p) /\ UNCHANGED <<release, had>>
Heard(p, i) ==
    /\ stage[p] \in Requesting /\ Fell(p) /\ Adds
    /\ Same \/ Loses(p, i) \/ Gains(p)
    /\ IF stage[p] = "announce" THEN release'.card = p ELSE SameCard
Reruns(p) ==
    /\ stage[p] = "failed" /\ stage'[p] = "look" /\ SameFiles(p)
    /\ release' = release /\ had' = NamesIn(release.assets)

Acts(p) ==
    \/ Looks(p) \/ Clears(p) \/ Starts(p) \/ Uploads(p) \/ Unheard(p) \/ Reruns(p)
    \/ \E i \in doomed[p] : Deletes(p, i)
    \/ \E i : Heard(p, i)

ShapeInv == Typed /\ Staged /\ Named /\ Copied

(* Assets have the names of files.                                         *)
LEMMA NamesOfAssets == ASSUME NEW assets \in SUBSET Asset PROVE NamesIn(assets) \subseteq Names
BY DEF NamesIn, Asset

(* Every step is one of these, and keeps the types.                        *)
LEMMA Actions ==
    ASSUME ShapeInv, [Next]_vars
    PROVE  \/ UNCHANGED vars
           \/ \E p \in Publishers : Typed' /\ rolling' = rolling /\ Others(p) /\ Acts(p)
<1> SUFFICES ASSUME NEW p \in Publishers,
                    \/ Look(p) \/ Announce(p) \/ Refetch(p) \/ Upload(p) \/ Rerun(p) \/ Quiet(p)
                    \/ \E i \in doomed[p] : Delete(p, i)
                    \/ \E i \in Targets(p) : Applied(p, i)
             PROVE  Typed' /\ rolling' = rolling /\ Others(p) /\ Acts(p)
  BY StepCases DEF ShapeInv
<1>0. Typed /\ Staged /\ Named /\ Copied
  BY DEF ShapeInv
<1>1. /\ release \in ReleaseType /\ rolling \in BOOLEAN /\ faults \in Nat /\ had \subseteq Names
      /\ todo[p] \in Seq(Names) /\ release.assets \in SUBSET Asset
  BY <1>0 DEF Typed, ReleaseType
<1>2. ASSUME rolling' = rolling, release' \in ReleaseType, faults' \in Nat, MineTyped',
             had' = had \/ had' = NamesIn(release.assets) \/ Adds
      PROVE  Typed'
  <2>1. NamesIn(release.assets) \subseteq Names /\ NamesIn(release'.assets) \subseteq Names
    BY <1>1, <1>2, NamesOfAssets DEF ReleaseType
  <2>2. had' \subseteq Names
    BY <1>1, <1>2, <2>1 DEF Adds
  <2>3. QED
    BY <1>1, <1>2, <2>2 DEF Typed, MineTyped, ReleaseType
<1>3. CASE Look(p)
  <2>1. rolling' = rolling /\ release' = release /\ faults' = faults /\ had' = had
    BY <1>3 DEF Look
  <2>2. Typed'
    BY <1>0, <1>1, <1>2, <1>3, <2>1, LookEffect
  <2>3. Looks(p)
    BY <1>0, <1>3, <2>1, LookEffect DEF Looks
  <2>4. QED
    BY <1>0, <1>3, <2>1, <2>2, <2>3, LookEffect DEF Acts
<1>4. CASE Announce(p)
  <2>1. rolling' = rolling /\ faults' = faults /\ Adds /\ stage[p] = "announce"
    BY <1>4 DEF Announce, Apply, Adds
  <2>2. release' \in ReleaseType /\ release'.card = p /\ Same
    BY <1>0, <1>4, <2>1, Effect DEF Announce, Apply, ReleaseType, Requesting
  <2>3. CASE rolling
    <3>1. Clears(p)
      BY <1>0, <1>4, <2>1, <2>2, <2>3, ClearEffect DEF Clears
    <3>2. MineTyped' /\ Others(p)
      BY <1>0, <1>4, <2>3, ClearEffect
    <3>3. QED
      BY <1>1, <1>2, <2>1, <2>2, <3>1, <3>2 DEF Acts
  <2>4. CASE ~rolling
    <3>1. Begin(p, todo[p], release.assets) /\ Answered(p)
      BY <1>4, <2>4 DEF Announce, ClearsFirst
    <3>2. MineTyped' /\ Others(p) /\ Began(p, todo[p], release.assets)
      BY <1>0, <1>1, <3>1, BeginEffect DEF Began
    <3>3. Starts(p)
      BY <2>1, <2>2, <2>4, <3>2 DEF Starts
    <3>4. QED
      BY <1>1, <1>2, <2>1, <2>2, <3>2, <3>3 DEF Acts
  <2>5. QED
    BY <2>3, <2>4
<1>5. CASE Refetch(p)
  <2>1. /\ rolling' = rolling /\ faults' = faults /\ release' = release /\ had' = had
        /\ stage[p] = "refetch" /\ Begin(p, todo[p], release.assets) /\ Answered(p)
    BY <1>5 DEF Refetch
  <2>2. MineTyped' /\ Others(p) /\ Began(p, todo[p], release.assets)
    BY <1>0, <1>1, <2>1, BeginEffect DEF Began
  <2>3. Starts(p)
    BY <2>1, <2>2 DEF Starts, Same, SameCard
  <2>4. QED
    BY <1>1, <1>2, <2>1, <2>2, <2>3 DEF Acts
<1>6. CASE Upload(p)
  <2>1. /\ rolling' = rolling /\ faults' = faults /\ Adds /\ stage[p] = "upload"
        /\ Begin(p, Tail(todo[p]), view[p]) /\ Answered(p)
    BY <1>6 DEF Upload, Apply, Adds
  <2>2. release' \in ReleaseType /\ Gains(p) /\ SameCard
    BY <1>0, <1>6, <2>1, Effect DEF Upload, Apply, ReleaseType, Requesting, SameCard
  <2>3. Tail(todo[p]) \in Seq(Names)
    BY <1>0, <1>1, <2>1, Heads
  <2>4. view[p] \in SUBSET Asset
    BY <1>0, <2>1 DEF Staged, Stays, Working
  <2>5. MineTyped' /\ Others(p) /\ Began(p, Tail(todo[p]), view[p])
    BY <1>0, <2>1, <2>3, <2>4, BeginEffect DEF Began
  <2>6. Uploads(p)
    BY <2>1, <2>2, <2>5 DEF Uploads
  <2>7. QED
    BY <1>1, <1>2, <2>1, <2>2, <2>5, <2>6 DEF Acts
<1>7. CASE Rerun(p)
  <2>1. /\ rolling' = rolling /\ release' = release /\ faults' = faults
        /\ had' = NamesIn(release.assets)
    BY <1>7 DEF Rerun
  <2>2. MineTyped' /\ Others(p) /\ Reruns(p)
    BY <1>0, <1>7, <2>1, RerunEffect DEF Reruns, SameFiles
  <2>3. QED
    BY <1>1, <1>2, <2>1, <2>2 DEF Acts
<1>8. CASE Quiet(p)
  <2>1. /\ rolling' = rolling /\ release' = release /\ faults' \in Nat /\ had' = had
        /\ stage[p] \in Requesting /\ Falls(p)
    BY <1>8 DEF Quiet
  <2>2. MineTyped' /\ Others(p) /\ Fell(p)
    BY <1>0, <2>1, FallsEffect DEF Fell, SameFiles
  <2>3. Unheard(p)
    BY <2>1, <2>2 DEF Unheard
  <2>4. QED
    BY <1>1, <1>2, <2>1, <2>2, <2>3 DEF Acts
<1>9. ASSUME NEW i \in doomed[p], Delete(p, i)
      PROVE  Typed' /\ rolling' = rolling /\ Others(p) /\ Acts(p)
  <2>1. /\ rolling' = rolling /\ faults' = faults /\ Adds /\ stage[p] \in {"clear", "replace"}
    BY <1>9 DEF Delete, Apply, Adds
  <2>2. release' \in ReleaseType /\ Loses(p, i) /\ SameCard
    BY <1>0, <1>9, <2>1, Effect DEF Delete, Apply, ReleaseType, Requesting, SameCard
  <2>3. MineTyped' /\ Others(p)
    BY <1>0, <1>9, DeleteEffect
  <2>4. Deletes(p, i)
    BY <1>0, <1>9, <2>1, <2>2, DeleteEffect DEF Deletes
  <2>5. QED
    BY <1>1, <1>2, <2>1, <2>2, <2>3, <2>4 DEF Acts
<1>10. ASSUME NEW i \in Targets(p), Applied(p, i)
       PROVE  Typed' /\ rolling' = rolling /\ Others(p) /\ Acts(p)
  <2>1. /\ rolling' = rolling /\ faults' \in Nat /\ Adds /\ stage[p] \in Requesting /\ Falls(p)
        /\ Accepts(p, i) /\ release' = Changed(p, i)
    BY <1>10 DEF Applied, Apply, Adds
  <2>2. stage[p] \in {"clear", "replace"} => i \in doomed[p]
    BY DEF Targets
  <2>3. /\ release' \in ReleaseType
        /\ Same \/ Loses(p, i) \/ Gains(p)
        /\ IF stage[p] = "announce" THEN release'.card = p ELSE SameCard
    BY <1>0, <2>1, <2>2, Effect DEF ReleaseType, SameCard
  <2>4. MineTyped' /\ Others(p) /\ Fell(p)
    BY <1>0, <2>1, FallsEffect DEF Fell, SameFiles
  <2>5. Heard(p, i)
    BY <2>1, <2>3, <2>4 DEF Heard
  <2>6. Acts(p)
    BY <2>5, Zenon DEF Acts
  <2>7. QED
    BY <1>1, <1>2, <2>1, <2>3, <2>4, <2>6
<1>11. QED
  BY <1>3, <1>4, <1>5, <1>6, <1>7, <1>8, <1>9, <1>10

-----------------------------------------------------------------------------
(***************************************************************************)
(* The shape of the state: types, stages, names and copies.                *)
(***************************************************************************)
(* The rest of a run's files, position by position.                        *)
LEMMA TailFacts ==
    ASSUME ShapeInv, NEW p \in Publishers, stage[p] # "done"
    PROVE  /\ Tail(todo[p]) \in Seq(Names)
           /\ Len(Tail(todo[p])) = Len(todo[p]) - 1 /\ Len(todo[p]) \in Nat \ {0}
           /\ \A i \in 1..(Len(todo[p]) - 1) : Tail(todo[p])[i] = todo[p][i + 1]
<1>1. todo[p] # <<>> /\ todo[p] \in Seq(Names)
  BY DEF ShapeInv, Typed, Staged, Stays
<1>2. QED
  BY <1>1

(* Staged after a step: todo loses its head with an upload and is whole    *)
(* again after a failure.                                                  *)
LEMMA StagedStep == ShapeInv /\ [Next]_vars => Staged'
<1> SUFFICES ASSUME ShapeInv, [Next]_vars PROVE Staged'
  OBVIOUS
<1>0. Staged /\ Typed
  BY DEF ShapeInv
<1>1. CASE UNCHANGED vars
  BY <1>0, <1>1 DEF vars, mine, Staged, Stays
<1>2. ASSUME NEW p \in Publishers, Typed', rolling' = rolling, Others(p), Acts(p)
      PROVE  Staged'
  <2> DEFINE Goal == Stays(p)' /\ Remains(todo'[p], FilesOf[p])
  <2>0. /\ Stays(p) /\ Remains(todo[p], FilesOf[p]) /\ release.assets \in SUBSET Asset
        /\ FilesOf[p] \in Seq(Names) /\ FilesOf[p] # <<>>
    BY <1>0, PublisherAssumption DEF Staged, Typed
  <2>1. \A q \in Publishers \ {p} : Stays(q)' /\ Remains(todo'[q], FilesOf[q])
    BY <1>0, <1>2 DEF Staged, Others, Stays
  <2>2. Remains(FilesOf[p], FilesOf[p])
    BY <2>0 DEF Remains
  <2> USE DEF Stays, Working, Uploading
  <2>3. ASSUME Looks(p) PROVE Goal
    BY <2>0, <2>3 DEF Looks
  <2>4. ASSUME Clears(p) PROVE Goal
    BY <1>2, <2>0, <2>4 DEF Clears
  <2>5. ASSUME Starts(p) PROVE Goal
    BY <1>2, <2>0, <2>5 DEF Starts, Began
  <2>6. ASSUME Uploads(p) PROVE Goal
    <3> DEFINE m == Len(todo[p])
               n == Len(FilesOf[p])
               rest == Tail(todo[p])
    <3>1. view[p] \in SUBSET Asset /\ todo'[p] = rest
      BY <2>0, <2>6 DEF Uploads, Began
    <3>2. Stays(p)'
      BY <1>2, <2>0, <2>6, <3>1 DEF Uploads, Began
    <3>3. /\ Len(rest) = m - 1 /\ m \in Nat \ {0}
          /\ \A i \in 1..(m - 1) : rest[i] = todo[p][i + 1]
      BY <2>6, TailFacts DEF Uploads
    <3>4. m <= n /\ \A i \in 1..m : todo[p][i] = FilesOf[p][n - m + i]
      BY <2>0, Zenon DEF Remains
    <3>5. n \in Nat
      BY <2>0
    <3>6. Remains(rest, FilesOf[p])
      <4> HIDE DEF m, n, rest
      <4>1. \A i \in 1..(m - 1) : i + 1 \in 1..m /\ n - m + (i + 1) = n - (m - 1) + i
        BY <3>3, <3>5
      <4>2. \A i \in 1..(m - 1) : rest[i] = FilesOf[p][n - (m - 1) + i]
        BY <3>3, <3>4, <4>1
      <4>3. m - 1 <= n
        BY <3>3, <3>4, <3>5
      <4>4. QED
        BY <3>3, <4>2, <4>3 DEF Remains, n
    <3>7. QED
      BY <3>1, <3>2, <3>6
  <2>7. ASSUME Fell(p), stage[p] \in Requesting PROVE Goal
    BY <1>2, <2>0, <2>2, <2>7 DEF Fell, SameFiles, Requesting
  <2>8. ASSUME Reruns(p) PROVE Goal
    BY <2>0, <2>8 DEF Reruns, SameFiles
  <2>9. ASSUME NEW i \in doomed[p], Deletes(p, i) PROVE Goal
    BY <1>2, <2>0, <2>9 DEF Deletes, Loses
  <2>10. Goal
    BY <1>2, <2>3, <2>4, <2>5, <2>6, <2>7, <2>8, <2>9, Zenon DEF Acts, Unheard, Heard
  <2> HIDE DEF Stays
  <2>11. QED
    BY <2>1, <2>10 DEF Staged
<1>3. QED
  BY <1>1, <1>2, Actions

(* The asset an upload adds. *)
New(p) == [id |-> FreshId, name |-> Head(todo[p]), by |-> p]

(* An asset of the release was there before, or is the one uploaded.       *)
LEMMA AssetsStep ==
    ASSUME NEW p \in Publishers, Acts(p)
    PROVE  \A a \in release'.assets :
               \/ a \in release.assets
               \/ stage[p] = "upload" /\ a = New(p) /\ Head(todo[p]) \notin NamesIn(release.assets)
<1>1. \/ Same
      \/ \E i : Loses(p, i)
      \/ Gains(p)
  BY Zenon DEF Acts, Looks, Clears, Starts, Uploads, Unheard, Reruns, Deletes, Heard, Same
<1>2. QED
  BY <1>1 DEF Same, Loses, Gains, New

(* A copy of a release is not the lack of one. *)
LEMMA NoViewIsNone == NoView \notin SUBSET Asset
BY PublisherAssumption DEF NoView

(* The uploaded asset has an id nobody knows.                              *)
LEMMA NewIsFresh ==
    ASSUME ShapeInv, NEW p \in Publishers
    PROVE  /\ New(p).id = FreshId /\ New(p).name = Head(todo[p]) /\ New(p).by = p
           /\ \A a \in release.assets : a.id # New(p).id
           /\ \A q \in Publishers : New(p).id \notin Held(q)
           /\ \A q \in Publishers : stage[q] \in Working => \A b \in view[q] : b.id # New(p).id
<1>1. /\ \A a \in release.assets : a.id # FreshId
      /\ \A q \in Publishers : FreshId \notin Held(q)
  BY FreshIdExists DEF ShapeInv
<1>2. New(p).id = FreshId /\ New(p).name = Head(todo[p]) /\ New(p).by = p
  BY DEF New
<1>3. \A q \in Publishers : stage[q] \in Working => view[q] # NoView
  BY NoViewIsNone DEF ShapeInv, Staged, Stays
<1>4. \A q \in Publishers : stage[q] \in Working => \A b \in view[q] : b.id # FreshId
  BY <1>1, <1>3 DEF Held, IdsIn
<1>5. QED
  BY <1>1, <1>2, <1>4

(* Named after a step: an upload is accepted only if its name is free, and *)
(* every copy was made from a release that is Named.                       *)
LEMMA NamedStep == ShapeInv /\ [Next]_vars => Named'
<1> SUFFICES ASSUME ShapeInv, [Next]_vars PROVE Named'
  OBVIOUS
<1>0. Named /\ Staged /\ Typed
  BY DEF ShapeInv
<1>1. CASE UNCHANGED vars
  BY <1>0, <1>1 DEF vars, mine, Named
<1>2. ASSUME NEW p \in Publishers, Typed', rolling' = rolling, Others(p), Acts(p)
      PROVE  Named'
  <2> DEFINE new == New(p)
             A == release.assets
             Right(q) ==
                 /\ stage'[q] = "replace" =>
                        \A a \in release'.assets : a.id \in doomed'[q] => a.name = Head(todo'[q])
                 /\ stage'[q] \in Working =>
                        \A a \in release'.assets, b \in view'[q] : a.id = b.id => a.name = b.name
  <2>1. \A a \in release'.assets :
            a \in A \/ (stage[p] = "upload" /\ a = new /\ Head(todo[p]) \notin NamesIn(A))
    BY <1>2, AssetsStep
  <2>2. /\ new.name = Head(todo[p])
        /\ \A a \in A : a.id # new.id
        /\ \A q \in Publishers : new.id \notin Held(q)
        /\ \A q \in Publishers : stage[q] \in Working => \A b \in view[q] : b.id # new.id
    BY NewIsFresh
  <2> HIDE DEF new
  <2>3. \A a, b \in release'.assets : a.name = b.name => a = b
    BY <1>0, <2>1, <2>2 DEF Named, OneEach, NamesIn
  <2>4. \A a, b \in release'.assets : a.id = b.id => a = b
    BY <1>0, <2>1, <2>2 DEF Named
  <2>5. ASSUME NEW q \in Publishers \ {p} PROVE Right(q)
    <3>1. stage'[q] = stage[q] /\ view'[q] = view[q] /\ doomed'[q] = doomed[q] /\ todo'[q] = todo[q]
      BY <1>2 DEF Others
    <3>2. new.id \notin doomed[q]
      BY <2>2 DEF Held
    <3>3. QED
      BY <1>0, <2>1, <2>2, <3>1, <3>2 DEF Named
  <2>6. Right(p)
    <3>0. /\ stage[p] = "replace" => \A a \in A : a.id \in doomed[p] => a.name = Head(todo[p])
          /\ stage[p] \in Working => \A a \in A, b \in view[p] : a.id = b.id => a.name = b.name
          /\ \A a, b \in A : a.id = b.id => a = b
          /\ doomed[p] # {} <=> stage[p] \in {"clear", "replace"}
      BY <1>0 DEF Named, Staged, Stays
    <3> USE DEF Working
    <3>1. ASSUME Looks(p) PROVE Right(p)
      BY <3>1 DEF Looks
    <3>2. ASSUME Clears(p) PROVE Right(p)
      BY <3>2 DEF Clears
    <3>3. ASSUME Starts(p) PROVE Right(p)
      <4>1. /\ release'.assets = A /\ stage[p] \in {"announce", "refetch"}
            /\ todo'[p] = todo[p] /\ todo[p] # <<>>
        BY <1>0, <3>3 DEF Starts, Same, Began, Staged, Stays

      <4>2. /\ view'[p] \in SUBSET A
            /\ \A i \in doomed'[p] : \E a \in A : a.id = i /\ a.name = Head(todo[p])
        BY <3>3, <4>1 DEF Starts, Began
      <4>3. QED
        BY <3>0, <4>1, <4>2
    <3>4. ASSUME Uploads(p) PROVE Right(p)
      <4>1. CASE Tail(todo[p]) = <<>>
        BY <3>4, <4>1 DEF Uploads, Began
      <4>2. CASE Tail(todo[p]) # <<>>
        <5>1. /\ stage[p] = "upload" /\ todo'[p] = Tail(todo[p]) /\ view'[p] \in SUBSET view[p]
              /\ \A i \in doomed'[p] : \E a \in view[p] : a.id = i /\ a.name = Head(Tail(todo[p]))
          BY <3>4, <4>2 DEF Uploads, Began
        <5>2. \A a \in release'.assets, b \in view[p] : a.id = b.id => a.name = b.name
          BY <2>1, <2>2, <3>0, <5>1
        <5>3. QED
          BY <5>1, <5>2
      <4>3. QED
        BY <4>1, <4>2
    <3>5. ASSUME Fell(p) PROVE Right(p)
      <4>1. CASE stage'[p] = "failed"
        BY <4>1
      <4>2. CASE stage'[p] = stage[p] /\ SameFiles(p)
        <5>1. new.id \notin doomed[p]
          BY <2>2 DEF Held
        <5>2. QED
          BY <2>1, <2>2, <3>0, <4>2, <5>1 DEF SameFiles
      <4>3. QED
        BY <3>5, <4>1, <4>2 DEF Fell
    <3>6. ASSUME Reruns(p) PROVE Right(p)
      BY <3>6 DEF Reruns
    <3>7. ASSUME NEW i \in doomed[p], Deletes(p, i) PROVE Right(p)
      <4>1. \A a \in release'.assets : a \in A
        BY <3>7 DEF Deletes, Loses
      <4>2. /\ view'[p] = view[p] /\ doomed'[p] = doomed[p] \ {i} /\ todo'[p] = todo[p]
            /\ stage[p] \in {"clear", "replace"}
            /\ stage'[p] = "replace" => stage[p] = "replace"
        BY <3>7 DEF Deletes, Loses
      <4>3. QED
        BY <3>0, <4>1, <4>2
    <3>8. QED
      BY <1>2, <3>1, <3>2, <3>3, <3>4, <3>5, <3>6, <3>7, Zenon DEF Acts, Unheard, Heard
  <2>7. QED
    BY <2>3, <2>4, <2>5, <2>6 DEF Named, OneEach
<1>3. QED
  BY <1>1, <1>2, Actions

(* Copied after a step: a run's ids are new only in a fresh copy.          *)
LEMMA CopiedStep == ShapeInv /\ [Next]_vars => Copied'
<1> SUFFICES ASSUME ShapeInv, [Next]_vars PROVE Copied'
  OBVIOUS
<1>0. Copied /\ Staged /\ Typed /\ Named
  BY DEF ShapeInv
<1>1. CASE UNCHANGED vars
  BY <1>0, <1>1 DEF vars, mine, Copied, Held
<1>2. ASSUME NEW p \in Publishers, Typed', rolling' = rolling, Others(p), Acts(p)
      PROVE  Copied'
  <2> DEFINE Within(q, S) == /\ OneEach(S)
                             /\ Held(q)' \subseteq IdsIn(S)
                             /\ stage'[q] \in Working => view'[q] \subseteq S
             Good(q) == \E S \in SUBSET Asset : Within(q, S)
  <2>1. ASSUME NEW q \in Publishers \ {p} PROVE Good(q)
    <3> PICK S \in SUBSET Asset : OneEach(S) /\ Held(q) \subseteq IdsIn(S)
                                  /\ (stage[q] \in Working => view[q] \subseteq S)
      BY <1>0 DEF Copied
    <3>1. Within(q, S)
      BY <1>2 DEF Others, Held
    <3>2. QED
      BY <3>1
  <2>2. Good(p)
    <3> PICK S \in SUBSET Asset : OneEach(S) /\ Held(p) \subseteq IdsIn(S)
                                  /\ (stage[p] \in Working => view[p] \subseteq S)
      BY <1>0 DEF Copied
    <3>0. release.assets \in SUBSET Asset /\ OneEach(release.assets) /\ IdsIn({}) = {}
      BY <1>0 DEF Typed, Named, IdsIn
    <3>00. /\ doomed[p] # {} <=> stage[p] \in {"clear", "replace"}
           /\ todo[p] # <<>> <=> stage[p] # "done"
      BY <1>0 DEF Staged, Stays
    <3> USE DEF Working
    <3>1. ASSUME Looks(p) PROVE Good(p)
      <4>1. Within(p, S)
        BY <3>00, <3>0, <3>1 DEF Looks, Held
      <4>2. QED
        BY <4>1
    <3>2. ASSUME Clears(p) PROVE Good(p)
      <4>1. Within(p, release.assets)
        BY <3>0, <3>2 DEF Clears, Held
      <4>2. QED
        BY <3>0, <4>1
    <3>3. ASSUME NEW files, NEW assets, Began(p, files, assets),
                 assets \in SUBSET Asset, OneEach(assets), doomed[p] = {}
          PROVE  Good(p)
      <4>1. doomed'[p] \subseteq IdsIn(assets)
        BY <3>3 DEF Began, IdsIn
      <4>2. IdsIn(view'[p]) \subseteq IdsIn(assets) \/ view'[p] = NoView
        BY <3>3 DEF Began, IdsIn
      <4>3. stage'[p] \in Working => view'[p] \subseteq assets
        BY <3>3 DEF Began
      <4>4. Within(p, assets)
        BY <3>3, <4>1, <4>2, <4>3 DEF Held
      <4>5. QED
        BY <3>3, <4>4
    <3>4. ASSUME Starts(p) PROVE Good(p)
      BY <3>0, <3>00, <3>3, <3>4 DEF Starts
    <3>5. ASSUME Uploads(p) PROVE Good(p)
      <4>1. view[p] \in SUBSET S /\ OneEach(view[p]) /\ view[p] \in SUBSET Asset /\ doomed[p] = {}
        BY <3>00, <3>5 DEF Uploads, OneEach
      <4>2. QED
        BY <3>3, <3>5, <4>1 DEF Uploads
    <3>6. ASSUME Fell(p) PROVE Good(p)
      <4>1. Within(p, S)
        BY <3>0, <3>6 DEF Fell, SameFiles, Held
      <4>2. QED
        BY <4>1
    <3>7. ASSUME Reruns(p) PROVE Good(p)
      <4>1. Within(p, S)
        BY <3>7 DEF Reruns, SameFiles, Held
      <4>2. QED
        BY <4>1
    <3>8. ASSUME NEW i \in doomed[p], Deletes(p, i) PROVE Good(p)
      <4>1. /\ view'[p] = view[p] /\ doomed'[p] = doomed[p] \ {i}
            /\ stage[p] \in {"clear", "replace"}
        BY <3>8 DEF Deletes, Loses
      <4>2. Within(p, S)
        BY <4>1 DEF Held
      <4>3. QED
        BY <4>2
    <3>9. QED
      BY <1>2, <3>1, <3>2, <3>4, <3>5, <3>6, <3>7, <3>8, Zenon DEF Acts, Unheard, Heard
  <2>3. \A q \in Publishers : Good(q)
    BY <2>1, <2>2
  <2>4. QED
    BY <2>3 DEF Copied
<1>3. QED
  BY <1>1, <1>2, Actions

(* A first release, numbered as Init does, has this shape.                 *)
LEMMA ShapeInit == Init => ShapeInv
<1> SUFFICES ASSUME Init PROVE ShapeInv
  OBVIOUS
<1>1. PICK names \in SUBSET Names, exists \in BOOLEAN :
        /\ release = [exists |-> exists, card |-> Earlier, assets |->
               {[id |-> Numbered[n], name |-> n, by |-> Earlier] : n \in names}]
        /\ had = names
  BY DEF Init
<1> DEFINE first == {[id |-> Numbered[n], name |-> n, by |-> Earlier] : n \in names}
<1>2. \A n \in names : Numbered[n] \in Ids
  BY NumberedNames, IdBounds
<1>3. first \in SUBSET Asset
  BY <1>2 DEF Asset
<1>4. release \in ReleaseType /\ release.assets = first
  BY <1>1, <1>3 DEF ReleaseType
<1>5. 1 \in 1..MaxAttempts /\ \A p \in Publishers : FilesOf[p] \in Seq(Names) /\ FilesOf[p] # <<>>
  BY PublisherAssumption
<1>6. Typed
  <2>1. stage \in [Publishers -> Requesting \cup {"done", "failed", "absent"}]
    BY DEF Init, Requesting
  <2>2. todo \in [Publishers -> Seq(Names)]
    <3>1. FilesOf \in [Publishers -> Seq(Names)]
      BY PublisherAssumption
    <3>2. QED
      BY <3>1 DEF Init
  <2>3. QED
    BY <1>1, <1>4, <1>5, <2>1, <2>2 DEF Init, Typed, ReleaseType
<1>7. Staged
  BY <1>5 DEF Init, Staged, Stays, Remains, Working, Uploading
<1>8. Named
  BY <1>4, NumberedNames DEF Init, Named, OneEach, Working
<1>9. Copied
  <2>1. OneEach({}) /\ {} \in SUBSET Asset
    BY DEF OneEach
  <2>2. ASSUME NEW p \in Publishers
        PROVE  Held(p) = {} /\ stage[p] \notin Working
    BY <2>2 DEF Init, Held, Working
  <2>3. ASSUME NEW p \in Publishers
        PROVE  \E S \in SUBSET Asset : /\ OneEach(S)
                                       /\ Held(p) \subseteq IdsIn(S)
                                       /\ stage[p] \in Working => view[p] \subseteq S
    BY <2>1, <2>2
  <2>4. QED
    BY <2>3 DEF Copied
<1>10. QED
  BY <1>6, <1>7, <1>8, <1>9 DEF ShapeInv

-----------------------------------------------------------------------------
(***************************************************************************)
(* The files of the run with the latest copy stay.                         *)
(***************************************************************************)
(* No run appears or goes.                                                 *)
LEMMA PresentStays ==
    ASSUME Typed, Typed', NEW p \in Publishers, Others(p), Acts(p)
    PROVE  Present' = Present /\ p \in Present
<1>1. stage[p] # "absent" /\ stage'[p] # "absent"
  BY Zenon DEF Acts, Looks, Clears, Starts, Uploads, Unheard, Reruns, Deletes, Heard, Loses, Gains,
     Began, Fell, Requesting
<1>2. QED
  BY <1>1 DEF Present, Others

(* An answered upload adds the file it was for.                            *)
LEMMA UploadedStep ==
    ASSUME ShapeInv, NEW p \in Publishers, Uploads(p)
    PROVE  Uploaded(p)' = Uploaded(p) \cup {Head(todo[p])}
<1> DEFINE m == Len(todo[p])
           n == Len(FilesOf[p])
<1>1. /\ Len(Tail(todo[p])) = m - 1 /\ m \in Nat \ {0} /\ todo'[p] = Tail(todo[p])
      /\ Head(todo[p]) = todo[p][1]
  BY TailFacts DEF Uploads, Began, ShapeInv, Typed
<1>2. n \in Nat /\ m <= n
  <2>1. n \in Nat
    BY PublisherAssumption
  <2>2. m <= n
    BY Zenon DEF ShapeInv, Staged, Remains
  <2>3. QED
    BY <2>1, <2>2
<1>3. 1 \in 1..m
  BY <1>1
<1>4. todo[p][1] = FilesOf[p][n - m + 1]
  BY <1>3 DEF ShapeInv, Staged, Remains
<1>5. Uploaded(p)' = {FilesOf[p][i] : i \in 1..(n - (m - 1))}
  BY <1>1 DEF Uploaded
<1>6. Uploaded(p) = {FilesOf[p][i] : i \in 1..(n - m)}
  BY DEF Uploaded
<1> HIDE DEF m, n
<1>7. 1..(n - (m - 1)) = 1..(n - m) \cup {n - m + 1}
  BY <1>1, <1>2
<1>8. QED
  BY <1>1, <1>4, <1>5, <1>6, <1>7

(* Only an answer to announce or refetch gives a run ids it did not hold.  *)
LEMMA HoldsLess ==
    ASSUME ShapeInv, NEW p \in Publishers, Uploads(p) \/ Fell(p) \/ \E i : Deletes(p, i)
    PROVE  Held(p)' \subseteq Held(p)
<1>1. CASE Uploads(p)
  <2>1. view[p] # NoView
    BY <1>1, NoViewIsNone DEF ShapeInv, Staged, Stays, Working, Uploads
  <2>2. doomed[p] = {}
    BY <1>1 DEF ShapeInv, Staged, Stays, Uploads
  <2>3. doomed'[p] \subseteq IdsIn(view[p])
    BY <1>1, <2>2 DEF Uploads, Began, IdsIn
  <2>4. view'[p] = NoView \/ IdsIn(view'[p]) \subseteq IdsIn(view[p])
    BY <1>1 DEF Uploads, Began, IdsIn
  <2>5. QED
    BY <2>1, <2>3, <2>4 DEF Held
<1>2. CASE Fell(p)
  BY <1>2 DEF Fell, SameFiles, Held
<1>3. ASSUME NEW i, Deletes(p, i) PROVE Held(p)' \subseteq Held(p)
  BY <1>3 DEF Deletes, Held
<1>4. QED
  BY <1>1, <1>2, <1>3

LatestInv == ShapeInv /\ LatestIsKept

(* LatestIsKept after a step: a fresh copy makes its run the witness,      *)
(* nothing else adds to what a run holds, and an upload adds an asset      *)
(* nobody holds.                                                           *)
LEMMA LatestStep == LatestInv /\ [Next]_vars => LatestIsKept'
<1> SUFFICES ASSUME LatestInv, [Next]_vars PROVE LatestIsKept'
  OBVIOUS
<1>0. ShapeInv /\ LatestIsKept
  BY DEF LatestInv
<1>1. CASE UNCHANGED vars
  <2>1. release' = release /\ stage' = stage /\ view' = view /\ doomed' = doomed /\ todo' = todo
    BY <1>1 DEF vars, mine
  <2>2. Present' = Present /\ \A p \in Publishers : Held(p)' = Held(p) /\ Uploaded(p)' = Uploaded(p)
    BY <2>1 DEF Present, Held, Uploaded
  <2>3. \A p \in Publishers : Kept(p) => Kept(p)'
    BY <2>1, <2>2 DEF Kept
  <2>4. QED
    BY <1>0, <2>1, <2>2, <2>3 DEF LatestIsKept, Present
<1>2. ASSUME NEW p \in Publishers, Typed', rolling' = rolling, Others(p), Acts(p)
      PROVE  LatestIsKept'
  <2>0. Typed /\ Staged
    BY <1>0 DEF ShapeInv
  <2>1. Present' = Present /\ p \in Present
    BY <1>2, <2>0, PresentStays
  <2>2. ASSUME stage'[p] \notin Uploading PROVE LatestIsKept'
    BY <2>1, <2>2 DEF LatestIsKept
  <2>3. ASSUME Starts(p) PROVE LatestIsKept'
    <3>1. todo'[p] = FilesOf[p]
      BY <2>0, <2>3 DEF Starts, Began, Staged, Stays, Uploading
    <3>2. Len(FilesOf[p]) \in Nat
      BY PublisherAssumption
    <3>3. Uploaded(p)' = {}
      BY <3>1, <3>2 DEF Uploaded
    <3>4. Kept(p)'
      BY <3>3 DEF Kept
    <3>5. QED
      BY <2>1, <3>4 DEF LatestIsKept
  <2>4. ASSUME Held(p)' \subseteq Held(p),
               \A a \in release.assets : a.id \notin Held(p) => a \in release'.assets,
               stage'[p] = stage[p] \/ stage[p] \in {"replace", "upload"},
               todo'[p] = todo[p] \/ Uploads(p)
        PROVE  LatestIsKept'
    <3> PICK s \in Present : stage[s] \in Uploading => Kept(s)
      BY <1>0 DEF LatestIsKept
    <3>1. s \in Publishers
      BY DEF Present
    <3>2. stage'[s] \in Uploading => stage[s] \in Uploading
      BY <1>2, <2>4, <3>1 DEF Others, Uploading
    <3>3. \A q \in Publishers : Held(q)' \subseteq Held(q)
      BY <1>2, <2>4 DEF Others, Held
    <3>4. ASSUME NEW n, NEW a \in release.assets, a.name = n, a.by = s,
                 \A q \in Publishers : a.id \notin Held(q)
          PROVE  a \in release'.assets /\ \A q \in Publishers : a.id \notin Held(q)'
      BY <1>2, <2>4, <3>3, <3>4
    <3>5. ASSUME Kept(s) PROVE Kept(s)'
      <4>1. CASE todo'[s] = todo[s]
        <5>1. Uploaded(s)' = Uploaded(s)
          BY <4>1 DEF Uploaded
        <5>2. QED
          BY <3>4, <3>5, <5>1 DEF Kept
      <4>2. CASE s = p /\ Uploads(p)
        <5>1. Uploaded(s)' = Uploaded(s) \cup {Head(todo[p])}
          BY <1>0, <4>2, UploadedStep
        <5> DEFINE new == New(p)
        <5>2. new \in release'.assets
          BY <4>2 DEF Uploads, Gains, New
        <5>3. new.name = Head(todo[p]) /\ new.by = p /\ \A q \in Publishers : new.id \notin Held(q)
          BY <1>0, NewIsFresh
        <5> HIDE DEF new
        <5>4. \A q \in Publishers : new.id \notin Held(q)'
          BY <3>3, <5>3
        <5>5. \A n \in Uploaded(s) : \E a \in release'.assets :
                a.name = n /\ a.by = s /\ \A q \in Publishers : a.id \notin Held(q)'
          BY <3>4, <3>5 DEF Kept
        <5>6. QED
          BY <4>2, <5>1, <5>2, <5>3, <5>4, <5>5 DEF Kept
      <4>3. QED
        BY <1>2, <2>4, <3>1, <4>1, <4>2 DEF Others
    <3>6. QED
      BY <2>1, <3>2, <3>5 DEF LatestIsKept
  <2>5. ASSUME Uploads(p) PROVE LatestIsKept'
    <3>1. Held(p)' \subseteq Held(p)
      BY <1>0, <2>5, HoldsLess
    <3>2. \A a \in release.assets : a \in release'.assets
      BY <2>5 DEF Uploads, Gains
    <3>3. QED
      BY <2>4, <2>5, <3>1, <3>2 DEF Uploads
  <2>6. ASSUME NEW i \in doomed[p], Deletes(p, i) PROVE LatestIsKept'
    <3>1. Held(p)' \subseteq Held(p)
      BY <1>0, <2>6, HoldsLess
    <3>2. \A a \in release.assets : a.id \notin Held(p) => a \in release'.assets
      BY <2>6 DEF Deletes, Loses, Held
    <3>3. stage[p] \in {"clear", "replace"} /\ todo'[p] = todo[p]
      BY <2>6 DEF Deletes, Loses
    <3>4. CASE stage[p] = "clear"
      <4>1. stage'[p] \notin Uploading
        BY <2>6, <3>4 DEF Deletes, Uploading
      <4>2. QED
        BY <2>2, <4>1
    <3>5. CASE stage[p] = "replace"
      BY <2>4, <3>1, <3>2, <3>3, <3>5
    <3>6. QED
      BY <3>3, <3>4, <3>5
  <2>7. ASSUME Fell(p), Same \/ (\E i : Loses(p, i)) \/ Gains(p) PROVE LatestIsKept'
    <3>1. CASE stage'[p] = "failed"
      BY <2>2, <3>1 DEF Uploading
    <3>2. CASE stage'[p] = stage[p] /\ SameFiles(p)
      <4>1. Held(p)' \subseteq Held(p)
        BY <1>0, <2>7, HoldsLess
      <4>2. \A a \in release.assets : a.id \notin Held(p) => a \in release'.assets
        BY <2>7 DEF Same, Loses, Gains, Held
      <4>3. QED
        BY <2>4, <3>2, <4>1, <4>2 DEF SameFiles
    <3>3. QED
      BY <2>7, <3>1, <3>2 DEF Fell
  <2>8. ASSUME Looks(p) \/ Clears(p) \/ Reruns(p) PROVE LatestIsKept'
    BY <2>2, <2>8 DEF Looks, Clears, Reruns, Uploading
  <2>9. QED
    BY <1>2, <2>3, <2>5, <2>6, <2>7, <2>8, Zenon DEF Acts, Unheard, Heard, Same
<1>3. QED
  BY <1>0, <1>1, <1>2, Actions

-----------------------------------------------------------------------------
(***************************************************************************)
(* Whose assets there are, and what clearing leaves.                       *)
(***************************************************************************)
OriginInv == ShapeInv /\ Originated

(* Originated after a step: only an upload adds an asset, its run's next   *)
(* file; a card changes to that of the run which announces.                *)
LEMMA OriginStep == OriginInv /\ [Next]_vars => Originated'
<1> SUFFICES ASSUME OriginInv, [Next]_vars PROVE Originated'
  OBVIOUS
<1>0. ShapeInv /\ Originated /\ Typed /\ Staged
  BY DEF OriginInv, ShapeInv
<1>1. CASE UNCHANGED vars
  BY <1>0, <1>1 DEF vars, mine, Originated, Present
<1>2. ASSUME NEW p \in Publishers, Typed', rolling' = rolling, Others(p), Acts(p)
      PROVE  Originated'
  <2>1. Present' = Present /\ p \in Present
    BY <1>0, <1>2, PresentStays
  <2>2. \A a \in release'.assets : a.by \in Publishers => a.name \in Own(a.by)
    <3> SUFFICES ASSUME NEW a \in release'.assets, a.by \in Publishers PROVE a.name \in Own(a.by)
      OBVIOUS
    <3>1. CASE a \in release.assets
      BY <1>0, <3>1 DEF Originated
    <3>2. CASE stage[p] = "upload" /\ a = New(p)
      <4>1. Head(todo[p]) \in Own(p)
        BY <1>0, <3>2, Heads
      <4>2. QED
        BY <3>2, <4>1 DEF New
    <3>3. QED
      BY <1>2, <3>1, <3>2, AssetsStep
  <2>3. NamesIn(release'.assets) \subseteq had'
    <3>1. CASE Adds
      BY <3>1 DEF Adds
    <3>2. CASE Same /\ (had' = had \/ had' = NamesIn(release.assets))
      BY <1>0, <3>2 DEF Same, Originated
    <3>3. Adds \/ (Same /\ (had' = had \/ had' = NamesIn(release.assets)))
      BY <1>2, Zenon DEF Acts, Looks, Clears, Starts, Uploads, Unheard, Reruns, Deletes, Heard, Same
    <3>4. QED
      BY <3>1, <3>2, <3>3
  <2>4. ASSUME NEW q \in Publishers, stage'[q] \in Working \cup {"done"}
        PROVE  release'.card \in Present
    <3>1. CASE release'.card = p
      BY <2>1, <3>1
    <3>2. CASE SameCard /\ stage[p] # "announce"
      <4>1. stage[q] \in Working \cup {"done"}
        <5>1. CASE q = p
          BY <1>2, <2>4, <3>2, <5>1, Zenon DEF Acts, Looks, Clears, Starts, Uploads, Unheard,
             Reruns,
             Deletes, Heard, Loses, Fell, Working
        <5>2. CASE q # p
          BY <1>2, <2>4, <5>2 DEF Others
        <5>3. QED
          BY <5>1, <5>2
      <4>2. QED
        BY <1>0, <3>2, <4>1 DEF Originated, SameCard
    <3>3. CASE Unheard(p) \/ Looks(p)
      <4>1. stage[q] \in Working \cup {"done"}
        BY <1>2, <2>4, <3>3 DEF Unheard, Looks, Fell, SameFiles, Others, Working
      <4>2. release' = release
        BY <3>3 DEF Unheard, Looks
      <4>3. QED
        BY <1>0, <4>1, <4>2 DEF Originated
    <3>4. release'.card = p \/ (SameCard /\ stage[p] # "announce") \/ Unheard(p) \/ Looks(p)
      <4>1. ASSUME NEW i, Heard(p, i) PROVE release'.card = p \/ (SameCard /\ stage[p] # "announce")
        BY <4>1 DEF Heard
      <4>2. ASSUME NEW i, Deletes(p, i) PROVE SameCard /\ stage[p] # "announce"
        BY <4>2 DEF Deletes, Loses
      <4>3. ASSUME Clears(p) \/ Starts(p) \/ Uploads(p) \/ Reruns(p)
            PROVE  release'.card = p \/ (SameCard /\ stage[p] # "announce")
        BY <4>3 DEF Clears, Starts, Uploads, Reruns, SameCard
      <4>4. QED
        BY <1>2, <4>1, <4>2, <4>3, Zenon DEF Acts
    <3>5. QED
      BY <3>1, <3>2, <3>3, <3>4
  <2>5. QED
    BY <2>1, <2>2, <2>3, <2>4 DEF Originated
<1>3. QED
  BY <1>0, <1>1, <1>2, Actions

ClearInv == ShapeInv /\ Cleared

(* Cleared after a step: the only run dooms all there is, and adds only    *)
(* its own files.                                                          *)
LEMMA ClearStep == ClearInv /\ [Next]_vars => Cleared'
<1> SUFFICES ASSUME ClearInv, [Next]_vars PROVE Cleared'
  OBVIOUS
<1>0. ShapeInv /\ Cleared /\ Typed /\ Staged
  BY DEF ClearInv, ShapeInv
<1>1. CASE UNCHANGED vars
  BY <1>0, <1>1 DEF vars, mine, Cleared, Present
<1>2. ASSUME NEW p \in Publishers, Typed', rolling' = rolling, Others(p), Acts(p)
      PROVE  Cleared'
  <2>1. Present' = Present /\ p \in Present
    BY <1>0, <1>2, PresentStays
  <2> SUFFICES ASSUME rolling, Present = {p}
               PROVE  /\ stage'[p] = "clear" => IdsIn(release'.assets) \subseteq doomed'[p]
                      /\ stage'[p] = "refetch" => release'.assets = {}
                      /\ stage'[p] \in Uploading => NamesIn(release'.assets) \subseteq Own(p)
    BY <1>2, <2>1 DEF Cleared
  <2> DEFINE Goal == /\ stage'[p] = "clear" => IdsIn(release'.assets) \subseteq doomed'[p]
                     /\ stage'[p] = "refetch" => release'.assets = {}
                     /\ stage'[p] \in Uploading => NamesIn(release'.assets) \subseteq Own(p)
  <2>2. /\ stage[p] = "clear" => IdsIn(release.assets) \subseteq doomed[p]
        /\ stage[p] = "refetch" => release.assets = {}
        /\ stage[p] \in Uploading => NamesIn(release.assets) \subseteq Own(p)
    BY <1>0 DEF Cleared
  <2>3. ASSUME Looks(p) \/ Reruns(p) PROVE Goal
    BY <2>3 DEF Looks, Reruns, Uploading
  <2>4. ASSUME Clears(p) PROVE Goal
    BY <2>4 DEF Clears, Same, IdsIn, Uploading
  <2>5. ASSUME Starts(p) PROVE Goal
    <3>1. release'.assets = {} /\ todo[p] # <<>>
      BY <1>0, <2>2, <2>5 DEF Starts, Same, Staged, Stays
    <3>2. QED
      BY <2>5, <3>1 DEF Starts, Began, NamesIn
  <2>6. ASSUME Gains(p) PROVE NamesIn(release'.assets) \subseteq Own(p)
    <3>1. Head(todo[p]) \in Own(p)
      BY <1>0, <2>6, Heads DEF Gains
    <3>2. QED
      BY <2>2, <2>6, <3>1 DEF Gains, NamesIn, Uploading
  <2>7. ASSUME Uploads(p) PROVE Goal
    BY <2>6, <2>7 DEF Uploads, Began
  <2>8. ASSUME NEW i \in doomed[p], Deletes(p, i) PROVE Goal
    <3>1. /\ stage[p] \in {"clear", "replace"} /\ doomed'[p] = doomed[p] \ {i}
          /\ release'.assets = {a \in release.assets : a.id # i}
          /\ stage'[p] = IF doomed'[p] # {} THEN stage[p]
                         ELSE IF stage[p] = "clear" THEN "refetch" ELSE "upload"
      BY <2>8 DEF Deletes, Loses
    <3>2. CASE stage[p] = "clear"
      BY <2>2, <3>1, <3>2 DEF IdsIn, Uploading
    <3>3. CASE stage[p] = "replace"
      BY <2>2, <3>1, <3>3 DEF NamesIn, Uploading
    <3>4. QED
      BY <3>1, <3>2, <3>3
  <2>9. ASSUME Fell(p), Same \/ (\E i : Loses(p, i)) \/ Gains(p) PROVE Goal
    <3>1. CASE stage'[p] = "failed"
      BY <3>1 DEF Uploading
    <3>2. CASE stage'[p] = stage[p] /\ doomed'[p] = doomed[p] /\ ~Gains(p)
      <4>1. \A a \in release'.assets : a \in release.assets
        BY <2>9, <3>2 DEF Same, Loses
      <4>2. QED
        BY <2>2, <3>2, <4>1 DEF IdsIn, NamesIn
    <3>3. CASE stage'[p] = stage[p] /\ Gains(p)
      BY <2>6, <3>3 DEF Gains
    <3>4. QED
      BY <2>9, <3>1, <3>2, <3>3 DEF Fell, SameFiles
  <2>10. QED
    BY <1>2, <2>3, <2>4, <2>5, <2>7, <2>8, <2>9, Zenon DEF Acts, Unheard, Heard, Same
<1>3. QED
  BY <1>0, <1>1, <1>2, Actions

-----------------------------------------------------------------------------
(***************************************************************************)
(* Who answers for a missing file.                                         *)
(***************************************************************************)
BlameInv == OriginInv /\ Blamed

(* A run that is past its deletes, or never began them, answers for no     *)
(* missing file.                                                           *)
LEMMA BlameMoves ==
    ASSUME Present' = Present, NEW p \in Present, Others(p),
           NEW g \in [Lost -> Present], Blames(g, Lost, stage, todo),
           \A n \in Lost' \ Lost : n = Head(todo[p]) /\ stage[p] = "replace",
           stage[p] # "failed",
           \/ stage'[p] = "failed"
           \/ stage'[p] \in {"replace", "upload"} /\ todo'[p] = todo[p]
           \/ stage[p] \notin {"replace", "upload"}
           \/ stage[p] = "upload" /\ Head(todo[p]) \notin Lost'
    PROVE  \E h \in [Lost' -> Present] : Blames(h, Lost', stage', todo')
<1> DEFINE late(n) == n = Head(todo[p]) /\ stage[p] \in {"replace", "upload"}
           h == [n \in Lost' |-> IF late(n) THEN p ELSE g[n]]
<1>1. \A n \in Lost' : late(n) \/ n \in Lost
  OBVIOUS
<1>2. h \in [Lost' -> Present]
  BY <1>1
<1>3. \A n \in Lost' : ~late(n) => n \in Lost /\ h[n] = g[n] /\ g[n] # p
  BY <1>1 DEF Blames
<1>4. \A n \in Lost' : late(n) => h[n] = p
  OBVIOUS
<1>5. \A m, n \in Lost' : h[m] = h[n] => m = n
  <2> SUFFICES ASSUME NEW m \in Lost', NEW n \in Lost', h[m] = h[n] PROVE m = n
    OBVIOUS
  <2> HIDE DEF h
  <2>1. CASE late(m) /\ late(n)
    BY <2>1
  <2>2. CASE ~late(m) /\ ~late(n)
    BY <1>3, <2>2 DEF Blames
  <2>3. CASE late(m) /\ ~late(n)
    BY <1>3, <1>4, <2>3
  <2>4. CASE ~late(m) /\ late(n)
    BY <1>3, <1>4, <2>4
  <2>5. QED
    BY <2>1, <2>2, <2>3, <2>4
<1>6. ASSUME NEW n \in Lost'
      PROVE  \/ stage'[h[n]] = "failed"
             \/ stage'[h[n]] \in {"replace", "upload"} /\ Head(todo'[h[n]]) = n
  <2> HIDE DEF h
  <2>1. CASE late(n)
    BY <1>4, <1>6, <2>1
  <2>2. CASE ~late(n)
    <3>1. h[n] \in Publishers \ {p} /\ h[n] = g[n] /\ n \in Lost
      BY <1>2, <1>3, <1>6, <2>2 DEF Present
    <3>2. stage'[h[n]] = stage[h[n]] /\ todo'[h[n]] = todo[h[n]]
      BY <3>1 DEF Others
    <3>3. QED
      BY <3>1, <3>2 DEF Blames
  <2>3. QED
    BY <2>1, <2>2
<1> HIDE DEF h
<1>7. Blames(h, Lost', stage', todo')
  BY <1>5, <1>6 DEF Blames
<1>8. QED
  BY <1>2, <1>7

(* What a release lacks after a step: an upload returns its file, and a    *)
(* delete costs only the file its run is about to upload.                  *)
LEMMA LostStep ==
    ASSUME OriginInv, NEW p \in Publishers, stage[p] # "done", had' = had \/ Adds
    PROVE  /\ Same => Lost' = Lost
           /\ Gains(p) => Lost' \subseteq Lost /\ Head(todo[p]) \notin Lost'
           /\ \A i : Loses(p, i) /\ stage[p] = "replace" =>
                     \A n \in Lost' \ Lost : n = Head(todo[p])
<1>0. NamesIn(release.assets) \subseteq had /\ Named
  BY DEF OriginInv, Originated, ShapeInv
<1>1. ASSUME Same PROVE Lost' = Lost
  BY <1>0, <1>1 DEF Same, Lost, Adds
<1>2. ASSUME Gains(p) PROVE Lost' \subseteq Lost /\ Head(todo[p]) \notin Lost'
  <2>1. NamesIn(release'.assets) = NamesIn(release.assets) \cup {Head(todo[p])}
    <3> DEFINE new == New(p)
    <3>1. release'.assets = release.assets \cup {new} /\ new.name = Head(todo[p])
      BY <1>2 DEF Gains, New
    <3> HIDE DEF new
    <3>2. QED
      BY <3>1 DEF NamesIn
  <2>2. QED
    BY <1>0, <2>1 DEF Lost, Adds
<1>3. ASSUME NEW i, Loses(p, i), stage[p] = "replace", NEW n \in Lost' \ Lost
      PROVE  n = Head(todo[p])
  <2>1. \A a \in release.assets : a.id # i => a \in release'.assets
    BY <1>3 DEF Loses
  <2>2. NamesIn(release'.assets) \subseteq NamesIn(release.assets)
    BY <1>3 DEF Loses, NamesIn
  <2>3. n \in NamesIn(release.assets) /\ n \notin NamesIn(release'.assets)
    BY <1>0, <2>2 DEF Lost, Adds
  <2>4. PICK a \in release.assets : a.name = n
    BY <2>3 DEF NamesIn
  <2>5. a.id = i
    BY <2>1, <2>3, <2>4 DEF NamesIn
  <2>6. QED
    BY <1>0, <1>3, <2>4, <2>5 DEF Named, Loses
<1>4. QED
  BY <1>1, <1>2, <1>3

(* Blamed after a step: whoever loses a file answers for it until it is    *)
(* uploaded, and a rerun starts the account afresh.                        *)
LEMMA BlameStep == BlameInv /\ [Next]_vars => Blamed'
<1> SUFFICES ASSUME BlameInv, [Next]_vars PROVE Blamed'
  OBVIOUS
<1>0. OriginInv /\ ShapeInv /\ Blamed /\ Typed /\ Staged
  BY DEF BlameInv, OriginInv, ShapeInv
<1>1. CASE UNCHANGED vars
  <2>1. Lost' = Lost /\ Present' = Present /\ stage' = stage /\ todo' = todo /\ rolling' = rolling
    BY <1>1 DEF vars, mine, Lost, Present
  <2>2. QED
    BY <1>0, <2>1 DEF Blamed
<1>2. ASSUME NEW p \in Publishers, Typed', rolling' = rolling, Others(p), Acts(p)
      PROVE  Blamed'
  <2>1. Present' = Present /\ p \in Present
    BY <1>0, <1>2, PresentStays
  <2> DEFINE Goal == \E h \in [Lost' -> Present] : Blames(h, Lost', stage', todo')
  <2> SUFFICES ASSUME ~rolling PROVE Goal
    BY <1>2, <2>1 DEF Blamed
  <2>2. PICK g \in [Lost -> Present] : Blames(g, Lost, stage, todo)
    BY <1>0 DEF Blamed
  <2>3. stage[p] \notin {"clear", "refetch"}
    BY <1>0 DEF Staged, Stays
  <2>4. ASSUME Lost' = Lost, stage[p] \in {"look", "announce"} PROVE Goal
    BY <2>1, <1>2, <2>2, <2>4, BlameMoves
  <2>5. ASSUME Looks(p) PROVE Goal
    <3>1. Lost' = Lost
      BY <2>5 DEF Looks, Lost
    <3>2. QED
      BY <2>4, <2>5, <3>1 DEF Looks
  <2>6. ASSUME Starts(p) PROVE Goal
    <3>1. Lost' = Lost /\ stage[p] = "announce"
      BY <1>0, <2>3, <2>6, LostStep DEF Starts
    <3>2. QED
      BY <2>4, <3>1
  <2>7. ASSUME Uploads(p) PROVE Goal
    <3>1. stage[p] = "upload" /\ Lost' \subseteq Lost /\ Head(todo[p]) \notin Lost'
      BY <1>0, <2>7, LostStep DEF Uploads
    <3>2. QED
      BY <2>1, <1>2, <2>2, <3>1, BlameMoves
  <2>8. ASSUME NEW i \in doomed[p], Deletes(p, i) PROVE Goal
    <3>1. /\ stage[p] = "replace" /\ todo'[p] = todo[p] /\ Adds /\ Loses(p, i)
          /\ stage'[p] \in {"replace", "upload"}
      BY <2>3, <2>8 DEF Deletes, Loses
    <3>2. \A n \in Lost' \ Lost : n = Head(todo[p])
      BY <1>0, <3>1, LostStep
    <3>3. QED
      BY <2>1, <1>2, <2>2, <3>1, <3>2, BlameMoves
  <2>9. ASSUME Unheard(p) \/ \E i : Heard(p, i) PROVE Goal
    <3>1. /\ stage[p] \in Requesting /\ Fell(p) /\ (had' = had \/ Adds)
          /\ Same \/ (\E i : Loses(p, i)) \/ Gains(p)
      BY <2>9, Zenon DEF Unheard, Heard, Same
    <3>2. stage[p] \in {"look", "announce", "replace", "upload"}
      BY <2>3, <3>1 DEF Requesting
    <3>3. \A n \in Lost' \ Lost : n = Head(todo[p]) /\ stage[p] = "replace"
      <4>1. CASE Same
        BY <1>0, <3>1, <3>2, <4>1, LostStep
      <4>2. CASE Gains(p)
        BY <1>0, <3>1, <3>2, <4>2, LostStep
      <4>3. ASSUME NEW i, Loses(p, i)
            PROVE  \A n \in Lost' \ Lost : n = Head(todo[p]) /\ stage[p] = "replace"
        BY <1>0, <3>1, <3>2, <4>3, LostStep DEF Loses
      <4>4. QED
        BY <3>1, <4>1, <4>2, <4>3
    <3>4. CASE stage'[p] = "failed"
      BY <2>1, <1>2, <2>2, <3>2, <3>3, <3>4, BlameMoves
    <3>5. CASE stage'[p] = stage[p] /\ todo'[p] = todo[p]
      BY <2>1, <1>2, <2>2, <3>2, <3>3, <3>5, BlameMoves
    <3>6. QED
      BY <3>1, <3>4, <3>5 DEF Fell, SameFiles
  <2>10. ASSUME Reruns(p) PROVE Goal
    <3>1. Lost' = {}
      BY <2>10 DEF Reruns, Lost
    <3>2. [n \in {} |-> p] \in [Lost' -> Present] /\ Blames([n \in {} |-> p], Lost', stage', todo')
      BY <3>1 DEF Blames
    <3>3. QED
      BY <3>2
  <2>11. ASSUME Clears(p) PROVE Goal
    BY <2>11 DEF Clears
  <2>12. QED
    BY <1>2, <2>5, <2>6, <2>7, <2>8, <2>9, <2>10, <2>11, Zenon DEF Acts
<1>3. QED
  BY <1>0, <1>1, <1>2, Actions

PublisherInv == ShapeInv /\ LatestIsKept /\ Originated /\ Blamed /\ Cleared

(* The rest holds at the start: nothing is uploaded, lost or cleared.      *)
LEMMA RestInit == Init => LatestIsKept /\ Originated /\ Blamed /\ Cleared
<1> SUFFICES ASSUME Init PROVE LatestIsKept /\ Originated /\ Blamed /\ Cleared
  OBVIOUS
<1>1. PICK names \in SUBSET Names, exists \in BOOLEAN :
        /\ release = [exists |-> exists, card |-> Earlier, assets |->
               {[id |-> Numbered[n], name |-> n, by |-> Earlier] : n \in names}]
        /\ had = names
  BY DEF Init
<1>2. \A p \in Publishers : stage[p] \in {"look", "absent"}
  BY DEF Init
<1>3. NamesIn(release.assets) = had
  <2> DEFINE First(n) == [id |-> Numbered[n], name |-> n, by |-> Earlier]
  <2>1. /\ release.assets = {First(n) : n \in names} /\ had = names
        /\ \A n \in names : First(n).name = n
    BY <1>1
  <2> HIDE DEF First
  <2>2. QED
    BY <2>1 DEF NamesIn
<1>4. LatestIsKept
  <2>1. PICK p \in Present : TRUE
    BY DEF Init
  <2>2. QED
    BY <1>2, <2>1 DEF LatestIsKept, Present, Uploading
<1>5. Originated
  <2>1. \A a \in release.assets : a.by = Earlier
    BY <1>1
  <2>2. QED
    BY <1>2, <1>3, <2>1, PublisherAssumption DEF Originated, Working
<1>6. Blamed
  <2>1. Lost = {}
    BY <1>3 DEF Lost
  <2>2. [n \in {} |-> 0] \in [Lost -> Present] /\ Blames([n \in {} |-> 0], Lost, stage, todo)
    BY <2>1 DEF Blames
  <2>3. QED
    BY <2>2 DEF Blamed
<1>7. Cleared
  BY <1>2 DEF Cleared, Uploading
<1>8. QED
  BY <1>4, <1>5, <1>6, <1>7

(* All of the above holds in every state, for any runs with any files, any *)
(* leftovers and any numbers of attempts and faults.                       *)
THEOREM PublisherAlways == Spec => []PublisherInv
<1>1. Init => PublisherInv
  BY ShapeInit, RestInit DEF PublisherInv
<1>2. PublisherInv /\ [Next]_vars => PublisherInv'
  <2> SUFFICES ASSUME PublisherInv, [Next]_vars PROVE PublisherInv'
    OBVIOUS
  <2>1. ShapeInv /\ LatestInv /\ OriginInv /\ BlameInv /\ ClearInv
    BY DEF PublisherInv, LatestInv, OriginInv, BlameInv, ClearInv
  <2>2. Typed'
    <3>1. CASE UNCHANGED vars
      BY <2>1, <3>1 DEF ShapeInv, Typed, vars, mine
    <3>2. QED
      BY <2>1, <3>1, Actions
  <2>3. ShapeInv'
    BY <2>1, <2>2, StagedStep, NamedStep, CopiedStep DEF ShapeInv
  <2>4. QED
    BY <2>1, <2>3, LatestStep, OriginStep, BlameStep, ClearStep DEF PublisherInv
<1>3. QED
  BY <1>1, <1>2, PTL DEF Spec

(* A run that is done has uploaded all its files.                          *)
LEMMA AllUploaded ==
    ASSUME Staged, Typed, NEW p \in Publishers, stage[p] = "done" PROVE Uploaded(p) = Own(p)
<1>1. todo[p] = <<>>
  BY DEF Staged, Stays
<1>2. Len(FilesOf[p]) - 0 = Len(FilesOf[p])
  BY PublisherAssumption
<1>3. QED
  BY <1>1, <1>2 DEF Uploaded, Own

(* SoundRelease: when every run that publishes under one tag has finished, *)
(* in whatever order their requests interleaved, failed or went unheard,   *)
(* the files they share are all of one run's build.                        *)
THEOREM OneBuild == Spec => []SoundRelease
<1>1. PublisherInv => SoundRelease
  <2> SUFFICES ASSUME PublisherInv PROVE SoundRelease
    OBVIOUS
  <2>0. Typed /\ Staged /\ LatestIsKept
    BY DEF PublisherInv, ShapeInv
  <2>1. TypeOK
    <3>1. \A p \in Publishers :
            /\ view[p] # NoView => view[p] \subseteq Asset
            /\ doomed[p] \subseteq Ids
            /\ attempt[p] \in 1..MaxAttempts
      BY <2>0 DEF Typed
    <3>2. \A p \in Publishers :
            /\ doomed[p] # {} <=> stage[p] \in {"clear", "replace"}
            /\ todo[p] # <<>> <=> stage[p] # "done"
      BY <2>0 DEF Staged, Stays
    <3>3. QED
      BY <2>0, <3>1, <3>2 DEF Typed, TypeOK
  <2>2. GreenIsOneBuild
    <3> SUFFICES ASSUME \A p \in Present : stage[p] = "done"
                 PROVE  \E p \in Present : \A n \in Shared :
                            \E a \in release.assets : a.name = n /\ a.by = p
      BY DEF GreenIsOneBuild
    <3>1. PICK p \in Present : stage[p] \in Uploading => Kept(p)
      BY <2>0 DEF LatestIsKept
    <3>2. Kept(p) /\ p \in Publishers /\ stage[p] = "done"
      BY <3>1 DEF Uploading, Present
    <3>3. Uploaded(p) = Own(p)
      BY <2>0, <3>2, AllUploaded
    <3>4. \A n \in Shared : n \in Own(p)
      BY DEF Shared, Own
    <3>5. QED
      BY <3>2, <3>3, <3>4 DEF Kept
  <2>3. QED
    BY <2>1, <2>2 DEF SoundRelease
<1>2. QED
  BY <1>1, PublisherAlways, PTL

(* FailureLosesOneFile: a fixed tag lacks at most one file it once had per *)
(* run that published under it, whatever fails and wherever.               *)
THEOREM OneFileLost == Spec => []FailureLosesOneFile
<1>1. PublisherInv => FailureLosesOneFile
  <2> SUFFICES ASSUME PublisherInv, ~rolling PROVE Cardinality(Lost) <= Cardinality(Present)
    BY DEF FailureLosesOneFile, Lost
  <2>1. PICK g \in [Lost -> Present] : Blames(g, Lost, stage, todo)
    BY DEF PublisherInv, Blamed
  <2>2. g \in Injection(Lost, Present)
    BY <2>1 DEF Blames, Injection, IsInjective
  <2>3. IsFiniteSet(Present)
    BY PublisherAssumption, FS_Subset DEF Present
  <2>4. QED
    BY <2>2, <2>3, FS_Injection
<1>2. QED
  BY <1>1, PublisherAlways, PTL

(* PublishesItsFiles: a run that finished alone left its card, each of its *)
(* files, and besides them nothing under a rolling tag and just what was   *)
(* there under a fixed one.                                                *)
THEOREM ExactlyItsFiles == Spec => []PublishesItsFiles
<1>1. PublisherInv => PublishesItsFiles
  <2> SUFFICES ASSUME PublisherInv, NEW p \in Publishers, stage[p] = "done", Present = {p}
               PROVE  /\ release.card = p
                      /\ {a.name : a \in {b \in release.assets : b.by = p}} = Own(p)
                      /\ NamesIn(release.assets) = IF rolling THEN Own(p) ELSE Own(p) \cup had
    BY DEF PublishesItsFiles, Own
  <2>0. Typed /\ Staged /\ LatestIsKept /\ Originated /\ Blamed /\ Cleared
    BY DEF PublisherInv, ShapeInv
  <2>1. Kept(p) /\ Uploaded(p) = Own(p)
    BY <2>0, AllUploaded DEF LatestIsKept, Uploading
  <2>2. \A n \in Own(p) : \E a \in release.assets : a.name = n /\ a.by = p
    BY <2>1 DEF Kept
  <2>3. \A a \in release.assets : a.by = p => a.name \in Own(p)
    BY <2>0 DEF Originated
  <2>4. {a.name : a \in {b \in release.assets : b.by = p}} = Own(p)
    BY <2>2, <2>3
  <2>5. Own(p) \subseteq NamesIn(release.assets)
    BY <2>2 DEF NamesIn
  <2>6. release.card = p
    BY <2>0 DEF Originated
  <2>7. rolling => NamesIn(release.assets) \subseteq Own(p)
    BY <2>0 DEF Cleared, Uploading
  <2>8. ~rolling => had \subseteq NamesIn(release.assets)
    <3> SUFFICES ASSUME ~rolling, NEW n \in Lost PROVE FALSE
      BY DEF Lost
    <3>1. PICK g \in [Lost -> Present] : Blames(g, Lost, stage, todo)
      BY <2>0 DEF Blamed
    <3>2. g[n] = p
      BY <3>1
    <3>3. QED
      BY <3>1, <3>2 DEF Blames
  <2>9. NamesIn(release.assets) \subseteq had
    BY <2>0 DEF Originated
  <2>10. QED
    BY <2>4, <2>5, <2>6, <2>7, <2>8, <2>9
<1>2. QED
  BY <1>1, PublisherAlways, PTL

-----------------------------------------------------------------------------
(***************************************************************************)
(* A run that has the tag to itself implements Publication. Under a fixed  *)
(* tag the files are those there have been: LoneLoses bounds what is       *)
(* missing. Under a rolling one AloneInv says that a cleared release leaves *)
(* nothing to replace.                                                     *)
(***************************************************************************)
(* What Publication does not tell apart: a run has seen what there is when *)
(* it announces, and finds no file to replace in a release it cleared.     *)
Unaltered(p) ==
    /\ stage[p] \in {"look", "announce"} => had = NamesIn(release.assets)
    /\ rolling /\ stage[p] \in {"replace", "upload"} =>
           stage[p] = "upload" /\ view[p] = {}
AloneInv == \A p \in Publishers : Present = {p} => Unaltered(p)

(* The names a change leaves. *)
LEMMA NamesChange ==
    ASSUME NEW p \in Publishers
    PROVE  /\ Same => NamesIn(release'.assets) = NamesIn(release.assets)
           /\ \A i : Loses(p, i) => NamesIn(release'.assets) \subseteq NamesIn(release.assets)
           /\ Gains(p) =>
                  NamesIn(release'.assets) = NamesIn(release.assets) \cup {Head(todo[p])}
<1>1. Same => NamesIn(release'.assets) = NamesIn(release.assets)
  BY DEF Same
<1>2. \A i : Loses(p, i) => NamesIn(release'.assets) \subseteq NamesIn(release.assets)
  BY DEF Loses, NamesIn
<1>3. ASSUME Gains(p)
      PROVE  NamesIn(release'.assets) = NamesIn(release.assets) \cup {Head(todo[p])}
  <2> DEFINE new == New(p)
  <2>1. release'.assets = release.assets \cup {new} /\ new.name = Head(todo[p])
    BY <1>3 DEF Gains, New
  <2> HIDE DEF new
  <2>2. QED
    BY <2>1 DEF NamesIn
<1>4. QED
  BY <1>1, <1>2, <1>3

(* AloneInv after a step of the only run. *)
LEMMA AloneStep == PublisherInv /\ AloneInv /\ [Next]_vars => AloneInv'
<1> SUFFICES ASSUME PublisherInv, AloneInv, [Next]_vars PROVE AloneInv'
  OBVIOUS
<1>0. ShapeInv /\ Originated /\ Cleared /\ Typed /\ Staged
  BY DEF PublisherInv, ShapeInv
<1>1. CASE UNCHANGED vars
  <2>1. stage' = stage /\ view' = view /\ release' = release /\ rolling' = rolling /\ had' = had
    BY <1>1 DEF vars, mine
  <2>2. Present' = Present
    BY <2>1 DEF Present
  <2>3. QED
    BY <2>1, <2>2 DEF AloneInv, Unaltered
<1>2. ASSUME NEW p \in Publishers, Typed', rolling' = rolling, Others(p), Acts(p)
      PROVE  AloneInv'
  <2>1. Present' = Present /\ p \in Present
    BY <1>0, <1>2, PresentStays
  <2> SUFFICES ASSUME Present = {p} PROVE Unaltered(p)'
    BY <2>1 DEF AloneInv
  <2>2. Unaltered(p) /\ NamesIn(release.assets) \subseteq had
    BY <1>0 DEF AloneInv, Originated
  <2> USE DEF Unaltered
  <2>3. ASSUME Looks(p) PROVE Unaltered(p)'
    BY <2>2, <2>3 DEF Looks
  <2>4. ASSUME Clears(p) PROVE Unaltered(p)'
    BY <2>4 DEF Clears
  <2>5. ASSUME Starts(p) PROVE Unaltered(p)'
    <3>1. todo[p] # <<>>
      BY <1>0, <2>5 DEF Starts, Staged, Stays
    <3>2. stage'[p] \in {"replace", "upload"}
      BY <2>5, <3>1 DEF Starts, Began
    <3>3. ASSUME rolling PROVE stage'[p] = "upload" /\ view'[p] = {}
      <4>1. stage[p] = "refetch"
        BY <2>5, <3>3 DEF Starts
      <4>2. release.assets = {}
        BY <1>0, <3>3, <4>1 DEF Cleared
      <4>3. QED
        BY <2>5, <3>1, <4>2 DEF Starts, Began
    <3>4. QED
      BY <1>2, <3>2, <3>3
  <2>6. ASSUME Uploads(p) PROVE Unaltered(p)'
    <3>1. stage[p] = "upload" /\ stage'[p] \notin {"look", "announce"}
      BY <2>6 DEF Uploads, Began
    <3>2. ASSUME rolling, stage'[p] \in {"replace", "upload"}
          PROVE  stage'[p] = "upload" /\ view'[p] = {}
      <4>1. view[p] = {}
        BY <2>2, <3>1, <3>2
      <4>2. QED
        BY <2>6, <3>2, <4>1 DEF Uploads, Began
    <3>3. QED
      BY <1>2, <3>1, <3>2
  <2>7. ASSUME Unheard(p) \/ \E i : Heard(p, i) PROVE Unaltered(p)'
    <3>1. /\ Fell(p) /\ ((release' = release /\ had' = had) \/ Adds)
          /\ Same \/ (\E i : Loses(p, i)) \/ Gains(p)
      BY <2>7, Zenon DEF Unheard, Heard, Same
    <3>2. stage[p] \in {"look", "announce"} => Same
      BY <3>1 DEF Loses, Gains
    <3>3. stage[p] \in {"look", "announce"} => had' = NamesIn(release'.assets)
      BY <2>2, <3>1, <3>2 DEF Same, Adds
    <3>4. QED
      BY <1>2, <2>2, <3>1, <3>3 DEF Fell, SameFiles
  <2>8. ASSUME Reruns(p) PROVE Unaltered(p)'
    BY <2>8 DEF Reruns
  <2>9. ASSUME NEW i \in doomed[p], Deletes(p, i) PROVE Unaltered(p)'
    <3>1. /\ stage[p] \in {"clear", "replace"} /\ view'[p] = view[p]
          /\ stage'[p] \in {"clear", "replace", "refetch", "upload"}
          /\ stage[p] = "clear" => stage'[p] \in {"clear", "refetch"}
      BY <2>9 DEF Deletes, Loses
    <3>2. QED
      BY <1>2, <2>2, <3>1
  <2>10. QED
    BY <1>2, <2>3, <2>4, <2>5, <2>6, <2>7, <2>8, <2>9, Zenon DEF Acts
<1>3. QED
  BY <1>0, <1>1, <1>2, Actions

(* Initially `had` is what the release holds. *)
LEMMA AloneInit == Init => AloneInv
<1> SUFFICES ASSUME Init, NEW p \in Publishers PROVE Unaltered(p)
  BY DEF AloneInv
<1>1. had = NamesIn(release.assets)
  <2>1. PICK names \in SUBSET Names, exists \in BOOLEAN :
          /\ release = [exists |-> exists, card |-> Earlier, assets |->
                 {[id |-> Numbered[n], name |-> n, by |-> Earlier] : n \in names}]
          /\ had = names
    BY DEF Init
  <2> DEFINE First(n) == [id |-> Numbered[n], name |-> n, by |-> Earlier]
  <2>2. release.assets = {First(n) : n \in names} /\ had = names
    BY <2>1
  <2>3. \A n \in names : First(n).name = n
    OBVIOUS
  <2> HIDE DEF First
  <2>4. QED
    BY <2>2, <2>3 DEF NamesIn
<1>2. stage[p] \in {"look", "absent"}
  BY DEF Init
<1>3. QED
  BY <1>1, <1>2 DEF Unaltered

(* What is missing under a fixed tag while one run publishes. *)
Missing(p) ==
    /\ NamesIn(release.assets) \subseteq had
    /\ stage[p] \in {"replace", "upload"} =>
           had \subseteq NamesIn(release.assets) \cup {Head(todo[p])}
    /\ stage[p] \notin {"replace", "upload", "failed"} => had = NamesIn(release.assets)
MissingInv == \A p \in Publishers : Present = {p} /\ ~rolling => Missing(p)

(* A run that has a fixed tag to itself answers for every missing file: it is *)
(* the one it is replacing, unless the run has failed.                       *)
LEMMA LoneLoses == PublisherInv => MissingInv
<1> SUFFICES ASSUME PublisherInv, ~rolling, NEW p \in Publishers, Present = {p} PROVE Missing(p)
  BY DEF MissingInv
<1>1. NamesIn(release.assets) \subseteq had
  BY DEF PublisherInv, Originated
<1>2. PICK g \in [Lost -> Present] : Blames(g, Lost, stage, todo)
  BY DEF PublisherInv, Blamed
<1>3. \A n \in Lost : g[n] = p
  OBVIOUS
<1>4. \A n \in Lost :
          stage[p] = "failed" \/ (stage[p] \in {"replace", "upload"} /\ Head(todo[p]) = n)
  BY <1>2, <1>3 DEF Blames
<1>5. \A n \in had : n \in Lost \/ n \in NamesIn(release.assets)
  BY DEF Lost
<1>6. QED
  BY <1>1, <1>4, <1>5 DEF Missing

(* Publication's state after a step, but for the card. *)
Becomes(p, step, files, names) ==
    StepOf(p)' = step /\ todo'[p] = files /\ NamesOf(p)' = names

(* What a failure may leave, as Publication has it. *)
LeftBy(p) ==
    CASE StepOf(p) = "clear" -> SUBSET NamesOf(p)
      [] StepOf(p) = "upload" ->
             {NamesOf(p), NamesOf(p) \ {Head(todo[p])}, NamesOf(p) \cup {Head(todo[p])}}
      [] OTHER -> {NamesOf(p)}

(* Publication's steps, said of a run of this module. *)
Publishes(p) ==
    \/ Becomes(p, StepOf(p), todo[p], NamesOf(p)) /\ SameCard
    \/ /\ StepOf(p) = "announce" /\ release'.card = p
       /\ Becomes(p, IF rolling THEN "clear" ELSE "upload", todo[p], NamesOf(p))
    \/ StepOf(p) = "clear" /\ Becomes(p, "upload", todo[p], {}) /\ SameCard
    \/ /\ StepOf(p) = "upload" /\ SameCard
       /\ Becomes(p, IF Tail(todo[p]) = <<>> THEN "done" ELSE "upload", Tail(todo[p]),
                  NamesOf(p) \cup {Head(todo[p])})
    \/ StepOf(p) = "announce" /\ Becomes(p, "announce", todo[p], NamesOf(p)) /\ release'.card = p
    \/ /\ StepOf(p) = "upload" /\ SameCard
       /\ Becomes(p, "upload", todo[p], NamesOf(p) \cup {Head(todo[p])})
    \/ /\ StepOf(p) \in {"announce", "clear", "upload"}
       /\ \E names \in LeftBy(p) : Becomes(p, "failed", FilesOf[p], names)
       /\ SameCard \/ (StepOf(p) = "announce" /\ release'.card = p)
    \/ StepOf(p) = "failed" /\ Becomes(p, "announce", todo[p], NamesOf(p)) /\ SameCard

(* Every action of a run that has the tag to itself is one of those steps. *)
LEMMA LonePublishes ==
    ASSUME PublisherInv, AloneInv, MissingInv, MissingInv', rolling' = rolling,
           NEW p \in Publishers, Present = {p}, Present' = {p}, Acts(p)
    PROVE  Publishes(p)
<1> DEFINE There == NamesIn(release.assets)
<1>0. Typed /\ Staged /\ Originated /\ Cleared /\ Unaltered(p)
  BY DEF PublisherInv, ShapeInv, AloneInv
<1>1. There \subseteq had
  BY <1>0 DEF Originated
<1>2. /\ Same => There' = There
      /\ \A i : Loses(p, i) => There' \subseteq There
      /\ Gains(p) => There' = There \cup {Head(todo[p])}
  BY NamesChange
<1>3. ~rolling => /\ There' \subseteq had'
                  /\ stage[p] \in {"replace", "upload"} => had \subseteq There \cup {Head(todo[p])}
                  /\ stage'[p] = "done" => had' = There'
  BY DEF MissingInv, Missing
<1> USE DEF Becomes, StepOf, NamesOf
<1>4. ASSUME Looks(p) PROVE Publishes(p)
  <2>1. Becomes(p, StepOf(p), todo[p], NamesOf(p)) /\ SameCard
    BY <1>4 DEF Looks, SameCard
  <2>2. QED
    BY <2>1 DEF Publishes
<1>5. ASSUME Clears(p) PROVE Publishes(p)
  <2>1. had' = had /\ had = There
    BY <1>0, <1>1, <1>2, <1>5 DEF Clears, Adds, Unaltered
  <2>2. /\ StepOf(p) = "announce" /\ release'.card = p /\ rolling
        /\ Becomes(p, "clear", todo[p], NamesOf(p))
    BY <1>5, <2>1 DEF Clears
  <2>3. QED
    BY <2>2 DEF Publishes
<1>6. ASSUME Starts(p) PROVE Publishes(p)
  <2>1. todo[p] # <<>> /\ Same
    BY <1>0, <1>6 DEF Starts, Staged, Stays
  <2>2. stage'[p] \in {"replace", "upload"} /\ todo'[p] = todo[p]
    BY <1>6, <2>1 DEF Starts, Began
  <2>3. CASE stage[p] = "announce"
    <3>1. ~rolling /\ release'.card = p /\ had' = had /\ had = There
      BY <1>0, <1>1, <1>2, <1>6, <2>1, <2>3 DEF Starts, Adds, Unaltered
    <3>2. StepOf(p) = "announce" /\ Becomes(p, "upload", todo[p], NamesOf(p))
      BY <2>2, <2>3, <3>1
    <3>3. QED
      BY <3>1, <3>2 DEF Publishes
  <2>4. CASE stage[p] = "refetch"
    <3>1. rolling
      BY <1>0, <2>4 DEF Staged, Stays
    <3>2. release.assets = {}
      BY <1>0, <2>4, <3>1 DEF Cleared
    <3>3. There' = {}
      BY <1>2, <2>1, <3>2 DEF NamesIn
    <3>4. StepOf(p) = "clear" /\ Becomes(p, "upload", todo[p], {}) /\ SameCard
      BY <1>6, <2>2, <2>4, <3>1, <3>3 DEF Starts
    <3>5. QED
      BY <3>4 DEF Publishes
  <2>5. QED
    BY <1>6, <2>3, <2>4 DEF Starts
<1>7. ASSUME Uploads(p) PROVE Publishes(p)
  <2>1. There' = There \cup {Head(todo[p])} /\ had' = had \cup {Head(todo[p])}
    BY <1>1, <1>2, <1>7 DEF Uploads, Adds
  <2>2. /\ stage[p] = "upload" /\ SameCard /\ todo'[p] = Tail(todo[p])
        /\ IF Tail(todo[p]) = <<>> THEN stage'[p] = "done" ELSE stage'[p] \in {"replace", "upload"}
    BY <1>7 DEF Uploads, Began
  <2>3. NamesOf(p)' = NamesOf(p) \cup {Head(todo[p])}
    BY <1>3, <2>1, <2>2
  <2>4. /\ StepOf(p) = "upload"
        /\ Becomes(p, IF Tail(todo[p]) = <<>> THEN "done" ELSE "upload", Tail(todo[p]),
                   NamesOf(p) \cup {Head(todo[p])})
    BY <2>2, <2>3
  <2>5. QED
    BY <2>2, <2>4 DEF Publishes
<1>8. ASSUME NEW i \in doomed[p], Deletes(p, i) PROVE Publishes(p)
  <2>1. had' = had
    BY <1>1, <1>2, <1>8 DEF Deletes, Adds
  <2>2. /\ todo'[p] = todo[p] /\ SameCard /\ stage[p] \in {"clear", "replace"}
        /\ stage[p] = "clear" => stage'[p] \in {"clear", "refetch"}
        /\ stage[p] = "replace" => stage'[p] \in {"replace", "upload"}
    BY <1>8 DEF Deletes, Loses
  <2>3. stage[p] = "replace" => ~rolling
    BY <1>0 DEF Unaltered
  <2>4. Becomes(p, StepOf(p), todo[p], NamesOf(p)) /\ SameCard
    BY <2>1, <2>2, <2>3
  <2>5. QED
    BY <2>4 DEF Publishes
<1>9. ASSUME Reruns(p) PROVE Publishes(p)
  <2>1. StepOf(p) = "failed" /\ Becomes(p, "announce", todo[p], NamesOf(p)) /\ SameCard
    BY <1>9 DEF Reruns, SameFiles, SameCard
  <2>2. QED
    BY <2>1 DEF Publishes
<1>10. ASSUME Unheard(p) \/ \E i : Heard(p, i) PROVE Publishes(p)
  <2> DEFINE h == Head(todo[p])
  <2>1. stage[p] \in Requesting /\ Fell(p)
    BY <1>10 DEF Unheard, Heard
  <2>2. had' = had \cup There' /\ (SameCard \/ (stage[p] = "announce" /\ release'.card = p))
    BY <1>1, <1>10 DEF Unheard, Heard, Adds, SameCard
  <2>3. /\ Same \/ (\E i : Loses(p, i)) \/ Gains(p)
        /\ Gains(p) => stage[p] = "upload"
        /\ (\E i : Loses(p, i)) => stage[p] \in {"clear", "replace"}
    BY <1>10, Zenon DEF Unheard, Heard, Same, Gains, Loses
  <2>4. CASE stage[p] \in {"look", "announce"}
    <3>1. There' = There
      BY <1>2, <2>3, <2>4
    <3>2. had' = had /\ NamesOf(p) = There /\ StepOf(p) = "announce"
      BY <1>1, <2>2, <2>4, <3>1
    <3>3. CASE stage'[p] = "failed" /\ todo'[p] = FilesOf[p]
      <4>1. There \in LeftBy(p) /\ Becomes(p, "failed", FilesOf[p], There)
        BY <3>1, <3>2, <3>3 DEF LeftBy
      <4>2. QED
        BY <2>2, <3>2, <4>1 DEF Publishes
    <3>4. CASE stage'[p] = stage[p] /\ todo'[p] = todo[p]
      <4>1. Becomes(p, "announce", todo[p], NamesOf(p))
        BY <2>4, <3>1, <3>2, <3>4
      <4>2. QED
        BY <2>2, <3>2, <4>1 DEF Publishes
    <3>5. QED
      BY <2>1, <3>3, <3>4 DEF Fell, SameFiles
  <2>5. CASE stage[p] \in {"clear", "refetch"}
    <3>1. There' \subseteq There
      BY <1>2, <2>3, <2>5
    <3>2. had' = had /\ NamesOf(p) = had /\ StepOf(p) = "clear" /\ SameCard
      BY <1>1, <2>2, <2>5, <3>1
    <3>3. CASE stage'[p] = "failed" /\ todo'[p] = FilesOf[p]
      <4>1. There' \in LeftBy(p) /\ Becomes(p, "failed", FilesOf[p], There')
        BY <1>1, <3>1, <3>2, <3>3 DEF LeftBy
      <4>2. QED
        BY <3>2, <4>1 DEF Publishes
    <3>4. CASE stage'[p] = stage[p] /\ todo'[p] = todo[p]
      <4>1. Becomes(p, StepOf(p), todo[p], NamesOf(p))
        BY <2>5, <3>2, <3>4
      <4>2. QED
        BY <3>2, <4>1 DEF Publishes
    <3>5. QED
      BY <2>1, <3>3, <3>4 DEF Fell, SameFiles
  <2>6. CASE stage[p] \in {"replace", "upload"}
    <3>1. StepOf(p) = "upload" /\ SameCard /\ NamesOf(p) = IF rolling THEN There ELSE had
      BY <2>2, <2>6
    <3>2. rolling => There' \in {There, There \cup {h}}
      BY <1>0, <1>2, <2>3, <2>6 DEF Unaltered
    <3>3. CASE stage'[p] = "failed" /\ todo'[p] = FilesOf[p]
      <4>1. ~rolling => There' \in {had, had \ {h}, had \cup {h}}
        <5> SUFFICES ASSUME ~rolling PROVE There' \in {had, had \ {h}, had \cup {h}}
          OBVIOUS
        <5>1. There' \subseteq had \cup {h}
          BY <1>1, <1>2, <2>3
        <5>2. had \subseteq There' \cup {h}
          <6>1. CASE Same \/ Gains(p)
            BY <1>2, <1>3, <2>6, <6>1
          <6>2. CASE \E i : Loses(p, i)
            <7>1. stage[p] = "replace" /\ stage[p] # "done" /\ (had' = had \/ Adds) /\ OriginInv
              BY <1>0, <2>2, <2>3, <2>6, <6>2 DEF OriginInv, PublisherInv, Adds
            <7>2. \A n \in Lost' \ Lost : n = h
              BY <6>2, <7>1, LostStep
            <7>3. had' = had
              BY <1>1, <1>2, <2>2, <6>2
            <7>4. QED
              BY <1>3, <2>6, <7>2, <7>3 DEF Lost
          <6>3. QED
            BY <2>3, <6>1, <6>2
        <5> HIDE DEF There, h
        <5>3. CASE h \in There' /\ h \in had
          <6>1. There' = had
            BY <5>1, <5>2, <5>3
          <6>2. QED
            BY <6>1
        <5>4. CASE h \in There' /\ h \notin had
          <6>1. There' = had \cup {h}
            BY <5>1, <5>2, <5>4
          <6>2. QED
            BY <6>1
        <5>5. CASE h \notin There'
          <6>1. There' = had \ {h}
            BY <5>1, <5>2, <5>5
          <6>2. QED
            BY <6>1
        <5>6. QED
          BY <5>3, <5>4, <5>5
      <4>2. There' \in LeftBy(p)
        BY <3>1, <3>2, <4>1 DEF LeftBy
      <4>3. Becomes(p, "failed", FilesOf[p], There')
        BY <3>3
      <4>4. QED
        BY <3>1, <4>2, <4>3 DEF Publishes
    <3>4. CASE stage'[p] = stage[p] /\ todo'[p] = todo[p]
      <4>1. StepOf(p)' = "upload" /\ NamesOf(p)' = IF rolling THEN There' ELSE had'
        BY <2>6, <3>4
      <4>2. NamesOf(p)' \in {NamesOf(p), NamesOf(p) \cup {h}}
        <5>1. CASE Gains(p)
          BY <1>1, <1>2, <2>2, <3>1, <4>1, <5>1
        <5>2. CASE ~Gains(p)
          BY <1>1, <1>2, <2>2, <2>3, <3>1, <3>2, <4>1, <5>2
        <5>3. QED
          BY <5>1, <5>2
      <4>3. QED
        BY <3>1, <3>4, <4>1, <4>2 DEF Publishes
    <3>5. QED
      BY <2>1, <3>3, <3>4 DEF Fell, SameFiles
  <2>7. QED
    BY <2>1, <2>4, <2>5, <2>6 DEF Requesting
<1>11. QED
  BY <1>4, <1>5, <1>6, <1>7, <1>8, <1>9, <1>10, Zenon DEF Acts

(* The release and the run a build starts from are where Publication starts. *)
LEMMA PublicationInit == Init => Published!Init
<1> SUFFICES ASSUME Init PROVE Published!Init
  OBVIOUS
<1>1. Present # {} /\ Present \subseteq Publishers
  BY DEF Init, Present
<1>2. Lone \in Present /\ Lone \in Publishers
  BY <1>1 DEF Lone
<1>3. stage[Lone] = "look"
  BY <1>2 DEF Init, Present
<1>4. FilesOf[Lone] \in Seq(Names) \ {<<>>} /\ Lone # Earlier
  BY <1>2, PublisherAssumption
<1>5. todo[Lone] = FilesOf[Lone] /\ rolling \in BOOLEAN /\ release.card = Earlier
  BY <1>2 DEF Init
<1>6. ShapeInv
  BY ShapeInit
<1>7. NamesOf(Lone) \in SUBSET Names /\ StepOf(Lone) = "announce"
  BY <1>3, <1>6, NamesOfAssets DEF ShapeInv, Typed, NamesOf, StepOf
<1>8. QED
  BY <1>3, <1>4, <1>5, <1>7 DEF Published!Init

(* Every step is a step of Publication or, of a run that has to share the tag *)
(* or that changes nothing Publication tells apart, a stutter.              *)
LEMMA PublicationStep ==
    PublisherInv /\ AloneInv /\ MissingInv /\ MissingInv' /\ [Next]_vars
        => [Published!Next]_Published!vars
<1> SUFFICES ASSUME PublisherInv, AloneInv, MissingInv, MissingInv', [Next]_vars
             PROVE  [Published!Next]_Published!vars
  OBVIOUS
<1>0. ShapeInv /\ Typed
  BY DEF PublisherInv, ShapeInv
<1>1. CASE UNCHANGED vars
  <2>1. stage' = stage /\ release' = release /\ rolling' = rolling /\ had' = had /\ todo' = todo
    BY <1>1 DEF vars, mine
  <2>2. Present' = Present
    BY <2>1 DEF Present
  <2>3. Lone' = Lone /\ (Alone <=> Alone')
    BY <2>2 DEF Lone, Alone
  <2>4. StepOf(Lone)' = StepOf(Lone) /\ NamesOf(Lone)' = NamesOf(Lone)
    BY <2>1, <2>3 DEF StepOf, NamesOf
  <2>5. QED
    BY <2>1, <2>3, <2>4 DEF Published!vars
<1>2. ASSUME NEW p \in Publishers, Typed', rolling' = rolling, Others(p), Acts(p)
      PROVE  [Published!Next]_Published!vars
  <2>1. Present' = Present /\ p \in Present
    BY <1>0, <1>2, PresentStays
  <2>2. Lone' = Lone /\ (Alone <=> Alone')
    BY <2>1 DEF Lone, Alone
  <2>3. CASE ~Alone
    BY <1>2, <2>2, <2>3 DEF Published!vars
  <2>4. CASE Alone
    <3>1. Lone = p /\ Present = {p} /\ Present' = {p}
      BY <2>1, <2>4 DEF Alone
    <3>2. Publishes(p)
      BY <1>2, <3>1, LonePublishes
    <3>3. Lone = p /\ Lone' = p /\ Alone /\ Alone' /\ rolling' = rolling
      BY <1>2, <2>2, <2>4, <3>1
    <3> HIDE DEF Lone, Alone
    <3> USE DEF Becomes, SameCard
    <3>4. CASE Becomes(p, StepOf(p), todo[p], NamesOf(p)) /\ SameCard
      BY <3>3, <3>4 DEF Published!vars
    <3>5. CASE /\ StepOf(p) = "announce" /\ release'.card = p
               /\ Becomes(p, IF rolling THEN "clear" ELSE "upload", todo[p], NamesOf(p))
      <4>1. Published!Announce
        BY <3>3, <3>5 DEF Published!Announce
      <4>2. QED
        BY <4>1 DEF Published!Next
    <3>6. CASE StepOf(p) = "clear" /\ Becomes(p, "upload", todo[p], {}) /\ SameCard
      <4>1. Published!Clear
        BY <3>3, <3>6 DEF Published!Clear
      <4>2. QED
        BY <4>1 DEF Published!Next
    <3>7. CASE /\ StepOf(p) = "upload" /\ SameCard
               /\ Becomes(p, IF Tail(todo[p]) = <<>> THEN "done" ELSE "upload", Tail(todo[p]),
                          NamesOf(p) \cup {Head(todo[p])})
      <4>1. Published!Upload
        BY <3>3, <3>7 DEF Published!Upload
      <4>2. QED
        BY <4>1 DEF Published!Next
    <3>8. CASE /\ StepOf(p) = "announce" /\ Becomes(p, "announce", todo[p], NamesOf(p))
               /\ release'.card = p
      <4>1. Published!Unheard
        BY <3>3, <3>8 DEF Published!Unheard
      <4>2. QED
        BY <4>1 DEF Published!Next
    <3>9. CASE /\ StepOf(p) = "upload" /\ SameCard
               /\ Becomes(p, "upload", todo[p], NamesOf(p) \cup {Head(todo[p])})
      <4>1. Published!Unheard
        BY <3>3, <3>9 DEF Published!Unheard
      <4>2. QED
        BY <4>1 DEF Published!Next
    <3>10. CASE /\ StepOf(p) \in {"announce", "clear", "upload"}
                /\ \E names \in LeftBy(p) : Becomes(p, "failed", FilesOf[p], names)
                /\ SameCard \/ (StepOf(p) = "announce" /\ release'.card = p)
      <4>1. PICK names \in LeftBy(p) : Becomes(p, "failed", FilesOf[p], names)
        BY <3>10
      <4>2. Published!Left = LeftBy(p)
        BY <3>3 DEF Published!Left, LeftBy
      <4>3. Published!Fail
        BY <3>3, <3>10, <4>1, <4>2 DEF Published!Fail
      <4>4. QED
        BY <4>3 DEF Published!Next
    <3>11. CASE StepOf(p) = "failed" /\ Becomes(p, "announce", todo[p], NamesOf(p)) /\ SameCard
      <4>1. Published!Rerun
        BY <3>3, <3>11 DEF Published!Rerun
      <4>2. QED
        BY <4>1 DEF Published!Next
    <3>12. QED
      BY <3>2, <3>4, <3>5, <3>6, <3>7, <3>8, <3>9, <3>10, <3>11, Zenon DEF Publishes
  <2>5. QED
    BY <2>3, <2>4
<1>3. QED
  BY <1>0, <1>1, <1>2, Actions

(* A run that has its tag to itself publishes as Publication says: the body  *)
(* names its build, a rolling tag is cleared, every file is uploaded in its   *)
(* order, and a failure leaves at most the file in hand missing, however many *)
(* files there are and whatever the release held (publish-github-release.ps1  *)
(* from its release lookup to the end).                                       *)
THEOREM LoneRunPublishes == Spec => ImplementsPublication
<1>1. Spec => [](PublisherInv /\ AloneInv)
  BY PublisherAlways, AloneInit, AloneStep, PTL DEF Spec
<1>2. PublisherInv => MissingInv
  BY LoneLoses
<1>3. QED
  BY <1>1, <1>2, PublicationInit, PublicationStep, PTL
     DEF Spec, ImplementsPublication, Published!Spec

-----------------------------------------------------------------------------
(***************************************************************************)
(* The checks a release has passed (ReleaseProbe).                         *)
(***************************************************************************)
(* TypeOK in two parts: what is true or false, and everything else. *)
Flags ==
    /\ elevated \in BOOLEAN /\ smoke \in {NoReport} \cup BOOLEAN
    /\ report \in BOOLEAN /\ failure \in BOOLEAN /\ server \in BOOLEAN
    /\ due \in BOOLEAN /\ stuck \in BOOLEAN
Plain ==
    /\ mode \in Modes /\ enabled \subseteq Commands /\ defects \subseteq AllDefects
    /\ pc \in Phases /\ tries \subseteq Commands /\ daemon \in {"none", "state", "running"}
    /\ root \in {"none", "present", "removed"} /\ terminal \in {"none", "alive", "gone"}
    /\ answered \in {"nothing", "output", "answer"}

Lifecycle == {"stopfirst", "start", "check", "stop"}
Interactive == {"fixture", "refused", "untouched", "launch", "watch", "verify", "exit",
                "interrupt", "kill", "shut", "remove", "write"}

(* The two programs run in the modes they are made for; the fixture has    *)
(* the first report, and its own report ends it.                           *)
Stages ==
    /\ mode = "no_daemon" => pc \notin Lifecycle
    /\ mode # "no_daemon" => pc \notin {"disabled", "clean"} \cup Interactive
    /\ pc \in Interactive => report
    /\ smoke = TRUE => pc = "passed" /\ ~failure

(* A daemon of the disposable home runs only between start and stop. *)
Running == mode # "no_daemon" /\ daemon = "running" => pc \in {"check", "stop"} \/ stuck

(* What the first pass over the daemon commands found out. *)
Tried ==
    /\ pc \in {"token", "package"} => tries = Commands
    /\ pc = "disabled" => enabled \subseteq tries
    /\ pc = "disabled" /\ "leaves_state" \in defects /\ tries # Commands => daemon # "none"
    /\ pc = "clean" => enabled = {} /\ ("leaves_state" \in defects => daemon # "none")
    /\ mode = "no_daemon" /\ pc \in {"report", "passed"} \cup Interactive =>
           enabled = {} /\ "leaves_state" \notin defects

(* What is settled at each stage of the fixture as long as nothing failed. *)
Shown ==
    /\ pc \in {"watch", "verify"} =>
           terminal # "none" /\ ("auto_start" \in defects => daemon = "running")
    /\ pc \in {"exit", "interrupt", "kill", "shut", "remove", "write"} /\ ~failure =>
           /\ terminal # "none" /\ "auto_start" \notin defects /\ daemon = "none"
           /\ pc \in {"shut", "remove", "write"} => terminal = "gone"
    /\ pc \in {"remove", "write"} => ~server
    /\ pc = "write" /\ ~failure => root = "removed"
    /\ smoke = TRUE => ReportsMeanDaemonFree

ProbeInv == Flags /\ Plain /\ Stages /\ Running /\ Tried /\ Shown
-----------------------------------------------------------------------------
LEMMA ProbeInit == ChecksInit => ProbeInv
<1> SUFFICES ASSUME ChecksInit PROVE ProbeInv
  OBVIOUS
<1>1. Flags
  BY ZenonT(30) DEF ChecksInit, Flags
<1>2. Plain
  BY DEF ChecksInit, Plain, Modes, AllDefects, Phases
<1>3. Stages /\ Running /\ Tried /\ Shown
  BY ProbeAssumption DEF ChecksInit, Stages, Running, Tried, Shown, ReportsMeanDaemonFree, Lifecycle,
     Interactive
<1>4. QED
  BY <1>1, <1>2, <1>3 DEF ProbeInv

LEMMA FlagsStep == ProbeInv /\ [ChecksNext]_checks => Flags'
<1> SUFFICES ASSUME ProbeInv, [ChecksNext]_checks PROVE Flags'
  OBVIOUS
<1>0. Flags
  BY DEF ProbeInv
<1> USE DEF checks, build, fixture, Go, Fails, Flags
<1>1. CASE Token
  BY <1>0, <1>1, Zenon DEF Token
<1>2. CASE Package
  BY <1>0, <1>2, Zenon DEF Package
<1>3. CASE Tries("disabled", "clean", "failed")
  BY <1>0, <1>3, Zenon DEF Tries
<1>4. CASE Untouched("clean", "report", "failed")
  BY <1>0, <1>4, Zenon DEF Untouched, NoState
<1>5. CASE Tries("refused", "untouched", "exit")
  BY <1>0, <1>5, Zenon DEF Tries
<1>6. CASE Untouched("untouched", "launch", "exit")
  BY <1>0, <1>6, Zenon DEF Untouched, NoState
<1>7. CASE StopFirst
  BY <1>0, <1>7, Zenon DEF StopFirst
<1>8. CASE StartDaemon
  BY <1>0, <1>8, Zenon DEF StartDaemon, Raises
<1>9. CASE CheckDaemon
  BY <1>0, <1>9, Zenon DEF CheckDaemon
<1>10. CASE StopDaemon
  BY <1>0, <1>10, Zenon DEF StopDaemon
<1>11. CASE Report
  BY <1>0, <1>11, Zenon DEF Report
<1>12. CASE MakeFixture
  BY <1>0, <1>12, Zenon DEF MakeFixture
<1>13. CASE Launch
  BY <1>0, <1>13, Zenon DEF Launch
<1>14. CASE Reads
  BY <1>0, <1>14, Zenon DEF Reads, OutOfTime
<1>15. CASE Silent
  BY <1>0, <1>15, Zenon DEF Silent
<1>16. CASE Untouched("verify", "exit", "exit")
  BY <1>0, <1>16, Zenon DEF Untouched, NoState
<1>17. CASE Escalates("exit", "interrupt")
  BY <1>0, <1>17, Zenon DEF Escalates
<1>18. CASE Escalates("interrupt", "kill")
  BY <1>0, <1>18, Zenon DEF Escalates
<1>19. CASE Kills
  BY <1>0, <1>19, Zenon DEF Kills
<1>20. CASE Shut
  BY <1>0, <1>20, Zenon DEF Shut
<1>21. CASE Remove
  BY <1>0, <1>21, Zenon DEF Remove, InUse
<1>22. CASE Write
  BY <1>0, <1>22, Zenon DEF Write
<1>23. CASE Shows
  BY <1>0, <1>23, Zenon DEF Shows
<1>24. CASE Leaves
  BY <1>0, <1>24, Zenon DEF Leaves
<1>25. CASE Tick
  BY <1>0, <1>25, Zenon DEF Tick
<1>26. CASE UNCHANGED checks
  BY <1>0, <1>26, Zenon
<1>27. QED
  BY <1>1, <1>2, <1>3, <1>4, <1>5, <1>6, <1>7, <1>8, <1>9, <1>10, <1>11, <1>12, <1>13, <1>14,
     <1>15, <1>16, <1>17, <1>18, <1>19, <1>20, <1>21, <1>22, <1>23, <1>24, <1>25, <1>26 DEF ChecksNext,
     Probe, Fixture, Disabled

LEMMA PlainStep == ProbeInv /\ [ChecksNext]_checks => Plain'
<1> SUFFICES ASSUME ProbeInv, [ChecksNext]_checks PROVE Plain'
  OBVIOUS
<1>0. Plain
  BY DEF ProbeInv
<1> USE DEF checks, build, fixture, Go, Fails, Phases, Plain, Modes, AllDefects
<1>1. CASE Token
  BY <1>0, <1>1 DEF Token
<1>2. CASE Package
  BY <1>0, <1>2 DEF Package
<1>3. CASE Tries("disabled", "clean", "failed")
  BY <1>0, <1>3 DEF Tries
<1>4. CASE Untouched("clean", "report", "failed")
  BY <1>0, <1>4 DEF Untouched, NoState
<1>5. CASE Tries("refused", "untouched", "exit")
  BY <1>0, <1>5 DEF Tries
<1>6. CASE Untouched("untouched", "launch", "exit")
  BY <1>0, <1>6 DEF Untouched, NoState
<1>7. CASE StopFirst
  BY <1>0, <1>7 DEF StopFirst
<1>8. CASE StartDaemon
  BY <1>0, <1>8 DEF StartDaemon, Raises
<1>9. CASE CheckDaemon
  BY <1>0, <1>9 DEF CheckDaemon
<1>10. CASE StopDaemon
  BY <1>0, <1>10 DEF StopDaemon
<1>11. CASE Report
  BY <1>0, <1>11 DEF Report
<1>12. CASE MakeFixture
  BY <1>0, <1>12 DEF MakeFixture
<1>13. CASE Launch
  BY <1>0, <1>13 DEF Launch
<1>14. CASE Reads
  BY <1>0, <1>14 DEF Reads, OutOfTime
<1>15. CASE Silent
  BY <1>0, <1>15 DEF Silent
<1>16. CASE Untouched("verify", "exit", "exit")
  BY <1>0, <1>16 DEF Untouched, NoState
<1>17. CASE Escalates("exit", "interrupt")
  BY <1>0, <1>17 DEF Escalates
<1>18. CASE Escalates("interrupt", "kill")
  BY <1>0, <1>18 DEF Escalates
<1>19. CASE Kills
  BY <1>0, <1>19 DEF Kills
<1>20. CASE Shut
  BY <1>0, <1>20 DEF Shut
<1>21. CASE Remove
  BY <1>0, <1>21 DEF Remove, InUse
<1>22. CASE Write
  BY <1>0, <1>22 DEF Write
<1>23. CASE Shows
  BY <1>0, <1>23 DEF Shows
<1>24. CASE Leaves
  BY <1>0, <1>24 DEF Leaves
<1>25. CASE Tick
  BY <1>0, <1>25 DEF Tick
<1>26. CASE UNCHANGED checks
  BY <1>0, <1>26
<1>27. QED
  BY <1>1, <1>2, <1>3, <1>4, <1>5, <1>6, <1>7, <1>8, <1>9, <1>10, <1>11, <1>12, <1>13, <1>14,
     <1>15, <1>16, <1>17, <1>18, <1>19, <1>20, <1>21, <1>22, <1>23, <1>24, <1>25, <1>26 DEF ChecksNext,
     Probe, Fixture, Disabled

LEMMA StagesStep == ProbeInv /\ [ChecksNext]_checks => Stages'
<1> SUFFICES ASSUME ProbeInv, [ChecksNext]_checks PROVE Stages'
  OBVIOUS
<1>0. Plain /\ Stages
  BY DEF ProbeInv
<1> USE DEF checks, build, fixture, Go, Fails, Phases, Lifecycle, Interactive, Plain, Modes, Stages
<1>1. CASE Token
  BY <1>0, <1>1 DEF Token
<1>2. CASE Package
  BY <1>0, <1>2 DEF Package
<1>3. CASE Tries("disabled", "clean", "failed")
  BY <1>0, <1>3 DEF Tries
<1>4. CASE Untouched("clean", "report", "failed")
  BY <1>0, <1>4 DEF Untouched, NoState
<1>5. CASE Tries("refused", "untouched", "exit")
  BY <1>0, <1>5 DEF Tries
<1>6. CASE Untouched("untouched", "launch", "exit")
  BY <1>0, <1>6 DEF Untouched, NoState
<1>7. CASE StopFirst
  BY <1>0, <1>7 DEF StopFirst
<1>8. CASE StartDaemon
  BY <1>0, <1>8 DEF StartDaemon, Raises
<1>9. CASE CheckDaemon
  BY <1>0, <1>9 DEF CheckDaemon
<1>10. CASE StopDaemon
  BY <1>0, <1>10 DEF StopDaemon
<1>11. CASE Report
  BY <1>0, <1>11 DEF Report
<1>12. CASE MakeFixture
  BY <1>0, <1>12 DEF MakeFixture
<1>13. CASE Launch
  BY <1>0, <1>13 DEF Launch
<1>14. CASE Reads
  BY <1>0, <1>14 DEF Reads, OutOfTime
<1>15. CASE Silent
  BY <1>0, <1>15 DEF Silent
<1>16. CASE Untouched("verify", "exit", "exit")
  BY <1>0, <1>16 DEF Untouched, NoState
<1>17. CASE Escalates("exit", "interrupt")
  BY <1>0, <1>17 DEF Escalates
<1>18. CASE Escalates("interrupt", "kill")
  BY <1>0, <1>18 DEF Escalates
<1>19. CASE Kills
  BY <1>0, <1>19 DEF Kills
<1>20. CASE Shut
  BY <1>0, <1>20 DEF Shut
<1>21. CASE Remove
  BY <1>0, <1>21 DEF Remove, InUse
<1>22. CASE Write
  BY <1>0, <1>22 DEF Write
<1>23. CASE Shows
  BY <1>0, <1>23 DEF Shows
<1>24. CASE Leaves
  BY <1>0, <1>24 DEF Leaves
<1>25. CASE Tick
  BY <1>0, <1>25 DEF Tick
<1>26. CASE UNCHANGED checks
  BY <1>0, <1>26
<1>27. QED
  BY <1>1, <1>2, <1>3, <1>4, <1>5, <1>6, <1>7, <1>8, <1>9, <1>10, <1>11, <1>12, <1>13, <1>14,
     <1>15, <1>16, <1>17, <1>18, <1>19, <1>20, <1>21, <1>22, <1>23, <1>24, <1>25, <1>26 DEF ChecksNext,
     Probe, Fixture, Disabled

LEMMA RunningStep == ProbeInv /\ [ChecksNext]_checks => Running'
<1> SUFFICES ASSUME ProbeInv, [ChecksNext]_checks PROVE Running'
  OBVIOUS
<1>0. Plain /\ Stages /\ Running
  BY DEF ProbeInv
<1> USE DEF checks, build, fixture, Go, Fails, Phases, Lifecycle, Interactive, Plain, Modes,
            Stages, Running
<1>1. CASE Token
  BY <1>0, <1>1 DEF Token
<1>2. CASE Package
  BY <1>0, <1>2 DEF Package
<1>3. CASE Tries("disabled", "clean", "failed")
  BY <1>0, <1>3 DEF Tries
<1>4. CASE Untouched("clean", "report", "failed")
  BY <1>0, <1>4 DEF Untouched, NoState
<1>5. CASE Tries("refused", "untouched", "exit")
  BY <1>0, <1>5 DEF Tries
<1>6. CASE Untouched("untouched", "launch", "exit")
  BY <1>0, <1>6 DEF Untouched, NoState
<1>7. CASE StopFirst
  BY <1>0, <1>7 DEF StopFirst
<1>8. CASE StartDaemon
  BY <1>0, <1>8 DEF StartDaemon, Raises
<1>9. CASE CheckDaemon
  BY <1>0, <1>9 DEF CheckDaemon
<1>10. CASE StopDaemon
  BY <1>0, <1>10 DEF StopDaemon
<1>11. CASE Report
  BY <1>0, <1>11 DEF Report
<1>12. CASE MakeFixture
  BY <1>0, <1>12 DEF MakeFixture
<1>13. CASE Launch
  BY <1>0, <1>13 DEF Launch
<1>14. CASE Reads
  BY <1>0, <1>14 DEF Reads, OutOfTime
<1>15. CASE Silent
  BY <1>0, <1>15 DEF Silent
<1>16. CASE Untouched("verify", "exit", "exit")
  BY <1>0, <1>16 DEF Untouched, NoState
<1>17. CASE Escalates("exit", "interrupt")
  BY <1>0, <1>17 DEF Escalates
<1>18. CASE Escalates("interrupt", "kill")
  BY <1>0, <1>18 DEF Escalates
<1>19. CASE Kills
  BY <1>0, <1>19 DEF Kills
<1>20. CASE Shut
  BY <1>0, <1>20 DEF Shut
<1>21. CASE Remove
  BY <1>0, <1>21 DEF Remove, InUse
<1>22. CASE Write
  BY <1>0, <1>22 DEF Write
<1>23. CASE Shows
  BY <1>0, <1>23 DEF Shows
<1>24. CASE Leaves
  BY <1>0, <1>24 DEF Leaves
<1>25. CASE Tick
  BY <1>0, <1>25 DEF Tick
<1>26. CASE UNCHANGED checks
  BY <1>0, <1>26
<1>27. QED
  BY <1>1, <1>2, <1>3, <1>4, <1>5, <1>6, <1>7, <1>8, <1>9, <1>10, <1>11, <1>12, <1>13, <1>14,
     <1>15, <1>16, <1>17, <1>18, <1>19, <1>20, <1>21, <1>22, <1>23, <1>24, <1>25, <1>26 DEF ChecksNext,
     Probe, Fixture, Disabled

LEMMA TriedStep == ProbeInv /\ [ChecksNext]_checks => Tried'
<1> SUFFICES ASSUME ProbeInv, [ChecksNext]_checks PROVE Tried'
  OBVIOUS
<1>0. ProbeAssumption /\ Plain /\ Stages /\ Tried
  BY ProbeAssumption DEF ProbeInv
<1> USE DEF checks, build, fixture, Go, Fails, Phases, Lifecycle, Interactive, ProbeAssumption,
            Plain, Modes, AllDefects, Stages, Tried
<1>1. CASE Token
  BY <1>0, <1>1 DEF Token
<1>2. CASE Package
  BY <1>0, <1>2 DEF Package
<1>3. CASE Tries("disabled", "clean", "failed")
  BY <1>0, <1>3 DEF Tries
<1>4. CASE Untouched("clean", "report", "failed")
  BY <1>0, <1>4 DEF Untouched, NoState
<1>5. CASE Tries("refused", "untouched", "exit")
  BY <1>0, <1>5 DEF Tries
<1>6. CASE Untouched("untouched", "launch", "exit")
  BY <1>0, <1>6 DEF Untouched, NoState
<1>7. CASE StopFirst
  BY <1>0, <1>7 DEF StopFirst
<1>8. CASE StartDaemon
  BY <1>0, <1>8 DEF StartDaemon, Raises
<1>9. CASE CheckDaemon
  BY <1>0, <1>9 DEF CheckDaemon
<1>10. CASE StopDaemon
  BY <1>0, <1>10 DEF StopDaemon
<1>11. CASE Report
  BY <1>0, <1>11 DEF Report
<1>12. CASE MakeFixture
  BY <1>0, <1>12 DEF MakeFixture
<1>13. CASE Launch
  BY <1>0, <1>13 DEF Launch
<1>14. CASE Reads
  BY <1>0, <1>14 DEF Reads, OutOfTime
<1>15. CASE Silent
  BY <1>0, <1>15 DEF Silent
<1>16. CASE Untouched("verify", "exit", "exit")
  BY <1>0, <1>16 DEF Untouched, NoState
<1>17. CASE Escalates("exit", "interrupt")
  BY <1>0, <1>17 DEF Escalates
<1>18. CASE Escalates("interrupt", "kill")
  BY <1>0, <1>18 DEF Escalates
<1>19. CASE Kills
  BY <1>0, <1>19 DEF Kills
<1>20. CASE Shut
  BY <1>0, <1>20 DEF Shut
<1>21. CASE Remove
  BY <1>0, <1>21 DEF Remove, InUse
<1>22. CASE Write
  BY <1>0, <1>22 DEF Write
<1>23. CASE Shows
  BY <1>0, <1>23 DEF Shows
<1>24. CASE Leaves
  BY <1>0, <1>24 DEF Leaves
<1>25. CASE Tick
  BY <1>0, <1>25 DEF Tick
<1>26. CASE UNCHANGED checks
  BY <1>0, <1>26
<1>27. QED
  BY <1>1, <1>2, <1>3, <1>4, <1>5, <1>6, <1>7, <1>8, <1>9, <1>10, <1>11, <1>12, <1>13, <1>14,
     <1>15, <1>16, <1>17, <1>18, <1>19, <1>20, <1>21, <1>22, <1>23, <1>24, <1>25, <1>26 DEF ChecksNext,
     Probe, Fixture, Disabled

LEMMA ShownStep == ProbeInv /\ [ChecksNext]_checks => Shown'
<1> SUFFICES ASSUME ProbeInv, [ChecksNext]_checks PROVE Shown'
  OBVIOUS
<1>0. Plain /\ Stages /\ Tried /\ Shown
  BY DEF ProbeInv
<1> USE DEF checks, build, fixture, Go, Fails, Phases, Lifecycle, Interactive, Plain, Modes,
            AllDefects, Stages, Tried, Shown, ReportsMeanDaemonFree
<1>1. CASE Token
  BY <1>0, <1>1 DEF Token
<1>2. CASE Package
  BY <1>0, <1>2 DEF Package
<1>3. CASE Tries("disabled", "clean", "failed")
  BY <1>0, <1>3 DEF Tries
<1>4. CASE Untouched("clean", "report", "failed")
  BY <1>0, <1>4 DEF Untouched, NoState
<1>5. CASE Tries("refused", "untouched", "exit")
  BY <1>0, <1>5 DEF Tries
<1>6. CASE Untouched("untouched", "launch", "exit")
  BY <1>0, <1>6 DEF Untouched, NoState
<1>7. CASE StopFirst
  BY <1>0, <1>7 DEF StopFirst
<1>8. CASE StartDaemon
  BY <1>0, <1>8 DEF StartDaemon, Raises
<1>9. CASE CheckDaemon
  BY <1>0, <1>9 DEF CheckDaemon
<1>10. CASE StopDaemon
  BY <1>0, <1>10 DEF StopDaemon
<1>11. CASE Report
  BY <1>0, <1>11 DEF Report
<1>12. CASE MakeFixture
  BY <1>0, <1>12 DEF MakeFixture
<1>13. CASE Launch
  BY <1>0, <1>13 DEF Launch
<1>14. CASE Reads
  BY <1>0, <1>14 DEF Reads, OutOfTime
<1>15. CASE Silent
  BY <1>0, <1>15 DEF Silent
<1>16. CASE Untouched("verify", "exit", "exit")
  BY <1>0, <1>16 DEF Untouched, NoState
<1>17. CASE Escalates("exit", "interrupt")
  BY <1>0, <1>17 DEF Escalates
<1>18. CASE Escalates("interrupt", "kill")
  BY <1>0, <1>18 DEF Escalates
<1>19. CASE Kills
  BY <1>0, <1>19 DEF Kills
<1>20. CASE Shut
  BY <1>0, <1>20 DEF Shut
<1>21. CASE Remove
  BY <1>0, <1>21 DEF Remove, InUse
<1>22. CASE Write
  BY <1>0, <1>22 DEF Write
<1>23. CASE Shows
  BY <1>0, <1>23 DEF Shows
<1>24. CASE Leaves
  BY <1>0, <1>24 DEF Leaves
<1>25. CASE Tick
  BY <1>0, <1>25 DEF Tick
<1>26. CASE UNCHANGED checks
  BY <1>0, <1>26
<1>27. QED
  BY <1>1, <1>2, <1>3, <1>4, <1>5, <1>6, <1>7, <1>8, <1>9, <1>10, <1>11, <1>12, <1>13, <1>14,
     <1>15, <1>16, <1>17, <1>18, <1>19, <1>20, <1>21, <1>22, <1>23, <1>24, <1>25, <1>26 DEF ChecksNext,
     Probe, Fixture, Disabled

(* Every reachable state satisfies the invariant. *)
THEOREM ProbeAlways == Checks => []ProbeInv
<1>1. ProbeInv /\ [ChecksNext]_checks => ProbeInv'
  BY FlagsStep, PlainStep, StagesStep, RunningStep, TriedStep, ShownStep DEF ProbeInv
<1>2. QED
  BY ProbeInit, <1>1, PTL DEF Checks

(* A report that says "ok" is one of a daemon-free build, of checks that   *)
(* left nothing behind: SoundReports, whatever the daemon commands are.    *)
THEOREM ReportSafety == Checks => []SoundReports
<1>1. ProbeInv => SoundReports
  <2> SUFFICES ASSUME ProbeInv PROVE SoundReports
    OBVIOUS
  <2>1. ChecksTypeOK
    BY ZenonT(30) DEF ProbeInv, Flags, Plain, ChecksTypeOK
  <2>2. ReportsMeanDaemonFree
    BY DEF ProbeInv, Shown, ReportsMeanDaemonFree
  <2>3. QED
    BY <2>1, <2>2 DEF SoundReports
<1>2. QED
  BY <1>1, ProbeAlways, PTL

(* The isolated daemon check stops the daemon it started, wherever it      *)
(* fails (the finally block of check_isolated_daemon).                     *)
THEOREM DaemonStops == Checks => []DaemonIsStopped
<1>1. ProbeInv => DaemonIsStopped
  BY DEF ProbeInv, Running, DaemonIsStopped
<1>2. QED
  BY <1>1, ProbeAlways, PTL
=============================================================================
