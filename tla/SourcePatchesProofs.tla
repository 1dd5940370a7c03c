------------------------- MODULE SourcePatchesProofs -------------------------
(***************************************************************************)
(* Proofs about the patch phase, for any targets, tools, files and number  *)
(* of faults.                                                              *)
(***************************************************************************)
EXTENDS SourcePatches, TLAPS

(* The parts of a content that the properties are about. *)
Marks(c) == IF c = Absent THEN {} ELSE c.marks
Edits(c) == IF c = Absent THEN 0 ELSE c.edits
Whole(c) == c = Absent \/ c.torn = FALSE
Alike(c, d) == (c = Absent <=> d = Absent) /\ Marks(c) = Marks(d)

Working == {"read", "plan", "check", "write"}
Held == Working \cup {"rollback"}

(* TypeOK but for "broken", and no file has more edits than there were faults. *)
Contents == Content \cup {Absent}
Plain ==
    /\ target \in Targets /\ pc \in Phases /\ at \in 1..Len(Tools)
    /\ disk \in [Files -> Contents] /\ before \in [Files -> Contents]
    /\ DOMAIN snapshot \subseteq Inputs /\ \A f \in DOMAIN snapshot : snapshot[f] \in Contents
    /\ checked \subseteq DOMAIN snapshot /\ changes \subseteq Inputs /\ written \subseteq changes
    /\ faults \in 0..MaxFaults /\ edits \in [Files -> 0..MaxFaults] /\ exposed \subseteq Files
Bounded ==
    /\ \A f \in Files : Edits(disk[f]) <= faults /\ edits[f] <= faults
    /\ \A f \in DOMAIN snapshot : Edits(snapshot[f]) <= faults

(* How far the tool at work has come. *)
Stages ==
    /\ pc \in {"read", "plan", "check"} => written = {}
    /\ pc \in {"plan", "check", "write", "rollback"} => DOMAIN snapshot = Inputs
    /\ pc \in {"check", "write"} => changes = ToChange
    /\ Tool \in Rechecking /\ (pc \in {"write", "rollback"} \/ written # {}) => checked = Inputs
    /\ pc = "built" => at = Len(Tools)

(* What was read is, but for outside edits, what was there when the tool   *)
(* began; and so is every file it did not write yet, or restored.          *)
ReadRight ==
    pc \in Held => \A f \in DOMAIN snapshot : Alike(snapshot[f], before[f]) /\ Whole(snapshot[f])
WroteRight ==
    /\ pc \in Working => \A f \in Files : Whole(disk[f]) /\
           IF f \in written THEN disk[f] # Absent /\ Marks(disk[f]) = Marks(before[f]) \cup {Tool}
           ELSE Alike(disk[f], before[f])
    /\ pc = "rollback" => \A f \in Files \ written : Alike(disk[f], before[f]) /\ Whole(disk[f])
    /\ pc = "failed" /\ ~broken => \A f \in Files : Alike(disk[f], before[f]) /\ Whole(disk[f])

(* A tool begins where the tools before it, or an earlier run of its own,  *)
(* left off.                                                               *)
Earlier(f, n) == {Tools[i] : i \in {j \in 1..n : f \in EditsOf[Tools[j]]}}
PatchedBy(tree, n) == \A f \in Files :
    /\ Marks(tree[f]) = Earlier(f, n)
    /\ tree[f] = Absent => f \in Created
Begins == pc \in Working => PatchedBy(before, at - 1) \/ PatchedBy(before, at)
Ends == pc = "built" => PatchedBy(disk, at) /\ \A f \in Files : Whole(disk[f])

(* Edits that a tool will not look for again are in what it read. *)
Seen(f) == IF Tool \in Rechecking THEN f \in checked ELSE f \in DOMAIN snapshot
SeenRight ==
    /\ pc \in Held => \A f \in DOMAIN snapshot : Seen(f) /\ f \notin exposed => Edits(snapshot[f]) = edits[f]
    /\ pc \in Working => \A f \in Files : disk[f] = Absent => edits[f] = 0
    /\ \A f \in Files \ exposed : disk[f] # Absent => Edits(disk[f]) = edits[f]

PatchInv == Plain /\ Bounded /\ Stages /\ ReadRight /\ WroteRight /\ Begins /\ Ends /\ SeenRight
-----------------------------------------------------------------------------
(* Facts about contents. *)
LEMMA TargetFacts ==
    ASSUME Plain
    PROVE  /\ Tools \in Seq(ToolNames) /\ Len(Tools) \in Nat /\ Len(Tools) # 0
           /\ Tool \in AllTools /\ AllTools \subseteq ToolNames /\ Inputs \subseteq Files
           /\ \A i \in 1..Len(Tools) : Tools[i] \in AllTools
<1>1. Tools \in Seq(ToolNames) /\ Tools # <<>>
  BY PatchesAssumption DEF Plain, Tools
<1>2. Len(Tools) \in Nat /\ Len(Tools) # 0 /\ \A i \in 1..Len(Tools) : Tools[i] \in ToolNames
  BY <1>1
<1>3. Tool \in AllTools /\ AllTools \subseteq ToolNames
  BY <1>2 DEF Plain, Tool, AllTools
<1>4. Inputs \subseteq Files
  BY <1>3, PatchesAssumption DEF Inputs
<1>5. QED
  BY <1>1, <1>2, <1>3, <1>4 DEF AllTools

LEMMA ContentFacts ==
    ASSUME Plain, NEW c \in Content
    PROVE  /\ c # Absent /\ Marks(c) = c.marks /\ Edits(c) = c.edits /\ (Whole(c) <=> c.torn = FALSE)
           /\ c.marks \subseteq AllTools /\ c.edits \in 0..MaxFaults
<1>1. c \in [marks : SUBSET ToolNames, edits : 0..MaxFaults, torn : BOOLEAN]
  BY TargetFacts DEF Content
<1>2. c # Absent
  BY <1>1, PatchesAssumption
<1>3. c.marks \subseteq AllTools /\ c.edits \in 0..MaxFaults
  BY DEF Content
<1>4. QED
  BY <1>2, <1>3 DEF Marks, Edits, Whole

LEMMA FaultsType == MaxFaults \in Nat
  BY PatchesAssumption

LEMMA EditsType == ASSUME Plain, NEW c \in Contents PROVE Edits(c) \in 0..MaxFaults
<1>1. CASE c = Absent
  BY <1>1, FaultsType DEF Edits
<1>2. CASE c \in Content
  BY <1>2, ContentFacts
<1>3. QED
  BY <1>1, <1>2 DEF Contents

LEMMA TornFacts ==
    ASSUME Plain, NEW c \in Content, NEW d, d = [c EXCEPT !.torn = TRUE]
    PROVE  d \in Content /\ Marks(d) = Marks(c) /\ Edits(d) = Edits(c)
<1>1. d \in Content /\ d.marks = c.marks /\ d.edits = c.edits
  BY DEF Content
<1>2. QED
  BY <1>1, ContentFacts

LEMMA EditedFacts ==
    ASSUME Plain, NEW c \in Content, c.edits + 1 <= MaxFaults, NEW d, d = [c EXCEPT !.edits = @ + 1]
    PROVE  d \in Content /\ Marks(d) = Marks(c) /\ Edits(d) = Edits(c) + 1 /\ (Whole(c) => Whole(d))
<1>1. c.edits + 1 \in 0..MaxFaults
  <2>1. c.edits \in 0..MaxFaults
    BY ContentFacts
  <2>2. QED
    BY <2>1, FaultsType
<1>2. d \in Content /\ d.marks = c.marks /\ d.edits = c.edits + 1 /\ d.torn = c.torn
  BY <1>1 DEF Content
<1>3. QED
  BY <1>2, ContentFacts

LEMMA FreshContent ==
    ASSUME Plain, NEW c, c = [marks |-> {Tool}, edits |-> 0, torn |-> FALSE]
    PROVE  c \in Content /\ Marks(c) = {Tool} /\ Edits(c) = 0 /\ Whole(c)
<1>1. c \in Content /\ c.marks = {Tool} /\ c.edits = 0 /\ c.torn = FALSE
  BY TargetFacts, PatchesAssumption DEF Content
<1>2. QED
  BY <1>1, ContentFacts

LEMMA MarkedContent ==
    ASSUME Plain, NEW c \in Content, NEW d, d = [c EXCEPT !.marks = @ \cup {Tool}]
    PROVE  d \in Content /\ Marks(d) = Marks(c) \cup {Tool} /\ Edits(d) = Edits(c) /\ (Whole(c) => Whole(d))
<1>1. c.marks \cup {Tool} \in SUBSET AllTools
  BY TargetFacts, ContentFacts
<1>2. d \in Content /\ d.marks = c.marks \cup {Tool} /\ d.edits = c.edits /\ d.torn = c.torn
  BY <1>1 DEF Content
<1>3. QED
  BY <1>2, ContentFacts

(* What a tool writes is what it read, with its own edits. *)
LEMMA PlannedFacts ==
    ASSUME Plain, NEW f \in DOMAIN snapshot
    PROVE  /\ Planned(f) \in Content /\ Planned(f) # Absent
           /\ Marks(Planned(f)) = Marks(snapshot[f]) \cup {Tool}
           /\ Edits(Planned(f)) = Edits(snapshot[f])
           /\ Whole(snapshot[f]) => Whole(Planned(f))
<1>1. CASE snapshot[f] = Absent
  <2>1. Planned(f) = [marks |-> {Tool}, edits |-> 0, torn |-> FALSE]
    BY <1>1 DEF Planned
  <2>2. Marks(snapshot[f]) = {} /\ Edits(snapshot[f]) = 0
    BY <1>1 DEF Marks, Edits
  <2>3. QED
    BY <2>1, <2>2, FreshContent, ContentFacts
<1>2. CASE snapshot[f] # Absent
  <2>1. snapshot[f] \in Content
    BY <1>2 DEF Plain, Contents
  <2>2. Planned(f) = [snapshot[f] EXCEPT !.marks = @ \cup {Tool}]
    BY <1>2 DEF Planned
  <2>3. QED
    BY <2>1, <2>2, MarkedContent, ContentFacts
<1>3. QED
  BY <1>1, <1>2

(* A write that ended half way changed its file only, and neither the      *)
(* tools' nor the others' edits that were to be in it.                     *)
LEMMA HalfFacts ==
    ASSUME Plain, NEW f \in Files, NEW c \in Contents, NEW d, d = HalfWritten(f, c)
    PROVE  /\ d \in [Files -> Contents] /\ \A g \in Files : g # f => d[g] = disk[g]
           /\ c = Absent => d = disk
           /\ c # Absent => d[f] # Absent /\ Marks(d[f]) = Marks(c) /\ Edits(d[f]) = Edits(c)
<1>1. CASE c = Absent
  BY <1>1 DEF HalfWritten, Plain
<1>2. CASE c # Absent
  <2>1. c \in Content
    BY <1>2 DEF Contents
  <2>2. d = [disk EXCEPT ![f] = [c EXCEPT !.torn = TRUE]]
    BY <1>2 DEF HalfWritten
  <2>3. [c EXCEPT !.torn = TRUE] \in Content
    BY <2>1, TornFacts
  <2>4. d \in [Files -> Contents] /\ d[f] = [c EXCEPT !.torn = TRUE] /\ \A g \in Files : g # f => d[g] = disk[g]
    BY <2>2, <2>3 DEF Plain, Contents
  <2>5. QED
    BY <1>2, <2>1, <2>3, <2>4, TornFacts, ContentFacts
<1>3. QED
  BY <1>1, <1>2

LEMMA UpstreamFacts ==
    ASSUME Plain
    PROVE  /\ Upstream \in [Files -> Contents]
           /\ \A f \in Files :
                 /\ Marks(Upstream[f]) = {} /\ Edits(Upstream[f]) = 0 /\ Whole(Upstream[f])
                 /\ Upstream[f] = Absent <=> f \in Created
<1>1. ASSUME NEW c, c = [marks |-> {}, edits |-> 0, torn |-> FALSE]
      PROVE  c \in Content /\ Marks(c) = {} /\ Edits(c) = 0 /\ Whole(c) /\ c # Absent
  <2>1. c \in Content /\ c.marks = {} /\ c.edits = 0 /\ c.torn = FALSE
    BY <1>1, PatchesAssumption DEF Content
  <2>2. QED
    BY <2>1, ContentFacts
<1>2. Marks(Absent) = {} /\ Edits(Absent) = 0 /\ Whole(Absent)
  BY DEF Marks, Edits, Whole
<1>3. QED
  BY <1>1, <1>2 DEF Upstream, Contents

LEMMA EditsInFacts ==
    ASSUME Plain
    PROVE  EditsIn(disk) \in [Files -> 0..MaxFaults] /\ \A f \in Files : EditsIn(disk)[f] = Edits(disk[f])
<1>1. \A f \in Files : Edits(disk[f]) \in 0..MaxFaults
  BY EditsType DEF Plain
<1>2. EditsIn(disk) = [f \in Files |-> Edits(disk[f])]
  BY DEF EditsIn, Edits
<1>3. QED
  BY <1>1, <1>2

LEMMA Empty == ASSUME NEW S PROVE DOMAIN <<>> = {} /\ \A f \in DOMAIN <<>> : <<>>[f] \in S
  OBVIOUS

(* What is built never changes, so neither do its tools. *)
LEMMA SameTools == [Next]_vars =>
    /\ target' = target /\ Tools' = Tools /\ AllTools' = AllTools /\ Content' = Content /\ Contents' = Contents
    /\ at' = at => Tool' = Tool /\ Inputs' = Inputs
    /\ snapshot' = snapshot /\ at' = at => ToChange' = ToChange
<1>1. [Next]_vars => target' = target
  BY DEF Next, Patching, Faulting, vars, work, ghosts, Checkout, Plan, Refuse, RolledBack, Done,
     Read, Check,
         SourceChanged, Write, Restore, AnchorMoved, Kill, Replay, WriteFails, RestoreFails, Edit, Again
<1>2. QED
  BY <1>1 DEF Tools, AllTools, Content, Contents, Tool, Inputs, ToChange, Has

(* An outside edit changes its file's edits, nothing else. *)
LEMMA EditFacts ==
    ASSUME Plain, Bounded, NEW f \in Files, Edit(f)
    PROVE  /\ disk' \in [Files -> Contents] /\ \A g \in Files : g # f => disk'[g] = disk[g]
           /\ Marks(disk'[f]) = Marks(disk[f]) /\ disk'[f] # Absent
           /\ Edits(disk'[f]) = Edits(disk[f]) + 1 /\ (Whole(disk[f]) => Whole(disk'[f]))
<1>1. disk[f] \in Content
  BY DEF Edit, Plain, Contents
<1>2. disk[f].edits + 1 <= MaxFaults
  <2>1. Edits(disk[f]) <= faults /\ faults < MaxFaults /\ faults \in Nat
    BY DEF Edit, Plain, Bounded
  <2>2. disk[f].edits = Edits(disk[f]) /\ disk[f].edits \in 0..MaxFaults
    BY <1>1, ContentFacts
  <2>3. QED
    BY <2>1, <2>2, FaultsType
<1>3. disk' = [disk EXCEPT ![f] = [disk[f] EXCEPT !.edits = @ + 1]]
  BY DEF Edit
<1>4. [disk[f] EXCEPT !.edits = @ + 1] \in Content
  BY <1>1, <1>2, EditedFacts
<1>5. disk' \in [Files -> Contents] /\ disk'[f] = [disk[f] EXCEPT !.edits = @ + 1] /\ \A g \in Files : g # f => disk'[g] = disk[g]
  BY <1>3, <1>4 DEF Plain, Contents
<1>6. QED
  BY <1>1, <1>2, <1>4, <1>5, EditedFacts, ContentFacts

(* Which files a step may change, and how. *)
LEMMA DiskStep ==
    ASSUME Plain, Bounded, Stages, [Next]_vars
    PROVE  /\ disk' \in [Files -> Contents]
           /\ \/ pc = "checkout" /\ disk' = Upstream
              \/ disk' = disk
              \/ \E f \in Files :
                    /\ \A g \in Files : g # f => disk'[g] = disk[g]
                    /\ \/ Write(f) /\ disk'[f] = Planned(f)
                       \/ Restore(f) /\ disk'[f] = snapshot[f]
                       \/ /\ Edit(f) /\ Marks(disk'[f]) = Marks(disk[f]) /\ disk'[f] # Absent
                          /\ Edits(disk'[f]) = Edits(disk[f]) + 1 /\ (Whole(disk[f]) => Whole(disk'[f]))
                       \/ /\ f \in written \cup changes /\ f \in DOMAIN snapshot
                          /\ pc \in {"write", "rollback"} /\ pc' \in {"rollback", "failed", "killed"}
                          /\ WriteFails(f) \/ RestoreFails(f) \/ Kill
                          /\ disk'[f] # Absent /\ Edits(disk'[f]) = Edits(snapshot[f])
<1>1. CASE UNCHANGED disk
  BY <1>1 DEF Plain
<1>2. CASE Checkout
  BY <1>2, UpstreamFacts DEF Checkout, CheckedOutTree
<1>3. ASSUME NEW f \in Files, Write(f) PROVE disk' \in [Files -> Contents] /\ disk'[f] = Planned(f) /\ \A g \in Files : g # f => disk'[g] = disk[g]
  <2>1. f \in DOMAIN snapshot
    BY <1>3 DEF Write, Plain, Stages
  <2>2. QED
    BY <1>3, <2>1, PlannedFacts DEF Write, Plain, Contents
<1>4. ASSUME NEW f \in Files, Restore(f) PROVE disk' \in [Files -> Contents] /\ disk'[f] = snapshot[f] /\ \A g \in Files : g # f => disk'[g] = disk[g]
  <2>1. f \in DOMAIN snapshot
    BY <1>4 DEF Restore, Plain, Stages
  <2>2. QED
    BY <1>4, <2>1 DEF Restore, Plain
<1>5. ASSUME NEW f \in Files, Edit(f)
      PROVE  /\ disk' \in [Files -> Contents] /\ \A g \in Files : g # f => disk'[g] = disk[g]
             /\ Marks(disk'[f]) = Marks(disk[f]) /\ disk'[f] # Absent
             /\ Edits(disk'[f]) = Edits(disk[f]) + 1 /\ (Whole(disk[f]) => Whole(disk'[f]))
  BY <1>5, EditFacts
<1>6. ASSUME NEW f \in Files, f \in DOMAIN snapshot,
             disk' = HalfWritten(f, Planned(f)) \/ disk' = HalfWritten(f, snapshot[f]), disk' # disk
      PROVE  /\ disk' \in [Files -> Contents] /\ \A g \in Files : g # f => disk'[g] = disk[g]
             /\ disk'[f] # Absent /\ Edits(disk'[f]) = Edits(snapshot[f])
  <2>1. Planned(f) \in Contents /\ Planned(f) # Absent /\ Edits(Planned(f)) = Edits(snapshot[f])
    BY <1>6, PlannedFacts DEF Contents
  <2>2. snapshot[f] \in Contents
    BY <1>6 DEF Plain
  <2>3. CASE disk' = HalfWritten(f, Planned(f))
    BY <1>6, <2>1, <2>3, HalfFacts
  <2>4. CASE disk' = HalfWritten(f, snapshot[f])
    BY <1>6, <2>2, <2>4, HalfFacts
  <2>5. QED
    BY <1>6, <2>3, <2>4
<1>7. ASSUME NEW f \in Files, WriteFails(f), disk' # disk
      PROVE  f \in changes /\ f \in DOMAIN snapshot /\ pc = "write" /\ pc' \in {"rollback", "failed"} /\ disk' = HalfWritten(f, Planned(f))
  BY <1>7 DEF WriteFails, Plain, Stages
<1>8. ASSUME NEW f \in Files, RestoreFails(f), disk' # disk
      PROVE  f \in written /\ f \in DOMAIN snapshot /\ pc = "rollback" /\ pc' = "failed" /\ disk' = HalfWritten(f, snapshot[f])
  BY <1>8 DEF RestoreFails, Plain, Stages
<1>9. ASSUME Kill, disk' # disk
      PROVE  \E f \in Files :
               /\ f \in written \cup changes /\ f \in DOMAIN snapshot /\ pc \in {"write", "rollback"} /\ pc' = "killed"
               /\ disk' = HalfWritten(f, Planned(f)) \/ disk' = HalfWritten(f, snapshot[f])
  <2>1. pc \in {"write", "rollback"} /\ disk' \in Underway /\ pc' = "killed"
    BY <1>9 DEF Kill, Underway
  <2>2. PICK f \in written \cup changes : disk' = HalfWritten(f, Planned(f)) \/ disk' = HalfWritten(f, snapshot[f])
    BY <2>1 DEF Underway
  <2>3. f \in DOMAIN snapshot /\ f \in Files
    BY <2>1, TargetFacts DEF Plain, Stages
  <2>4. QED
    BY <2>1, <2>2, <2>3
<1>10. QED
  <2>1. CASE UNCHANGED vars
    BY <1>1, <2>1 DEF vars
  <2>2. CASE Plan \/ Refuse \/ RolledBack \/ Done \/ AnchorMoved \/ Replay \/ Again \/ \E f \in Files : Read(f) \/ Check(f) \/ SourceChanged(f)
    BY <1>1, <2>2 DEF Plan, Refuse, RolledBack, Done, AnchorMoved, Replay, Again, Read, Check,
       SourceChanged
  <2>3. CASE Checkout
    BY <1>2, <2>3 DEF Checkout, CheckedOutTree
  <2>4. CASE \E f \in Files : Write(f)
    BY <1>3, <2>4
  <2>5. CASE \E f \in Files : Restore(f)
    BY <1>4, <2>5
  <2>6. CASE \E f \in Files : Edit(f)
    BY <1>5, <2>6
  <2>7. CASE Kill
    BY <1>1, <1>6, <1>9, <2>7
  <2>8. CASE \E f \in Files : WriteFails(f)
    BY <1>1, <1>6, <1>7, <2>8
  <2>9. CASE \E f \in Files : RestoreFails(f)
    BY <1>1, <1>6, <1>8, <2>9
  <2>10. QED
    BY <2>1, <2>2, <2>3, <2>4, <2>5, <2>6, <2>7, <2>8, <2>9 DEF Next, Patching, Faulting

LEMMA PlainStep == PatchInv /\ [Next]_vars => Plain'
<1> SUFFICES ASSUME PatchInv, [Next]_vars PROVE Plain'
  OBVIOUS
<1>0. Plain /\ Bounded /\ Stages
  BY DEF PatchInv
<1>D. disk' \in [Files -> Contents]
  BY <1>0, DiskStep
<1>S. /\ target' = target /\ Tools' = Tools /\ Contents' = Contents /\ (at' = at => Inputs' = Inputs)
  BY SameTools
<1>T. Len(Tools) \in Nat /\ Len(Tools) # 0 /\ MaxFaults \in Nat
  BY <1>0, TargetFacts, FaultsType
<1> USE DEF vars, work, ghosts
<1>1. CASE Checkout
  <2>1. edits' \in [Files -> 0..MaxFaults]
    BY <1>0, <1>D, <1>S, <1>T, <1>1, EditsInFacts DEF Checkout, Fresh
  <2>2. at' \in 1..Len(Tools)
    BY <1>0, <1>D, <1>S, <1>T, <1>1 DEF Plain, Checkout, Fresh
  <2>3. QED
    BY <1>0, <1>D, <1>S, <1>T, <1>1, <2>1, <2>2, Empty DEF Plain, Checkout, Fresh, Phases, Stages
<1>2. CASE Plan
  <2>1. ToChange \subseteq Inputs
    BY DEF ToChange
  <2>2. QED
    BY <1>0, <1>D, <1>S, <1>T, <1>2, <2>1 DEF Plain, Plan, Phases, Stages
<1>3. CASE Refuse
  BY <1>0, <1>D, <1>S, <1>T, <1>3 DEF Plain, Refuse, Phases, Stages
<1>4. CASE RolledBack
  BY <1>0, <1>D, <1>S, <1>T, <1>4 DEF Plain, RolledBack, Phases, Stages
<1>5. CASE Done
  <2>1. edits' \in [Files -> 0..MaxFaults]
    BY <1>0, <1>D, <1>S, <1>T, <1>5, EditsInFacts DEF Done, Fresh
  <2>2. at' \in 1..Len(Tools)
    BY <1>0, <1>D, <1>S, <1>T, <1>5 DEF Plain, Done, Fresh
  <2>3. QED
    BY <1>0, <1>D, <1>S, <1>T, <1>5, <2>1, <2>2, Empty DEF Plain, Done, Fresh, Phases, Stages
<1>6. CASE \E f \in Files : Read(f)
  <2>1. PICK f \in Files : Read(f)
    BY <1>6
  <2>2. /\ DOMAIN snapshot' = DOMAIN snapshot \cup {f} /\ f \in Inputs
        /\ \A g \in DOMAIN snapshot' : snapshot'[g] = IF g = f THEN disk[f] ELSE snapshot[g]
    BY <2>1 DEF Read
  <2>3. pc' \in Phases
    BY <2>1 DEF Read, Phases
  <2>4. QED
    BY <1>0, <1>D, <1>S, <2>1, <2>2, <2>3 DEF Plain, Read
<1>7. CASE \E f \in Files : Check(f)
  BY <1>0, <1>D, <1>S, <1>T, <1>7 DEF Plain, Check, Phases, Stages
<1>8. CASE \E f \in Files : SourceChanged(f)
  BY <1>0, <1>D, <1>S, <1>T, <1>8 DEF Plain, SourceChanged, Phases, Stages
<1>9. CASE \E f \in Files : Write(f)
  BY <1>0, <1>D, <1>S, <1>T, <1>9 DEF Plain, Write, Begun, Phases, Stages
<1>10. CASE \E f \in Files : Restore(f)
  BY <1>0, <1>D, <1>S, <1>T, <1>10 DEF Plain, Restore, Phases, Stages
<1>11. CASE AnchorMoved
  BY <1>0, <1>D, <1>S, <1>T, <1>11 DEF Plain, AnchorMoved, Phases, Stages
<1>12. CASE Kill
  BY <1>0, <1>D, <1>S, <1>T, <1>12 DEF Plain, Kill, Phases, Stages
<1>13. CASE Replay
  <2>1. edits' \in [Files -> 0..MaxFaults]
    BY <1>0, <1>D, <1>S, <1>T, <1>13, EditsInFacts DEF Replay, Fresh
  <2>2. at' \in 1..Len(Tools)
    BY <1>0, <1>D, <1>S, <1>T, <1>13 DEF Plain, Replay, Fresh
  <2>3. QED
    BY <1>0, <1>D, <1>S, <1>T, <1>13, <2>1, <2>2, Empty DEF Plain, Replay, Fresh, Phases, Stages
<1>14. CASE \E f \in Files : WriteFails(f)
  BY <1>0, <1>D, <1>S, <1>T, <1>14 DEF Plain, WriteFails, Begun, Phases, Stages
<1>15. CASE \E f \in Files : RestoreFails(f)
  BY <1>0, <1>D, <1>S, <1>T, <1>15 DEF Plain, RestoreFails, Phases, Stages
<1>16. CASE \E f \in Files : Edit(f)
  <2>1. PICK f \in Files : Edit(f)
    BY <1>16
  <2>2. edits[f] + 1 \in 0..MaxFaults /\ faults + 1 \in 0..MaxFaults
    BY <1>0, <1>T, <2>1 DEF Plain, Bounded, Edit
  <2>3. edits' \in [Files -> 0..MaxFaults]
    BY <1>0, <2>1, <2>2 DEF Plain, Edit
  <2>4. exposed' \subseteq Files
    BY <1>0, <2>1 DEF Plain, Edit
  <2>5. QED
    BY <1>0, <1>D, <1>S, <1>T, <2>1, <2>2, <2>3, <2>4 DEF Plain, Edit, Phases
<1>17. CASE Again
  BY <1>0, <1>D, <1>S, <1>T, <1>17 DEF Plain, Again, Phases, Stages
<1>18. CASE UNCHANGED vars
  BY <1>0, <1>D, <1>S, <1>T, <1>18 DEF Plain
<1>19. QED
  BY <1>1, <1>2, <1>3, <1>4, <1>5, <1>6, <1>7, <1>8, <1>9, <1>10, <1>11, <1>12, <1>13, <1>14,
     <1>15, <1>16, <1>17, <1>18 DEF Next, Patching, Faulting

LEMMA BoundedStep == PatchInv /\ [Next]_vars => Bounded'
<1> SUFFICES ASSUME PatchInv, [Next]_vars PROVE Bounded'
  OBVIOUS
<1>0. Plain /\ Bounded /\ Stages
  BY DEF PatchInv
<1>K. \A f \in Files :
        \/ Edits(disk'[f]) = 0 \/ Edits(disk'[f]) = Edits(disk[f])
        \/ f \in DOMAIN snapshot /\ Edits(disk'[f]) = Edits(snapshot[f])
        \/ faults' = faults + 1 /\ Edits(disk'[f]) = Edits(disk[f]) + 1
  <2> TAKE f \in Files
  <2>1. CASE disk' = disk
    BY <2>1
  <2>2. CASE disk' = Upstream
    BY <1>0, <2>2, UpstreamFacts
  <2>3. ASSUME NEW g \in Files, \A h \in Files : h # g => disk'[h] = disk[h],
               \/ g \in DOMAIN snapshot /\ Edits(disk'[g]) = Edits(snapshot[g])
               \/ faults' = faults + 1 /\ Edits(disk'[g]) = Edits(disk[g]) + 1
        PROVE  \/ Edits(disk'[f]) = 0 \/ Edits(disk'[f]) = Edits(disk[f])
               \/ f \in DOMAIN snapshot /\ Edits(disk'[f]) = Edits(snapshot[f])
               \/ faults' = faults + 1 /\ Edits(disk'[f]) = Edits(disk[f]) + 1
    BY <2>3
  <2>4. ASSUME NEW g \in Files, Write(g), disk'[g] = Planned(g)
        PROVE  g \in DOMAIN snapshot /\ Edits(disk'[g]) = Edits(snapshot[g])
    <3>1. g \in DOMAIN snapshot
      BY <1>0, <2>4 DEF Plain, Stages, Write
    <3>2. QED
      BY <1>0, <2>4, <3>1, PlannedFacts
  <2>5. ASSUME NEW g \in Files, Restore(g) PROVE g \in DOMAIN snapshot
    BY <1>0, <2>5 DEF Plain, Stages, Restore
  <2>6. ASSUME NEW g \in Files, Edit(g) PROVE faults' = faults + 1
    BY <2>6 DEF Edit
  <2>7. QED
    BY <1>0, <2>1, <2>2, <2>3, <2>4, <2>5, <2>6, DiskStep
<1>T. MaxFaults \in Nat /\ faults \in Nat
  BY <1>0, FaultsType DEF Plain
<1>E. \A f \in Files : Edits(disk[f]) \in Nat /\ Edits(disk'[f]) \in Nat /\ edits[f] \in Nat
  <2>1. disk' \in [Files -> Contents]
    BY <1>0, DiskStep
  <2>2. QED
    BY <1>0, <1>T, <2>1, EditsType DEF Plain
<1>F. \A f \in DOMAIN snapshot : Edits(snapshot[f]) \in Nat
  BY <1>0, <1>T, EditsType DEF Plain
<1> USE DEF vars, work, ghosts, Bounded
<1>1. CASE Checkout
  BY <1>0, <1>K, <1>T, <1>E, <1>F, <1>1, UpstreamFacts, Empty DEF Checkout, Fresh, CheckedOutTree
<1>2. CASE Plan
  BY <1>0, <1>K, <1>T, <1>E, <1>F, <1>2 DEF Plan
<1>3. CASE Refuse
  BY <1>0, <1>K, <1>T, <1>E, <1>F, <1>3 DEF Refuse
<1>4. CASE RolledBack
  BY <1>0, <1>K, <1>T, <1>E, <1>F, <1>4 DEF RolledBack
<1>5. CASE Done
  BY <1>0, <1>K, <1>T, <1>E, <1>F, <1>5, EditsInFacts, Empty DEF Done, Fresh
<1>6. CASE \E f \in Files : Read(f)
  <2>1. PICK f \in Files : Read(f)
    BY <1>6
  <2>2. \A g \in DOMAIN snapshot' : snapshot'[g] = IF g = f THEN disk[f] ELSE snapshot[g]
    BY <2>1 DEF Read
  <2>3. DOMAIN snapshot' = DOMAIN snapshot \cup {f}
    BY <2>1 DEF Read
  <2>4. QED
    BY <1>0, <2>1, <2>2, <2>3 DEF Read
<1>7. CASE \E f \in Files : Check(f)
  BY <1>0, <1>K, <1>T, <1>E, <1>F, <1>7 DEF Check
<1>8. CASE \E f \in Files : SourceChanged(f)
  BY <1>0, <1>K, <1>T, <1>E, <1>F, <1>8 DEF SourceChanged
<1>9. CASE \E f \in Files : Write(f)
  <2>1. snapshot' = snapshot /\ faults' \in {faults, faults + 1} /\ faults \in Nat
    BY <1>0, <1>K, <1>T, <1>E, <1>F, <1>9 DEF Plain, Write
  <2>2. \A f \in Files : edits'[f] <= faults'
    BY <1>0, <1>K, <1>T, <1>E, <1>F, <1>9, <1>T, <2>1 DEF Plain, Write
  <2>3. \A f \in Files : Edits(disk'[f]) <= faults'
    BY <1>0, <1>K, <1>E, <1>F, <2>1
  <2>4. \A f \in DOMAIN snapshot : Edits(snapshot[f]) <= faults'
    <3>1. \A f \in DOMAIN snapshot : Edits(snapshot[f]) \in Nat
      BY <1>0, <1>T, EditsType DEF Plain
    <3>2. QED
      BY <1>0, <1>T, <2>1, <3>1
  <2>5. QED
    BY <2>1, <2>2, <2>3, <2>4
<1>10. CASE \E f \in Files : Restore(f)
  <2>1. snapshot' = snapshot /\ faults' \in {faults, faults + 1} /\ faults \in Nat
    BY <1>0, <1>K, <1>T, <1>E, <1>F, <1>10 DEF Plain, Restore
  <2>2. \A f \in Files : edits'[f] <= faults'
    BY <1>0, <1>K, <1>T, <1>E, <1>F, <1>10, <1>T, <2>1 DEF Plain, Restore
  <2>3. \A f \in Files : Edits(disk'[f]) <= faults'
    BY <1>0, <1>K, <1>E, <1>F, <2>1
  <2>4. \A f \in DOMAIN snapshot : Edits(snapshot[f]) <= faults'
    <3>1. \A f \in DOMAIN snapshot : Edits(snapshot[f]) \in Nat
      BY <1>0, <1>T, EditsType DEF Plain
    <3>2. QED
      BY <1>0, <1>T, <2>1, <3>1
  <2>5. QED
    BY <2>1, <2>2, <2>3, <2>4
<1>11. CASE AnchorMoved
  BY <1>0, <1>K, <1>T, <1>E, <1>F, <1>11 DEF AnchorMoved
<1>12. CASE Kill
  <2>1. snapshot' = snapshot /\ faults' \in {faults, faults + 1} /\ faults \in Nat
    BY <1>0, <1>K, <1>T, <1>E, <1>F, <1>12 DEF Plain, Kill
  <2>2. \A f \in Files : edits'[f] <= faults'
    BY <1>0, <1>K, <1>T, <1>E, <1>F, <1>12, <1>T, <2>1 DEF Plain, Kill
  <2>3. \A f \in Files : Edits(disk'[f]) <= faults'
    BY <1>0, <1>K, <1>E, <1>F, <2>1
  <2>4. \A f \in DOMAIN snapshot : Edits(snapshot[f]) <= faults'
    <3>1. \A f \in DOMAIN snapshot : Edits(snapshot[f]) \in Nat
      BY <1>0, <1>T, EditsType DEF Plain
    <3>2. QED
      BY <1>0, <1>T, <2>1, <3>1
  <2>5. QED
    BY <2>1, <2>2, <2>3, <2>4
<1>13. CASE Replay
  BY <1>0, <1>K, <1>T, <1>E, <1>F, <1>13, EditsInFacts, Empty DEF Replay, Fresh
<1>14. CASE \E f \in Files : WriteFails(f)
  <2>1. snapshot' = snapshot /\ faults' \in {faults, faults + 1} /\ faults \in Nat
    BY <1>0, <1>K, <1>T, <1>E, <1>F, <1>14 DEF Plain, WriteFails
  <2>2. \A f \in Files : edits'[f] <= faults'
    BY <1>0, <1>K, <1>T, <1>E, <1>F, <1>14, <1>T, <2>1 DEF Plain, WriteFails
  <2>3. \A f \in Files : Edits(disk'[f]) <= faults'
    BY <1>0, <1>K, <1>E, <1>F, <2>1
  <2>4. \A f \in DOMAIN snapshot : Edits(snapshot[f]) <= faults'
    <3>1. \A f \in DOMAIN snapshot : Edits(snapshot[f]) \in Nat
      BY <1>0, <1>T, EditsType DEF Plain
    <3>2. QED
      BY <1>0, <1>T, <2>1, <3>1
  <2>5. QED
    BY <2>1, <2>2, <2>3, <2>4
<1>15. CASE \E f \in Files : RestoreFails(f)
  <2>1. snapshot' = snapshot /\ faults' \in {faults, faults + 1} /\ faults \in Nat
    BY <1>0, <1>K, <1>T, <1>E, <1>F, <1>15 DEF Plain, RestoreFails
  <2>2. \A f \in Files : edits'[f] <= faults'
    BY <1>0, <1>K, <1>T, <1>E, <1>F, <1>15, <1>T, <2>1 DEF Plain, RestoreFails
  <2>3. \A f \in Files : Edits(disk'[f]) <= faults'
    BY <1>0, <1>K, <1>E, <1>F, <2>1
  <2>4. \A f \in DOMAIN snapshot : Edits(snapshot[f]) <= faults'
    <3>1. \A f \in DOMAIN snapshot : Edits(snapshot[f]) \in Nat
      BY <1>0, <1>T, EditsType DEF Plain
    <3>2. QED
      BY <1>0, <1>T, <2>1, <3>1
  <2>5. QED
    BY <2>1, <2>2, <2>3, <2>4
<1>16. CASE \E f \in Files : Edit(f)
  <2>1. snapshot' = snapshot /\ faults' \in {faults, faults + 1} /\ faults \in Nat
    BY <1>0, <1>K, <1>T, <1>E, <1>F, <1>16 DEF Plain, Edit
  <2>2. \A f \in Files : edits'[f] <= faults'
    BY <1>0, <1>K, <1>T, <1>E, <1>F, <1>16, <1>T, <2>1 DEF Plain, Edit
  <2>3. \A f \in Files : Edits(disk'[f]) <= faults'
    BY <1>0, <1>K, <1>E, <1>F, <2>1
  <2>4. \A f \in DOMAIN snapshot : Edits(snapshot[f]) <= faults'
    <3>1. \A f \in DOMAIN snapshot : Edits(snapshot[f]) \in Nat
      BY <1>0, <1>T, EditsType DEF Plain
    <3>2. QED
      BY <1>0, <1>T, <2>1, <3>1
  <2>5. QED
    BY <2>1, <2>2, <2>3, <2>4
<1>17. CASE Again
  BY <1>0, <1>K, <1>T, <1>E, <1>F, <1>17 DEF Again
<1>18. CASE UNCHANGED vars
  BY <1>0, <1>K, <1>T, <1>E, <1>F, <1>18
<1>19. QED
  BY <1>1, <1>2, <1>3, <1>4, <1>5, <1>6, <1>7, <1>8, <1>9, <1>10, <1>11, <1>12, <1>13, <1>14,
     <1>15, <1>16, <1>17, <1>18 DEF Next, Patching, Faulting

LEMMA StagesStep == PatchInv /\ [Next]_vars => Stages'
<1> SUFFICES ASSUME PatchInv, [Next]_vars PROVE Stages'
  OBVIOUS
<1>0. Plain /\ Stages
  BY DEF PatchInv
<1>S. /\ at' = at => Tool' = Tool /\ Inputs' = Inputs
      /\ snapshot' = snapshot /\ at' = at => ToChange' = ToChange
      /\ Tools' = Tools
  BY SameTools
<1>T. /\ checked \subseteq DOMAIN snapshot /\ DOMAIN snapshot \subseteq Inputs /\ written \subseteq changes
      /\ at \in 1..Len(Tools) /\ Len(Tools) \in Nat
  BY <1>0, TargetFacts DEF Plain
<1> USE DEF vars, work, ghosts, Stages
<1>1. CASE Checkout
  BY <1>0, <1>S, <1>T, <1>1 DEF Checkout, Fresh
<1>2. CASE Plan
  BY <1>0, <1>S, <1>T, <1>2 DEF Plan
<1>3. CASE Refuse
  BY <1>0, <1>S, <1>T, <1>3 DEF Refuse
<1>4. CASE RolledBack
  BY <1>0, <1>S, <1>T, <1>4 DEF RolledBack
<1>5. CASE Done
  BY <1>0, <1>S, <1>T, <1>5 DEF Done, Fresh
<1>6. CASE \E f \in Files : Read(f)
  <2>1. PICK f \in Files : Read(f)
    BY <1>6
  <2>2. at' = at /\ pc = "read" /\ written' = written /\ checked' = checked /\ pc' \in {"read", "plan"} /\ (pc' = "plan" => DOMAIN snapshot' = Inputs)
    BY <2>1 DEF Read
  <2>3. QED
    BY <1>0, <1>S, <1>T, <2>2
<1>7. CASE \E f \in Files : Check(f)
  BY <1>0, <1>S, <1>T, <1>7 DEF Check
<1>8. CASE \E f \in Files : SourceChanged(f)
  BY <1>0, <1>S, <1>T, <1>8 DEF SourceChanged
<1>9. CASE \E f \in Files : Write(f)
  BY <1>0, <1>S, <1>T, <1>9 DEF Write, Begun
<1>10. CASE \E f \in Files : Restore(f)
  BY <1>0, <1>S, <1>T, <1>10 DEF Restore
<1>11. CASE AnchorMoved
  BY <1>0, <1>S, <1>T, <1>11 DEF AnchorMoved
<1>12. CASE Kill
  BY <1>0, <1>S, <1>T, <1>12 DEF Kill
<1>13. CASE Replay
  BY <1>0, <1>S, <1>T, <1>13 DEF Replay, Fresh
<1>14. CASE \E f \in Files : WriteFails(f)
  BY <1>0, <1>S, <1>T, <1>14 DEF WriteFails, Begun
<1>15. CASE \E f \in Files : RestoreFails(f)
  BY <1>0, <1>S, <1>T, <1>15 DEF RestoreFails
<1>16. CASE \E f \in Files : Edit(f)
  BY <1>0, <1>S, <1>T, <1>16 DEF Edit
<1>17. CASE Again
  BY <1>0, <1>S, <1>T, <1>17 DEF Again
<1>18. CASE UNCHANGED vars
  BY <1>0, <1>S, <1>T, <1>18
<1>19. QED
  BY <1>1, <1>2, <1>3, <1>4, <1>5, <1>6, <1>7, <1>8, <1>9, <1>10, <1>11, <1>12, <1>13, <1>14,
     <1>15, <1>16, <1>17, <1>18 DEF Next, Patching, Faulting

LEMMA ReadRightStep == PatchInv /\ [Next]_vars => ReadRight'
<1> SUFFICES ASSUME PatchInv, [Next]_vars PROVE ReadRight'
  OBVIOUS
<1>0. Plain /\ Stages /\ ReadRight /\ WroteRight
  BY DEF PatchInv
<1> USE DEF vars, work, ghosts, ReadRight, Held, Working
<1>1. CASE Checkout
  BY <1>0, <1>1, Empty DEF Checkout, Fresh
<1>2. CASE Plan
  BY <1>0, <1>2 DEF Plan
<1>3. CASE Refuse
  BY <1>0, <1>3 DEF Refuse
<1>4. CASE RolledBack
  BY <1>0, <1>4 DEF RolledBack
<1>5. CASE Done
  BY <1>0, <1>5, Empty DEF Done, Fresh
<1>6. CASE \E f \in Files : Read(f)
  <2>1. PICK f \in Files : Read(f)
    BY <1>6
  <2>2. Whole(disk[f]) /\ Alike(disk[f], before[f])
    BY <1>0, <2>1 DEF Read, Stages, WroteRight, Working
  <2>3. /\ pc = "read" /\ before' = before /\ DOMAIN snapshot' = DOMAIN snapshot \cup {f}
        /\ \A g \in DOMAIN snapshot' : snapshot'[g] = IF g = f THEN disk[f] ELSE snapshot[g]
    BY <2>1 DEF Read
  <2>4. QED
    BY <1>0, <2>2, <2>3
<1>7. CASE \E f \in Files : Check(f)
  BY <1>0, <1>7 DEF Check
<1>8. CASE \E f \in Files : SourceChanged(f)
  BY <1>0, <1>8 DEF SourceChanged
<1>9. CASE \E f \in Files : Write(f)
  BY <1>0, <1>9 DEF Write, Begun
<1>10. CASE \E f \in Files : Restore(f)
  BY <1>0, <1>10 DEF Restore
<1>11. CASE AnchorMoved
  BY <1>0, <1>11 DEF AnchorMoved
<1>12. CASE Kill
  BY <1>0, <1>12 DEF Kill
<1>13. CASE Replay
  BY <1>0, <1>13, Empty DEF Replay, Fresh
<1>14. CASE \E f \in Files : WriteFails(f)
  BY <1>0, <1>14 DEF WriteFails, Begun
<1>15. CASE \E f \in Files : RestoreFails(f)
  BY <1>0, <1>15 DEF RestoreFails
<1>16. CASE \E f \in Files : Edit(f)
  BY <1>0, <1>16 DEF Edit
<1>17. CASE Again
  BY <1>0, <1>17 DEF Again
<1>18. CASE UNCHANGED vars
  BY <1>0, <1>18
<1>19. QED
  BY <1>1, <1>2, <1>3, <1>4, <1>5, <1>6, <1>7, <1>8, <1>9, <1>10, <1>11, <1>12, <1>13, <1>14,
     <1>15, <1>16, <1>17, <1>18 DEF Next, Patching, Faulting

LEMMA WroteRightStep == PatchInv /\ [Next]_vars => WroteRight'
<1> SUFFICES ASSUME PatchInv, [Next]_vars PROVE WroteRight'
  OBVIOUS
<1>0. Plain /\ Bounded /\ Stages /\ ReadRight /\ WroteRight /\ Ends
  BY DEF PatchInv
<1>S. at' = at => Tool' = Tool
  BY SameTools
<1>T. /\ changes \subseteq Inputs /\ Inputs \subseteq Files /\ written \subseteq changes
  BY <1>0, TargetFacts DEF Plain
<1> USE DEF vars, work, ghosts, WroteRight, Working
<1>1. CASE Checkout
  <2>1. disk' = Upstream /\ before' = Upstream /\ written' = {} /\ pc' = "read"
    BY <1>1 DEF Checkout, Fresh, CheckedOutTree
  <2>2. QED
    BY <1>0, <2>1, UpstreamFacts DEF Alike
<1>2. CASE Plan
  <2>1. /\ pc \in {"read", "plan", "check"} /\ pc' \in {"read", "plan", "check", "write"}
        /\ disk' = disk /\ before' = before /\ written' = written /\ at' = at
    BY <1>2 DEF Plan
  <2>2. QED
    BY <1>0, <1>S, <2>1
<1>3. CASE Refuse
  <2>1. pc \in {"plan", "check"} /\ pc' = "failed" /\ disk' = disk /\ before' = before
    BY <1>3 DEF Refuse
  <2>2. QED
    BY <1>0, <2>1 DEF Stages
<1>4. CASE RolledBack
  <2>1. pc = "rollback" /\ written = {} /\ pc' = "failed" /\ disk' = disk /\ before' = before
    BY <1>4 DEF RolledBack
  <2>2. QED
    BY <1>0, <2>1
<1>5. CASE Done
  <2>1. disk' = disk /\ before' = disk /\ written' = {} /\ pc' \in {"read", "built"}
    BY <1>5 DEF Done, Fresh
  <2>2. \A f \in Files : Whole(disk[f])
    BY <1>0, <1>S, <1>T, <1>5 DEF Done
  <2>3. QED
    BY <2>1, <2>2 DEF Alike
<1>6. CASE \E f \in Files : Read(f)
  <2>1. /\ pc \in {"read", "plan", "check"} /\ pc' \in {"read", "plan", "check", "write"}
        /\ disk' = disk /\ before' = before /\ written' = written /\ at' = at
    BY <1>6 DEF Read
  <2>2. QED
    BY <1>0, <1>S, <2>1
<1>7. CASE \E f \in Files : Check(f)
  <2>1. /\ pc \in {"read", "plan", "check"} /\ pc' \in {"read", "plan", "check", "write"}
        /\ disk' = disk /\ before' = before /\ written' = written /\ at' = at
    BY <1>7 DEF Check
  <2>2. QED
    BY <1>0, <1>S, <2>1
<1>8. CASE \E f \in Files : SourceChanged(f)
  <2>1. pc \in {"plan", "check"} /\ pc' = "failed" /\ disk' = disk /\ before' = before
    BY <1>8 DEF SourceChanged
  <2>2. QED
    BY <1>0, <2>1 DEF Stages
<1>9. CASE \E f \in Files : Write(f)
  <2>1. PICK f \in Files : Write(f)
    BY <1>9
  <2>2. /\ f \in changes \ written /\ pc = "write" /\ pc' = pc /\ at' = at /\ before' = before /\ written' = written \cup {f}
        /\ f \in DOMAIN snapshot /\ disk'[f] = Planned(f) /\ \A g \in Files : g # f => disk'[g] = disk[g]
    BY <1>0, <1>T, <2>1 DEF Write, Begun, Plain, Stages
  <2>3. Whole(disk'[f]) /\ disk'[f] # Absent /\ Marks(disk'[f]) = Marks(before[f]) \cup {Tool}
    BY <1>0, <2>2, PlannedFacts DEF ReadRight, Held, Alike
  <2>4. QED
    BY <1>0, <1>S, <2>2, <2>3
<1>10. CASE \E f \in Files : Restore(f)
  <2>1. PICK f \in Files : Restore(f)
    BY <1>10
  <2>2. /\ f \in written /\ pc = "rollback" /\ pc' = pc /\ at' = at /\ before' = before /\ written' = written \ {f}
        /\ f \in DOMAIN snapshot /\ disk'[f] = snapshot[f] /\ \A g \in Files : g # f => disk'[g] = disk[g]
    BY <1>0, <1>T, <2>1 DEF Restore, Plain, Stages
  <2>3. Whole(disk'[f]) /\ Alike(disk'[f], before'[f])
    BY <1>0, <2>2 DEF ReadRight, Held
  <2>4. QED
    BY <1>0, <1>S, <2>2, <2>3
<1>11. CASE AnchorMoved
  <2>1. pc \in {"plan", "check"} /\ pc' = "failed" /\ disk' = disk /\ before' = before
    BY <1>11 DEF AnchorMoved
  <2>2. QED
    BY <1>0, <2>1 DEF Stages
<1>12. CASE Kill
  <2>1. pc' = "killed"
    BY <1>12 DEF Kill
  <2>2. QED
    BY <2>1
<1>13. CASE Replay
  <2>1. disk' = disk /\ before' = disk /\ written' = {} /\ pc' \in {"read", "built"}
    BY <1>13 DEF Replay, Fresh
  <2>2. \A f \in Files : Whole(disk[f])
    BY <1>0, <1>S, <1>T, <1>13 DEF Replay, Ends
  <2>3. QED
    BY <2>1, <2>2 DEF Alike
<1>14. CASE \E f \in Files : WriteFails(f)
  <2>1. PICK f \in Files : WriteFails(f)
    BY <1>14
  <2>2. /\ pc = "write" /\ before' = before /\ written' = written \cup {f}
        /\ pc' = (IF Tool \in Restoring THEN "rollback" ELSE "failed")
    BY <2>1 DEF WriteFails, Begun
  <2>3. \A g \in Files : g # f => disk'[g] = disk[g]
    <3>1. f \in DOMAIN snapshot
      BY <1>0, <1>T, <2>1 DEF WriteFails, Plain, Stages
    <3>2. Planned(f) \in Contents
      BY <1>0, <3>1, PlannedFacts DEF Contents
    <3>3. QED
      BY <1>0, <2>1, <3>2, HalfFacts DEF WriteFails
  <2>4. pc' = "failed" => broken'
    <3>1. broken' = (Tool \notin Restoring)
      BY <2>1, Zenon DEF WriteFails
    <3>2. pc' = "failed" => Tool \notin Restoring
      BY <2>2
    <3>3. QED
      BY <3>1, <3>2, Zenon
  <2>5. pc' \in {"rollback", "failed"}
    BY <2>2
  <2>6. QED
    BY <1>0, <2>2, <2>3, <2>4, <2>5
<1>15. CASE \E f \in Files : RestoreFails(f)
  <2>1. pc' = "failed" /\ broken'
    BY <1>15 DEF RestoreFails
  <2>2. QED
    BY <2>1
<1>16. CASE \E f \in Files : Edit(f)
  <2>1. PICK f \in Files : Edit(f)
    BY <1>16
  <2>2. pc' = pc /\ at' = at /\ before' = before /\ written' = written /\ broken' = broken /\ disk[f] # Absent
    BY <2>1 DEF Edit
  <2>3. /\ \A g \in Files : g # f => disk'[g] = disk[g]
        /\ Marks(disk'[f]) = Marks(disk[f]) /\ disk'[f] # Absent /\ (Whole(disk[f]) => Whole(disk'[f]))
    BY <1>0, <2>1, EditFacts
  <2>4. \A g \in Files : /\ Marks(disk'[g]) = Marks(disk[g]) /\ (Whole(disk[g]) => Whole(disk'[g]))
                         /\ (disk'[g] = Absent <=> disk[g] = Absent)
    BY <2>2, <2>3
  <2>5. \A g \in Files : Alike(disk[g], before[g]) => Alike(disk'[g], before'[g])
    BY <2>2, <2>4 DEF Alike
  <2>6. QED
    BY <1>0, <1>S, <2>2, <2>4, <2>5
<1>17. CASE Again
  <2>1. pc' = "checkout"
    BY <1>17 DEF Again
  <2>2. QED
    BY <2>1
<1>18. CASE UNCHANGED vars
  BY <1>0, <1>S, <1>T, <1>18
<1>19. QED
  BY <1>1, <1>2, <1>3, <1>4, <1>5, <1>6, <1>7, <1>8, <1>9, <1>10, <1>11, <1>12, <1>13, <1>14,
     <1>15, <1>16, <1>17, <1>18 DEF Next, Patching, Faulting

(* The tools up to one are those before it and, if it edits the file, itself. *)
LEMMA EarlierFacts ==
    ASSUME Plain, NEW f \in Files
    PROVE  /\ Earlier(f, 0) = {}
           /\ f \in Inputs => Earlier(f, at) = Earlier(f, at - 1) \cup {Tool}
           /\ f \notin Inputs => Earlier(f, at) = Earlier(f, at - 1)
           /\ Earlier(f, Len(Tools)) = {t \in AllTools : f \in EditsOf[t]}
<1>1. at \in Int /\ at >= 1
  BY TargetFacts DEF Plain
<1>2. 1..0 = {} /\ 1..at = (1..(at - 1)) \cup {at} /\ at \notin 1..(at - 1)
  BY <1>1
<1>3. Earlier(f, 0) = {}
  BY <1>2 DEF Earlier
<1>4. {j \in 1..at : f \in EditsOf[Tools[j]]} =
        {j \in 1..(at - 1) : f \in EditsOf[Tools[j]]} \cup {j \in {at} : f \in EditsOf[Tools[j]]}
  BY <1>2
<1>5. f \in Inputs => Earlier(f, at) = Earlier(f, at - 1) \cup {Tool}
  BY <1>4 DEF Earlier, Inputs, Tool
<1>6. f \notin Inputs => Earlier(f, at) = Earlier(f, at - 1)
  BY <1>4 DEF Earlier, Inputs, Tool
<1>7. Earlier(f, Len(Tools)) = {t \in AllTools : f \in EditsOf[t]}
  BY DEF Earlier, AllTools
<1>8. QED
  BY <1>3, <1>5, <1>6, <1>7

(* A tool whose changes are all written has patched every file it edits,   *)
(* those an earlier run of its own had patched included.                   *)
LEMMA AllWritten ==
    ASSUME Plain, Stages, ReadRight, WroteRight, Begins, pc = "write", written = changes
    PROVE  PatchedBy(disk, at) /\ \A f \in Files : Whole(disk[f])
<1>1. \A f \in Files : Whole(disk[f])
  BY DEF WroteRight, Working
<1> SUFFICES ASSUME NEW f \in Files
             PROVE  Marks(disk[f]) = Earlier(f, at) /\ (disk[f] = Absent => f \in Created)
  BY <1>1 DEF PatchedBy
<1>2. /\ Marks(before[f]) = Earlier(f, at) \/ Marks(before[f]) = Earlier(f, at - 1)
      /\ before[f] = Absent => f \in Created
  BY DEF Begins, Working, PatchedBy
<1>3. CASE f \in written
  <2>1. disk[f] # Absent /\ Marks(disk[f]) = Marks(before[f]) \cup {Tool}
    BY <1>3 DEF WroteRight, Working
  <2>2. f \in Inputs
    BY <1>3 DEF Plain
  <2>3. QED
    BY <1>2, <2>1, <2>2, EarlierFacts
<1>4. CASE f \notin written /\ f \in Inputs
  <2>1. Alike(disk[f], before[f]) /\ Alike(snapshot[f], before[f]) /\ Has(f)
    BY <1>4 DEF WroteRight, ReadRight, Stages, Working, Held, ToChange
  <2>2. Tool \in Marks(snapshot[f]) /\ snapshot[f] # Absent
    BY <2>1 DEF Has, Marks
  <2>3. Marks(disk[f]) = Marks(before[f]) /\ Tool \in Marks(before[f]) /\ disk[f] # Absent
    BY <2>1, <2>2 DEF Alike
  <2>4. Earlier(f, at) = Earlier(f, at - 1) \cup {Tool}
    BY <1>4, EarlierFacts
  <2>5. Marks(before[f]) = Earlier(f, at - 1) => Earlier(f, at - 1) \cup {Tool} = Earlier(f, at - 1)
    BY <2>3
  <2>6. QED
    BY <1>2, <2>3, <2>4, <2>5
<1>5. CASE f \notin Inputs
  <2>1. f \notin written
    BY <1>5 DEF Plain
  <2>2. Alike(disk[f], before[f])
    BY <2>1 DEF WroteRight, Working
  <2>3. QED
    BY <1>2, <1>5, <2>2, EarlierFacts DEF Alike
<1>6. QED
  BY <1>3, <1>4, <1>5

(* The tools stay the same, and so does what a tree patched by some is. *)
LEMMA SamePatched ==
    ASSUME [Next]_vars
    PROVE  /\ before' = before /\ at' = at /\ PatchedBy(before, at) => PatchedBy(before, at)'
           /\ before' = before /\ at' = at /\ PatchedBy(before, at - 1) => PatchedBy(before, at - 1)'
           /\ before' = disk /\ at' = at /\ PatchedBy(disk, at) => PatchedBy(before, at)'
           /\ before' = disk /\ at' = at + 1 /\ at \in Int /\ PatchedBy(disk, at) => PatchedBy(before, at - 1)'
           /\ disk' = disk /\ at' = at /\ PatchedBy(disk, at) => PatchedBy(disk, at)'
<1>1. Tools' = Tools
  BY SameTools
<1>2. at \in Int => (at + 1) - 1 = at
  OBVIOUS
<1>3. QED
  BY <1>1, <1>2 DEF PatchedBy, Earlier

LEMMA BeginsStep == PatchInv /\ [Next]_vars => Begins'
<1> SUFFICES ASSUME PatchInv, [Next]_vars PROVE Begins'
  OBVIOUS
<1>0. Plain /\ Stages /\ ReadRight /\ WroteRight /\ Begins /\ Ends
  BY DEF PatchInv
<1> USE DEF vars, work, ghosts, Begins, Working
<1>1. CASE Checkout
  <2>1. before' = Upstream /\ at' = 1
    BY <1>1 DEF Checkout, CheckedOutTree
  <2>2. 1..(1 - 1) = {}
    OBVIOUS
  <2>3. PatchedBy(before, at - 1)'
    BY <1>0, <2>1, <2>2, UpstreamFacts DEF PatchedBy, Earlier
  <2>4. QED
    BY <2>3
<1>2. CASE Plan
  <2>1. before' = before /\ at' = at /\ pc = "plan"
    BY <1>2 DEF Plan
  <2>2. QED
    BY <1>0, <2>1, SamePatched
<1>3. CASE Refuse
  BY <1>3 DEF Refuse
<1>4. CASE RolledBack
  BY <1>4 DEF RolledBack
<1>5. CASE Done
  <2>1. before' = disk /\ pc = "write" /\ written = changes /\ (pc' = "built" \/ at' = at + 1)
    BY <1>5 DEF Done
  <2>2. PatchedBy(disk, at)
    BY <1>0, <2>1, AllWritten
  <2>3. at \in Int
    BY <1>0, TargetFacts DEF Plain
  <2>4. QED
    BY <2>1, <2>2, <2>3, SamePatched
<1>6. CASE \E f \in Files : Read(f)
  <2>1. before' = before /\ at' = at /\ (pc' \in Working => pc \in Working)
    BY <1>6 DEF Read
  <2>2. QED
    BY <1>0, <2>1, SamePatched
<1>7. CASE \E f \in Files : Check(f)
  <2>1. before' = before /\ at' = at /\ (pc' \in Working => pc \in Working)
    BY <1>7 DEF Check
  <2>2. QED
    BY <1>0, <2>1, SamePatched
<1>8. CASE \E f \in Files : SourceChanged(f)
  <2>1. pc' \in {"failed", "rollback"}
    BY <1>8 DEF SourceChanged
  <2>2. QED
    BY <2>1
<1>9. CASE \E f \in Files : Write(f)
  <2>1. before' = before /\ at' = at /\ (pc' \in Working => pc \in Working)
    BY <1>9 DEF Write
  <2>2. QED
    BY <1>0, <2>1, SamePatched
<1>10. CASE \E f \in Files : Restore(f)
  <2>1. pc' \in {"failed", "rollback"}
    BY <1>10 DEF Restore
  <2>2. QED
    BY <2>1
<1>11. CASE AnchorMoved
  BY <1>11 DEF AnchorMoved
<1>12. CASE Kill
  BY <1>12 DEF Kill
<1>13. CASE Replay
  <2>1. before' = disk /\ pc = "built" /\ at' = at
    BY <1>13 DEF Replay
  <2>2. QED
    BY <1>0, <2>1, SamePatched DEF Ends
<1>14. CASE \E f \in Files : WriteFails(f)
  <2>1. pc' \in {"failed", "rollback"}
    BY <1>14 DEF WriteFails
  <2>2. QED
    BY <2>1
<1>15. CASE \E f \in Files : RestoreFails(f)
  <2>1. pc' \in {"failed", "rollback"}
    BY <1>15 DEF RestoreFails
  <2>2. QED
    BY <2>1
<1>16. CASE \E f \in Files : Edit(f)
  <2>1. before' = before /\ at' = at /\ (pc' \in Working => pc \in Working)
    BY <1>16 DEF Edit
  <2>2. QED
    BY <1>0, <2>1, SamePatched
<1>17. CASE Again
  BY <1>17 DEF Again
<1>18. CASE UNCHANGED vars
  BY <1>0, <1>18, SamePatched
<1>19. QED
  BY <1>1, <1>2, <1>3, <1>4, <1>5, <1>6, <1>7, <1>8, <1>9, <1>10, <1>11, <1>12, <1>13, <1>14,
     <1>15, <1>16, <1>17, <1>18 DEF Next, Patching, Faulting

LEMMA EndsStep == PatchInv /\ [Next]_vars => Ends'
<1> SUFFICES ASSUME PatchInv, [Next]_vars PROVE Ends'
  OBVIOUS
<1>0. Plain /\ Bounded /\ Stages /\ ReadRight /\ WroteRight /\ Begins /\ Ends
  BY DEF PatchInv
<1> USE DEF vars, work, ghosts, Ends
<1>1. CASE Checkout
  BY <1>1 DEF Checkout
<1>2. CASE Plan
  <2>1. pc' # "built"
    BY <1>2 DEF Plan
  <2>2. QED
    BY <2>1
<1>3. CASE Refuse
  BY <1>3 DEF Refuse
<1>4. CASE RolledBack
  BY <1>4 DEF RolledBack
<1>5. CASE Done
  <2>1. disk' = disk /\ pc = "write" /\ written = changes /\ (pc' = "built" => at' = at)
    BY <1>5 DEF Done
  <2>2. PatchedBy(disk, at) /\ \A f \in Files : Whole(disk[f])
    BY <1>0, <2>1, AllWritten
  <2>3. QED
    BY <2>1, <2>2, SamePatched
<1>6. CASE \E f \in Files : Read(f)
  <2>1. pc' # "built"
    BY <1>6 DEF Read
  <2>2. QED
    BY <2>1
<1>7. CASE \E f \in Files : Check(f)
  <2>1. pc' # "built"
    BY <1>7 DEF Check
  <2>2. QED
    BY <2>1
<1>8. CASE \E f \in Files : SourceChanged(f)
  <2>1. pc' # "built"
    BY <1>8 DEF SourceChanged
  <2>2. QED
    BY <2>1
<1>9. CASE \E f \in Files : Write(f)
  <2>1. pc' # "built"
    BY <1>9 DEF Write
  <2>2. QED
    BY <2>1
<1>10. CASE \E f \in Files : Restore(f)
  <2>1. pc' # "built"
    BY <1>10 DEF Restore
  <2>2. QED
    BY <2>1
<1>11. CASE AnchorMoved
  BY <1>11 DEF AnchorMoved
<1>12. CASE Kill
  BY <1>12 DEF Kill
<1>13. CASE Replay
  BY <1>13 DEF Replay
<1>14. CASE \E f \in Files : WriteFails(f)
  <2>1. pc' # "built"
    BY <1>14 DEF WriteFails
  <2>2. QED
    BY <2>1
<1>15. CASE \E f \in Files : RestoreFails(f)
  <2>1. pc' # "built"
    BY <1>15 DEF RestoreFails
  <2>2. QED
    BY <2>1
<1>16. CASE \E f \in Files : Edit(f)
  <2>1. PICK f \in Files : Edit(f)
    BY <1>16
  <2>2. at' = at /\ pc' = pc /\ disk[f] # Absent
    BY <2>1 DEF Edit
  <2>3. \A g \in Files : /\ Marks(disk'[g]) = Marks(disk[g]) /\ (Whole(disk[g]) => Whole(disk'[g]))
                         /\ (disk'[g] = Absent <=> disk[g] = Absent)
    BY <1>0, <2>1, <2>2, EditFacts
  <2>4. Tools' = Tools
    BY SameTools
  <2>5. PatchedBy(disk, at) => PatchedBy(disk, at)'
    BY <2>2, <2>3, <2>4 DEF PatchedBy, Earlier
  <2>6. QED
    BY <1>0, <2>2, <2>3, <2>5
<1>17. CASE Again
  BY <1>17 DEF Again
<1>18. CASE UNCHANGED vars
  BY <1>0, <1>18, SamePatched
<1>19. QED
  BY <1>1, <1>2, <1>3, <1>4, <1>5, <1>6, <1>7, <1>8, <1>9, <1>10, <1>11, <1>12, <1>13, <1>14,
     <1>15, <1>16, <1>17, <1>18 DEF Next, Patching, Faulting

(* A file that is being written, or restored, has been looked at for good. *)
LEMMA SeenFacts ==
    ASSUME Plain, Stages, SeenRight, pc \in {"write", "rollback"}, NEW f \in DOMAIN snapshot, f \notin exposed
    PROVE  Edits(snapshot[f]) = edits[f]
<1>1. Seen(f)
  BY DEF Stages, Seen, Plain
<1>2. QED
  BY <1>1 DEF SeenRight, Held, Working

(* A write cut off changed one file, whose edits are those that were read. *)
LEMMA HalfStep ==
    ASSUME Plain, NEW g \in Files, g \in DOMAIN snapshot, NEW d,
           d = HalfWritten(g, Planned(g)) \/ d = HalfWritten(g, snapshot[g])
    PROVE  /\ \A f \in Files : g # f => d[f] = disk[f]
           /\ d = disk \/ Edits(d[g]) = Edits(snapshot[g])
<1>1. Planned(g) \in Contents /\ snapshot[g] \in Contents /\ Edits(Planned(g)) = Edits(snapshot[g])
  BY PlannedFacts DEF Plain, Contents
<1>2. ASSUME NEW c \in Contents, d = HalfWritten(g, c), Edits(c) = Edits(snapshot[g])
      PROVE  (\A f \in Files : g # f => d[f] = disk[f]) /\ (d = disk \/ Edits(d[g]) = Edits(snapshot[g]))
  <2>1. \A f \in Files : f # g => d[f] = disk[f]
    BY <1>2, HalfFacts
  <2>2. c = Absent => d = disk
    BY <1>2, HalfFacts
  <2>3. c # Absent => Edits(d[g]) = Edits(c)
    BY <1>2, HalfFacts
  <2>4. QED
    BY <1>2, <2>1, <2>2, <2>3
<1>3. QED
  BY <1>1, <1>2

LEMMA SeenRightStep == PatchInv /\ [Next]_vars => SeenRight'
<1> SUFFICES ASSUME PatchInv, [Next]_vars PROVE SeenRight'
  OBVIOUS
<1>0. Plain /\ Bounded /\ Stages /\ SeenRight
  BY DEF PatchInv
<1>S. at' = at => Tool' = Tool
  BY SameTools
<1>P. \A f \in DOMAIN snapshot :
        /\ Planned(f) \in Contents /\ Edits(Planned(f)) = Edits(snapshot[f])
        /\ snapshot[f] \in Contents
  BY <1>0, PlannedFacts DEF Contents, Plain
<1> USE DEF vars, work, ghosts, SeenRight, Working, Held
<1>1. CASE Checkout
  <2>1. disk' = Upstream /\ edits' = [f \in Files |-> 0] /\ snapshot' = <<>> /\ exposed' = {}
    BY <1>1 DEF Checkout, Fresh, CheckedOutTree
  <2>2. QED
    BY <2>1, <1>0, UpstreamFacts, Empty
<1>2. CASE Plan
  <2>1. /\ (pc' \in Working => pc \in Working) /\ (pc' \in Held => pc \in Held) /\ at' = at
        /\ UNCHANGED <<snapshot, checked, edits, exposed, disk>>
    BY <1>2 DEF Plan
  <2>2. \A f \in DOMAIN snapshot : Seen(f)' = Seen(f)
    BY <1>S, <2>1 DEF Seen
  <2>3. QED
    BY <1>0, <2>1, <2>2
<1>3. CASE Refuse
  <2>1. /\ (pc' \in Working => pc \in Working) /\ (pc' \in Held => pc \in Held) /\ at' = at
        /\ UNCHANGED <<snapshot, checked, edits, exposed, disk>>
    BY <1>3 DEF Refuse
  <2>2. \A f \in DOMAIN snapshot : Seen(f)' = Seen(f)
    BY <1>S, <2>1 DEF Seen
  <2>3. QED
    BY <1>0, <2>1, <2>2
<1>4. CASE RolledBack
  <2>1. /\ (pc' \in Working => pc \in Working) /\ (pc' \in Held => pc \in Held) /\ at' = at
        /\ UNCHANGED <<snapshot, checked, edits, exposed, disk>>
    BY <1>4 DEF RolledBack
  <2>2. \A f \in DOMAIN snapshot : Seen(f)' = Seen(f)
    BY <1>S, <2>1 DEF Seen
  <2>3. QED
    BY <1>0, <2>1, <2>2
<1>5. CASE Done
  <2>1. disk' = disk /\ edits' = EditsIn(disk) /\ snapshot' = <<>> /\ exposed' = {}
    BY <1>5 DEF Done, Fresh
  <2>2. Edits(Absent) = 0
    BY DEF Edits
  <2>3. QED
    BY <2>1, <2>2, <1>0, EditsInFacts, Empty
<1>6. CASE \E f \in Files : Read(f)
  <2>1. PICK f \in Files : Read(f)
    BY <1>6
  <2>2. /\ pc = "read" /\ pc' \in {"read", "plan"} /\ at' = at /\ disk' = disk /\ checked' = checked
        /\ f \notin DOMAIN snapshot /\ DOMAIN snapshot' = DOMAIN snapshot \cup {f} /\ edits' = edits /\ exposed' = exposed
        /\ \A g \in DOMAIN snapshot' : snapshot'[g] = IF g = f THEN disk[f] ELSE snapshot[g]
    BY <2>1 DEF Read
  <2>3. f \notin exposed => Edits(disk[f]) = edits[f]
    BY <1>0, <2>2 DEF Edits
  <2>4. checked \subseteq DOMAIN snapshot
    BY <1>0 DEF Plain
  <2>5. ASSUME NEW g \in DOMAIN snapshot', Seen(g)', g \notin exposed PROVE Edits(snapshot'[g]) = edits[g]
    <3>1. CASE g = f
      BY <2>2, <2>3, <2>5, <3>1
    <3>2. CASE g # f
      <4>1. Seen(g) /\ g \in DOMAIN snapshot
        BY <1>S, <2>2, <2>5, <3>2 DEF Seen
      <4>2. QED
        BY <1>0, <2>2, <2>5, <3>2, <4>1
    <3>3. QED
      BY <3>1, <3>2
  <2>6. QED
    BY <1>0, <2>2, <2>5
<1>7. CASE \E f \in Files : Check(f)
  <2>1. PICK f \in Files : Check(f)
    BY <1>7
  <2>2. /\ pc = "check" /\ pc' \in {"check", "write"} /\ at' = at /\ disk' = disk /\ checked' = checked \cup {f}
        /\ disk[f] = snapshot[f] /\ snapshot' = snapshot /\ edits' = edits /\ exposed' = exposed
    BY <2>1 DEF Check, SameAsRead
  <2>3. f \notin exposed => Edits(snapshot[f]) = edits[f]
    BY <1>0, <2>2 DEF Edits
  <2>4. ASSUME NEW g \in DOMAIN snapshot, Seen(g)', g \notin exposed PROVE Edits(snapshot[g]) = edits[g]
    <3>1. g = f \/ Seen(g)
      BY <1>S, <2>2, <2>4 DEF Seen
    <3>2. QED
      BY <1>0, <2>2, <2>3, <2>4, <3>1
  <2>5. QED
    BY <1>0, <2>2, <2>4
<1>8. CASE \E f \in Files : SourceChanged(f)
  <2>1. /\ (pc' \in Working => pc \in Working) /\ (pc' \in Held => pc \in Held) /\ at' = at
        /\ UNCHANGED <<snapshot, checked, edits, exposed, disk>>
    BY <1>8 DEF SourceChanged
  <2>2. \A f \in DOMAIN snapshot : Seen(f)' = Seen(f)
    BY <1>S, <2>1 DEF Seen
  <2>3. QED
    BY <1>0, <2>1, <2>2
<1>9. CASE \E f \in Files : Write(f)
  <2>1. PICK f \in Files : Write(f)
    BY <1>9
  <2>2. /\ f \in DOMAIN snapshot /\ pc \in {"write", "rollback"} /\ pc' \in {pc, "rollback", "failed"} /\ at' = at
        /\ UNCHANGED <<snapshot, checked, edits, exposed>>
    BY <1>0, <2>1 DEF Write, Plain, Stages
  <2>3. \A g \in Files : g # f => disk'[g] = disk[g]
    BY <2>1 DEF Write
  <2>4. pc' \in Working => disk'[f] # Absent
    BY <1>0, <2>1, <2>2, PlannedFacts DEF Write, Plain
  <2>5. f \notin exposed /\ disk'[f] # Absent => Edits(disk'[f]) = edits[f]
    <3>1. disk'[f] = disk[f] \/ disk'[f] = Absent \/ Edits(disk'[f]) = Edits(snapshot[f])
      BY <1>0, <2>1, <2>2, PlannedFacts DEF Write, Plain
    <3>2. disk'[f] = disk[f] /\ f \notin exposed /\ disk'[f] # Absent => Edits(disk'[f]) = edits[f]
      BY <1>0
    <3>3. f \notin exposed => Edits(snapshot[f]) = edits[f]
      BY <1>0, <2>2, SeenFacts
    <3>4. QED
      BY <3>1, <3>2, <3>3
  <2>6. \A g \in Files : Seen(g)' = Seen(g)
    BY <1>S, <2>2 DEF Seen
  <2>7. DOMAIN snapshot \subseteq Files
    BY <1>0, TargetFacts DEF Plain
  <2>8. QED
    BY <1>0, <2>2, <2>3, <2>4, <2>5, <2>6, <2>7
<1>10. CASE \E f \in Files : Restore(f)
  <2>1. PICK f \in Files : Restore(f)
    BY <1>10
  <2>2. /\ f \in DOMAIN snapshot /\ pc \in {"write", "rollback"} /\ pc' \in {pc, "rollback", "failed"} /\ at' = at
        /\ UNCHANGED <<snapshot, checked, edits, exposed>>
    BY <1>0, <2>1 DEF Restore, Plain, Stages
  <2>3. \A g \in Files : g # f => disk'[g] = disk[g]
    BY <2>1 DEF Restore
  <2>4. pc' \in Working => disk'[f] # Absent
    BY <2>1 DEF Restore
  <2>5. f \notin exposed /\ disk'[f] # Absent => Edits(disk'[f]) = edits[f]
    <3>1. disk'[f] = disk[f] \/ disk'[f] = Absent \/ Edits(disk'[f]) = Edits(snapshot[f])
      BY <1>0, <2>1 DEF Restore, Plain
    <3>2. disk'[f] = disk[f] /\ f \notin exposed /\ disk'[f] # Absent => Edits(disk'[f]) = edits[f]
      BY <1>0
    <3>3. f \notin exposed => Edits(snapshot[f]) = edits[f]
      BY <1>0, <2>2, SeenFacts
    <3>4. QED
      BY <3>1, <3>2, <3>3
  <2>6. \A g \in Files : Seen(g)' = Seen(g)
    BY <1>S, <2>2 DEF Seen
  <2>7. DOMAIN snapshot \subseteq Files
    BY <1>0, TargetFacts DEF Plain
  <2>8. QED
    BY <1>0, <2>2, <2>3, <2>4, <2>5, <2>6, <2>7
<1>11. CASE AnchorMoved
  <2>1. /\ (pc' \in Working => pc \in Working) /\ (pc' \in Held => pc \in Held) /\ at' = at
        /\ UNCHANGED <<snapshot, checked, edits, exposed, disk>>
    BY <1>11 DEF AnchorMoved
  <2>2. \A f \in DOMAIN snapshot : Seen(f)' = Seen(f)
    BY <1>S, <2>1 DEF Seen
  <2>3. QED
    BY <1>0, <2>1, <2>2
<1>12. CASE Kill
  <2>1. pc' = "killed" /\ edits' = edits /\ exposed' = exposed
    BY <1>12 DEF Kill
  <2>2. ASSUME NEW f \in Files, f \notin exposed, disk'[f] # Absent PROVE Edits(disk'[f]) = edits[f]
    <3>1. CASE disk' = disk
      BY <1>0, <2>2, <3>1
    <3>2. CASE disk' # disk
      <4>1. /\ pc \in {"write", "rollback"}
            /\ \E g \in written \cup changes : disk' = HalfWritten(g, Planned(g)) \/ disk' = HalfWritten(g, snapshot[g])
        BY <1>12, <3>2 DEF Kill, Underway
      <4>2. PICK g \in written \cup changes : disk' = HalfWritten(g, Planned(g)) \/ disk' = HalfWritten(g, snapshot[g])
        BY <4>1
      <4>3. g \in Files /\ g \in DOMAIN snapshot
        BY <1>0, <4>1, TargetFacts DEF Plain, Stages
      <4>4. /\ g # f => disk'[f] = disk[f]
            /\ disk' = disk \/ Edits(disk'[g]) = Edits(snapshot[g])
        BY <1>0, <2>2, <4>2, <4>3, HalfStep
      <4>5. QED
        BY <1>0, <2>2, <3>2, <4>1, <4>3, <4>4, SeenFacts
    <3>3. QED
      BY <3>1, <3>2
  <2>3. QED
    BY <2>1, <2>2
<1>13. CASE Replay
  <2>1. disk' = disk /\ edits' = EditsIn(disk) /\ snapshot' = <<>> /\ exposed' = {}
    BY <1>13 DEF Replay, Fresh
  <2>2. Edits(Absent) = 0
    BY DEF Edits
  <2>3. QED
    BY <2>1, <2>2, <1>0, EditsInFacts, Empty
<1>14. CASE \E f \in Files : WriteFails(f)
  <2>1. PICK f \in Files : WriteFails(f)
    BY <1>14
  <2>2. /\ f \in DOMAIN snapshot /\ pc \in {"write", "rollback"} /\ pc' \in {pc, "rollback", "failed"} /\ at' = at
        /\ UNCHANGED <<snapshot, checked, edits, exposed>>
    BY <1>0, <2>1 DEF WriteFails, Plain, Stages
  <2>3. \A g \in Files : g # f => disk'[g] = disk[g]
    BY <1>0, <2>1, <2>2, <1>P, HalfFacts DEF WriteFails
  <2>4. pc' \in Working => disk'[f] # Absent
    BY <2>1 DEF WriteFails
  <2>5. f \notin exposed /\ disk'[f] # Absent => Edits(disk'[f]) = edits[f]
    <3>1. disk'[f] = disk[f] \/ disk'[f] = Absent \/ Edits(disk'[f]) = Edits(snapshot[f])
      BY <1>0, <2>1, <2>2, <1>P, HalfFacts DEF WriteFails
    <3>2. disk'[f] = disk[f] /\ f \notin exposed /\ disk'[f] # Absent => Edits(disk'[f]) = edits[f]
      BY <1>0
    <3>3. f \notin exposed => Edits(snapshot[f]) = edits[f]
      BY <1>0, <2>2, SeenFacts
    <3>4. QED
      BY <3>1, <3>2, <3>3
  <2>6. \A g \in Files : Seen(g)' = Seen(g)
    BY <1>S, <2>2 DEF Seen
  <2>7. DOMAIN snapshot \subseteq Files
    BY <1>0, TargetFacts DEF Plain
  <2>8. QED
    BY <1>0, <2>2, <2>3, <2>4, <2>5, <2>6, <2>7
<1>15. CASE \E f \in Files : RestoreFails(f)
  <2>1. PICK f \in Files : RestoreFails(f)
    BY <1>15
  <2>2. /\ f \in DOMAIN snapshot /\ pc \in {"write", "rollback"} /\ pc' \in {pc, "rollback", "failed"} /\ at' = at
        /\ UNCHANGED <<snapshot, checked, edits, exposed>>
    BY <1>0, <2>1 DEF RestoreFails, Plain, Stages
  <2>3. \A g \in Files : g # f => disk'[g] = disk[g]
    BY <1>0, <2>1, <2>2, <1>P, HalfFacts DEF RestoreFails
  <2>4. pc' \in Working => disk'[f] # Absent
    BY <2>1 DEF RestoreFails
  <2>5. f \notin exposed /\ disk'[f] # Absent => Edits(disk'[f]) = edits[f]
    <3>1. disk'[f] = disk[f] \/ disk'[f] = Absent \/ Edits(disk'[f]) = Edits(snapshot[f])
      BY <1>0, <2>1, <2>2, <1>P, HalfFacts DEF RestoreFails
    <3>2. disk'[f] = disk[f] /\ f \notin exposed /\ disk'[f] # Absent => Edits(disk'[f]) = edits[f]
      BY <1>0
    <3>3. f \notin exposed => Edits(snapshot[f]) = edits[f]
      BY <1>0, <2>2, SeenFacts
    <3>4. QED
      BY <3>1, <3>2, <3>3
  <2>6. \A g \in Files : Seen(g)' = Seen(g)
    BY <1>S, <2>2 DEF Seen
  <2>7. DOMAIN snapshot \subseteq Files
    BY <1>0, TargetFacts DEF Plain
  <2>8. QED
    BY <1>0, <2>2, <2>3, <2>4, <2>5, <2>6, <2>7
<1>16. CASE \E f \in Files : Edit(f)
  <2>1. PICK f \in Files : Edit(f)
    BY <1>16
  <2>2. /\ pc' = pc /\ at' = at /\ snapshot' = snapshot /\ checked' = checked /\ disk[f] # Absent /\ exposed \subseteq exposed'
        /\ edits' = [edits EXCEPT ![f] = @ + 1] /\ (f \notin exposed' => WillLookAgain(f)) /\ edits \in [Files -> 0..MaxFaults]
    BY <1>0, <2>1 DEF Edit, Plain
  <2>3. edits'[f] = edits[f] + 1 /\ \A g \in Files : g # f => edits'[g] = edits[g]
    BY <2>2
  <2>4. /\ \A g \in Files : g # f => disk'[g] = disk[g]
        /\ disk'[f] # Absent /\ Edits(disk'[f]) = Edits(disk[f]) + 1
    BY <1>0, <2>1, EditFacts
  <2>5. pc \in Held /\ f \in DOMAIN snapshot /\ f \notin exposed' => ~Seen(f)
    BY <1>0, <2>2 DEF WillLookAgain, Seen, Stages, Plain
  <2>6. \A g \in DOMAIN snapshot : Seen(g)' = Seen(g)
    BY <1>S, <2>2 DEF Seen
  <2>7. DOMAIN snapshot \subseteq Files
    BY <1>0, TargetFacts DEF Plain
  <2>8. pc \in Held => \A g \in DOMAIN snapshot : Seen(g) /\ g \notin exposed' => Edits(snapshot[g]) = edits'[g]
    BY <1>0, <2>2, <2>3, <2>5, <2>7
  <2>9. pc \in Working => \A g \in Files : disk'[g] = Absent => edits'[g] = 0
    BY <1>0, <2>3, <2>4
  <2>10. \A g \in Files \ exposed' : disk'[g] # Absent => Edits(disk'[g]) = edits'[g]
    BY <1>0, <2>2, <2>3, <2>4
  <2>11. QED
    BY <2>2, <2>6, <2>8, <2>9, <2>10
<1>17. CASE Again
  <2>1. /\ (pc' \in Working => pc \in Working) /\ (pc' \in Held => pc \in Held) /\ at' = at
        /\ UNCHANGED <<snapshot, checked, edits, exposed, disk>>
    BY <1>17 DEF Again
  <2>2. \A f \in DOMAIN snapshot : Seen(f)' = Seen(f)
    BY <1>S, <2>1 DEF Seen
  <2>3. QED
    BY <1>0, <2>1, <2>2
<1>18. CASE UNCHANGED vars
  BY <1>0, <1>18, <1>S DEF Seen
<1>19. QED
  BY <1>1, <1>2, <1>3, <1>4, <1>5, <1>6, <1>7, <1>8, <1>9, <1>10, <1>11, <1>12, <1>13, <1>14,
     <1>15, <1>16, <1>17, <1>18 DEF Next, Patching, Faulting

Flag == broken \in BOOLEAN

LEMMA BrokenIsBoolean == broken \in BOOLEAN /\ [Next]_vars => broken' \in BOOLEAN
<1> SUFFICES ASSUME broken \in BOOLEAN, [Next]_vars PROVE broken' \in BOOLEAN
  OBVIOUS
<1>1. CASE UNCHANGED vars
  BY <1>1, Zenon DEF vars, ghosts
<1>2. CASE \E f \in Files : WriteFails(f)
  BY <1>2, Zenon DEF WriteFails
<1>3. CASE \E f \in Files : RestoreFails(f)
  BY <1>3, Zenon DEF RestoreFails
<1>4. CASE Checkout
  BY <1>4, Zenon DEF Checkout
<1>5. CASE Plan \/ Refuse \/ RolledBack \/ AnchorMoved \/ Kill \/ Again
  BY <1>5, ZenonT(30) DEF Plan, Refuse, RolledBack, AnchorMoved, Kill, Again, ghosts
<1>6. CASE Done \/ Replay \/ \E f \in Files : Edit(f)
  BY <1>6, ZenonT(30) DEF Done, Replay, Edit, ghosts
<1>7. CASE \E f \in Files : Read(f) \/ Check(f) \/ SourceChanged(f) \/ Write(f) \/ Restore(f)
  BY <1>7, ZenonT(30) DEF Read, Check, SourceChanged, Write, Restore, ghosts
<1>8. QED
  BY <1>1, <1>2, <1>3, <1>4, <1>5, <1>6, <1>7 DEF Next, Patching, Faulting

LEMMA PatchInit == Init => PatchInv
<1> SUFFICES ASSUME Init PROVE PatchInv
  OBVIOUS
<1>0. /\ target \in Targets /\ disk = Upstream /\ before = Upstream /\ pc = "checkout" /\ at = 1 /\ snapshot = <<>>
      /\ checked = {} /\ changes = {} /\ written = {} /\ faults = 0 /\ edits = [f \in Files |-> 0] /\ exposed = {}
  BY DEF Init
<1>1. Upstream \in [Files -> Contents] /\ \A f \in Files : Edits(Upstream[f]) = 0
  <2>1. [marks |-> {}, edits |-> 0, torn |-> FALSE] \in Content
    BY FaultsType DEF Content
  <2>2. [marks |-> {}, edits |-> 0, torn |-> FALSE] # Absent
    <3>1. [marks |-> {}, edits |-> 0, torn |-> FALSE] \in [marks : SUBSET ToolNames, edits : 0..MaxFaults, torn : BOOLEAN]
      BY FaultsType
    <3>2. QED
      BY <3>1, PatchesAssumption
  <2>3. \A f \in Files : Upstream[f] = Absent \/ Upstream[f] = [marks |-> {}, edits |-> 0, torn |-> FALSE]
    BY DEF Upstream
  <2>4. Edits(Absent) = 0 /\ Edits([marks |-> {}, edits |-> 0, torn |-> FALSE]) = 0
    BY <2>2 DEF Edits
  <2>5. Upstream \in [Files -> Contents]
    BY <2>1 DEF Upstream, Contents
  <2>6. QED
    BY <2>3, <2>4, <2>5
<1>2. at \in 1..Len(Tools)
  <2>1. Tools \in Seq(ToolNames) /\ Tools # <<>>
    BY <1>0, PatchesAssumption DEF Tools
  <2>2. Len(Tools) \in Nat /\ Len(Tools) # 0
    BY <2>1
  <2>3. QED
    BY <1>0, <2>2
<1>3. Plain
  BY <1>0, <1>1, <1>2, FaultsType, Empty DEF Plain, Phases
<1>4. Bounded
  BY <1>0, <1>1, Empty DEF Bounded
<1>5. Stages /\ ReadRight /\ WroteRight /\ Begins /\ Ends
  BY <1>0 DEF Stages, ReadRight, WroteRight, Begins, Ends, Held, Working
<1>6. SeenRight
  BY <1>0, <1>1 DEF SeenRight, Held, Working
<1>7. QED
  BY <1>3, <1>4, <1>5, <1>6 DEF PatchInv

LEMMA PatchAlways == Spec => []PatchInv
<1>1. PatchInv /\ [Next]_vars => PatchInv'
  BY PlainStep, BoundedStep, StagesStep, ReadRightStep, WroteRightStep, BeginsStep, EndsStep,
     SeenRightStep DEF PatchInv
<1>2. QED
  BY PatchInit, <1>1, PTL DEF Spec

LEMMA FlagAlways == Spec => []Flag
<1>1. Init => Flag
  BY Zenon DEF Init, Flag
<1>2. Flag /\ [Next]_vars => Flag'
  BY BrokenIsBoolean DEF Flag
<1>3. QED
  BY <1>1, <1>2, PTL DEF Spec

(* All of a tool's edits or none: what is built carries the edits of every *)
(* tool, whole, and a tool that ended with an error left every file as it  *)
(* was when it began, outside edits excepted.                              *)
THEOREM PatchesWhole == Spec => []AllOrNothing
<1>1. PatchInv /\ Flag => TypeOK
  <2>1. Plain /\ Stages => \/ broken \notin BOOLEAN
                           \/ TypeOK
    BY DEF Plain, Stages, TypeOK, Contents
  <2>2. QED
    BY <2>1 DEF PatchInv, Flag
<1>2. PatchInv => FailedLeavesSource
  <2> SUFFICES ASSUME PatchInv, pc = "failed", ~broken, NEW f \in Files
               PROVE  /\ disk[f] = Absent <=> before[f] = Absent
                      /\ disk[f] # Absent => ~disk[f].torn /\ disk[f].marks = before[f].marks
    BY DEF FailedLeavesSource
  <2>1. Alike(disk[f], before[f]) /\ Whole(disk[f])
    BY DEF PatchInv, WroteRight
  <2>2. QED
    BY <2>1 DEF Alike, Marks, Whole
<1>3. PatchInv => BuildsWholeSource
  <2> SUFFICES ASSUME PatchInv, pc = "built", NEW f \in Files
               PROVE  LET edited == {t \in AllTools : f \in EditsOf[t]} IN
                      IF disk[f] = Absent THEN f \in Created /\ edited = {}
                      ELSE ~disk[f].torn /\ disk[f].marks = edited
    BY DEF BuildsWholeSource
  <2>1. PatchedBy(disk, at) /\ Whole(disk[f]) /\ at = Len(Tools)
    BY DEF PatchInv, Ends, Stages
  <2>2. Marks(disk[f]) = {t \in AllTools : f \in EditsOf[t]} /\ (disk[f] = Absent => f \in Created)
    BY <2>1, EarlierFacts DEF PatchedBy, PatchInv
  <2>3. QED
    BY <2>1, <2>2 DEF Marks, Whole
<1>4. QED
  BY <1>1, <1>2, <1>3, PatchAlways, FlagAlways, PTL DEF AllOrNothing

(* An edit somebody makes during the sync is lost only if the tool at work *)
(* had taken its last look at the file.                                    *)
THEOREM KeepsSeenEdits == Spec => []LosesOnlyUnseenEdits
<1>1. PatchInv => LosesOnlyUnseenEdits
  BY DEF PatchInv, SeenRight, LosesOnlyUnseenEdits, Edits
<1>2. QED
  BY <1>1, PatchAlways, PTL
=============================================================================
