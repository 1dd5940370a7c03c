--------------------------- MODULE HarnessMMProofs ---------------------------
(***************************************************************************)
(* Proofs about HarnessMM for every plan length, every set of commands and *)
(* any number of calls, edits and graphs: types, then the order and the    *)
(* admission of dispatches, then the conversation a command is dispatched  *)
(* in, what a changed turn ends, and the refinement of DecisionGraph.      *)
(***************************************************************************)
EXTENDS HarnessMM, TLAPS

(* The bank try_reuse is about to run, or has taken, points into its plan. *)
InPlan(b) ==
    /\ b.id = Len(graphs)
    /\ b.id \in 1..Len(graphs)
    /\ b.commands = graphs[b.id].plan
    /\ b.next < Len(b.commands)

(* Who owns the graph: nobody, the shared state, or the running try_reuse. *)
Ownership ==
    /\ held # None <=> pc \in ReuseStates
    /\ held # None => bank = None
    /\ calls # {} => pc = "tools"
    /\ pc \in {"running", "responded", "recorded", "settle"} => log # <<>>

TypeInv ==
    /\ TypeOK
    /\ Ownership
    /\ bank # None => InPlan(bank)
    /\ held # None => InPlan(held)
-----------------------------------------------------------------------------
LEMMA SeqOver ==
    ASSUME NEW S, NEW T, NEW s \in Seq(S), \A i \in 1..Len(s) : s[i] \in T
    PROVE  s \in Seq(T)
  OBVIOUS

LEMMA AppendFacts ==
    ASSUME NEW S, NEW s \in Seq(S), NEW e \in S
    PROVE  /\ Append(s, e) \in Seq(S)
           /\ Len(Append(s, e)) = Len(s) + 1
           /\ Append(s, e) # <<>>
           /\ \A i \in 1..Len(s) : Append(s, e)[i] = s[i]
           /\ Append(s, e)[Len(s) + 1] = e
  OBVIOUS

LEMMA TypeInvInit == Init => TypeInv
<1> SUFFICES ASSUME Init PROVE TypeInv
  OBVIOUS
<1>1. TypeOK
  <2>1. <<>> \in Seq(Item) /\ <<>> \in Seq(Graph) /\ <<>> \in Seq(Entry)
    OBVIOUS
  <2>2. history \in Seq(Item) /\ input \in Seq(Item) /\ next_history \in Seq(Item)
    BY <2>1 DEF Init
  <2>3. bank \in Bank \cup {None}
    BY DEF Init
  <2>4. calls \subseteq PlanRequest
    BY DEF Init
  <2>5. pc \in LoopStates \cup ReuseStates
    BY DEF Init, LoopStates
  <2>6. cancelled \in BOOLEAN /\ gate \in BOOLEAN
    BY DEF Init
  <2>7. issued \in Nat /\ edits \in Nat
    BY DEF Init
  <2> QED BY <2>1, <2>2, <2>3, <2>4, <2>5, <2>6, <2>7 DEF TypeOK, Init
<1>2. Ownership
  BY DEF Init, Ownership, ReuseStates
<1>3. QED
  BY <1>1, <1>2 DEF TypeInv, Init

LEMMA OtherItemType == ASSUME NEW n \in Nat PROVE OtherItem(n) \in Item
  BY DEF OtherItem, Item, PlanCall, CallId

LEMMA CallItemType ==
    ASSUME NEW id \in CallId, NEW ok \in BOOLEAN
    PROVE  CallItem(id) \in Item /\ OutputItem(id, ok) \in Item
  BY DEF CallItem, OutputItem, Item

LEMMA PlanCallType == ASSUME NEW n \in Nat PROVE PlanCall(n) \in CallId
  BY DEF PlanCall, CallId

LEMMA NodeCallType == ASSUME NEW b \in Bank PROVE NodeCall(b) \in CallId
  BY DEF NodeCall, CallId, Bank

(* The node of a bank within its plan has a command. *)
LEMMA NodeCommand ==
    ASSUME NEW b \in Bank, b.next < Len(b.commands)
    PROVE  b.commands[b.next + 1] \in Commands
  BY DEF Bank

LEMMA EntryType ==
    ASSUME NEW b \in Bank, NEW cmd \in Commands, NEW outcome \in {"running", "ok", "bad"}
    PROVE  EntryOf(b, cmd, outcome) \in Entry
<1>1. (cancelled \/ edits # graphs[b.id].edits) \in BOOLEAN
  OBVIOUS
<1> QED
  BY <1>1 DEF EntryOf, Entry, Bank

LEMMA EntryUpdate ==
    ASSUME NEW x \in Entry, NEW outcome \in {"running", "ok", "bad"}, NEW y,
           y = [x EXCEPT !.outcome = outcome]
    PROVE  /\ y \in Entry
           /\ y.graph = x.graph /\ y.node = x.node /\ y.cmd = x.cmd /\ y.late = x.late
           /\ y.outcome = outcome
  BY DEF Entry

LEMMA ResolvedType ==
    ASSUME log \in Seq(Entry), log # <<>>, NEW outcome \in {"running", "ok", "bad"}
    PROVE  /\ ResolvedLog(outcome) \in Seq(Entry)
           /\ Len(ResolvedLog(outcome)) = Len(log)
           /\ ResolvedLog(outcome) # <<>>
           /\ \A i \in 1..Len(log) : i # Len(log) => ResolvedLog(outcome)[i] = log[i]
           /\ ResolvedLog(outcome)[Len(log)] = [log[Len(log)] EXCEPT !.outcome = outcome]
<1>1. Len(log) \in 1..Len(log) /\ log[Len(log)] \in Entry
  OBVIOUS
<1>2. [log[Len(log)] EXCEPT !.outcome = outcome] \in Entry
  BY <1>1 DEF Entry
<1>3. ResolvedLog(outcome) = [log EXCEPT ![Len(log)] = [log[Len(log)] EXCEPT !.outcome = outcome]]
  BY DEF ResolvedLog
<1> QED
  BY <1>1, <1>2, <1>3

LEMMA AdvancedType ==
    ASSUME NEW b \in Bank, NEW h \in Seq(Item)
    PROVE  Advanced(b, h) \in Bank
<1>1. [call |-> None, base |-> h] \in Checkpoint
  BY DEF Checkpoint
<1> QED
  BY <1>1 DEF Advanced, Bank

LEMMA ObservedType ==
    ASSUME pending \in Pending \cup {None}, NEW call, NEW arguments, NEW receipt \in Receipt
    PROVE  Observed(call, arguments, receipt) \in Pending \cup {None}
  BY DEF Observed, Pending

-----------------------------------------------------------------------------
(* Steps that keep the graphs, and what owns them, keep InPlan. *)
LEMMA TypeInvHandling ==
    ASSUME TypeInv, Handling
    PROVE  TypeInv'
<1> USE DEF TypeInv
<1>1. PICK c \in calls : \/ HandleRegister(c)
                         \/ HandleRefuse(c)
                         \/ \E ok \in BOOLEAN : Acknowledge(c, ok)
  BY DEF Handling
<1>2. c \in PlanRequest /\ c.id \in Nat /\ pc = "tools" /\ held = None
  BY DEF TypeOK, Ownership, PlanRequest, ReuseStates
<1>3. CASE HandleRegister(c)
  <2> USE <1>3 DEF HandleRegister
  <2>1. c.plan \in Seq(Commands) /\ Len(c.plan) >= 2
    <3>1. c.plan \in Seq(Words)
      BY <1>2, PlanAssumption DEF PlanRequest
    <3>2. Len(c.plan) \in 2..MAX_NODES /\ \A i \in 1..Len(c.plan) : c.plan[i] \in Commands
      BY DEF Accepts, ParsedPlan
    <3> QED
      BY <3>1, <3>2, SeqOver, PlanAssumption
  <2>2. PlanCall(c.id) \in CallId
    BY <1>2, PlanCallType
  <2>3. bank' \in Bank
    BY <2>1, <2>2 DEF TypeOK, Bank, Checkpoint
  <2>4. graphs' \in Seq(Graph) /\ Len(graphs') = Len(graphs) + 1
        /\ graphs'[Len(graphs) + 1].plan = c.plan
    <3>1. [plan |-> c.plan, base |-> history, call |-> PlanCall(c.id), edits |-> edits] \in Graph
      BY <2>1, <2>2 DEF TypeOK, Graph
    <3> QED
      BY <3>1, AppendFacts DEF TypeOK
  <2>5. calls' \subseteq PlanRequest
    <3>1. [c EXCEPT !.state = "registered"] \in PlanRequest
      BY <1>2 DEF PlanRequest
    <3> QED
      BY <3>1 DEF TypeOK, Answered
  <2>6. TypeOK'
    BY <2>3, <2>4, <2>5 DEF TypeOK, signals
  <2>7. Ownership'
    BY <1>2 DEF Ownership, ReuseStates
  <2>8. InPlan(bank)'
    BY <2>1, <2>4 DEF InPlan, TypeOK
  <2> QED
    BY <1>2, <2>6, <2>7, <2>8
<1>4. CASE HandleRefuse(c)
  <2> USE <1>4 DEF HandleRefuse, ghosts, signals
  <2>1. calls' \subseteq PlanRequest
    <3>1. [c EXCEPT !.state = "refused"] \in PlanRequest
      BY <1>2 DEF PlanRequest
    <3> QED
      BY <3>1 DEF TypeOK, Answered
  <2>2. TypeOK' /\ Ownership'
    BY <1>2, <2>1 DEF TypeOK, Ownership, ReuseStates
  <2> QED
    BY <2>2 DEF InPlan
<1>5. CASE \E ok \in BOOLEAN : Acknowledge(c, ok)
  <2>1. PICK ok \in BOOLEAN : Acknowledge(c, ok)
    BY <1>5
  <2> USE <2>1 DEF Acknowledge, ghosts, signals
  <2>2. history' \in Seq(Item)
    BY <1>2, PlanCallType, CallItemType, AppendFacts DEF TypeOK
  <2>3. TypeOK' /\ Ownership'
    BY <1>2, <2>2 DEF TypeOK, Ownership, ReuseStates
  <2> QED
    BY <2>3 DEF InPlan
<1> QED
  BY <1>1, <1>3, <1>4, <1>5

LEMMA TypeInvReusing ==
    ASSUME TypeInv, EndSampling \/ Reusing
    PROVE  TypeInv'
<1> USE DEF TypeInv, ghosts, signals, ReuseStates, LoopStates
<1>1. CASE EndSampling
  BY <1>1 DEF EndSampling, TypeOK, Ownership, InPlan
<1>2. CASE Snapshot
  BY <1>2 DEF Snapshot, TypeOK, Ownership, InPlan
<1>3. CASE Fallback
  BY <1>3 DEF Fallback, TypeOK, Ownership, InPlan
<1>4. CASE Arm
  <2> USE <1>4 DEF Arm
  <2>1. bank \in Bank /\ bank # None /\ bank.next < Len(bank.commands)
    BY DEF Reusable, TypeOK, InPlan
  <2>2. pending' \in Pending
    BY <2>1, NodeCallType, NodeCommand DEF Pending
  <2>3. TypeOK' /\ Ownership'
    BY <2>1, <2>2 DEF TypeOK, Ownership
  <2> QED
    BY <2>1, <2>3 DEF InPlan
<1>5. CASE RecordCall
  <2> USE <1>5 DEF RecordCall
  <2>1. held \in Bank
    BY DEF TypeOK, Ownership
  <2>2. history' \in Seq(Item)
    BY <2>1, NodeCallType, CallItemType, AppendFacts DEF TypeOK
  <2>3. TypeOK' /\ Ownership'
    BY <2>2 DEF TypeOK, Ownership
  <2> QED
    BY <2>3 DEF InPlan
<1>6. CASE RecordResponse
  <2> USE <1>6 DEF RecordResponse
  <2>1. held \in Bank
    BY DEF TypeOK, Ownership
  <2>2. history' \in Seq(Item)
    BY <2>1, NodeCallType, CallItemType, AppendFacts DEF TypeOK
  <2>3. TypeOK' /\ Ownership'
    BY <2>2 DEF TypeOK, Ownership
  <2> QED
    BY <2>3 DEF InPlan
<1>7. CASE CloneHistory
  BY <1>7 DEF CloneHistory, TypeOK, Ownership, InPlan
<1>8. CASE Settle
  <2> USE <1>8 DEF Settle
  <2>1. held \in Bank /\ held # None /\ InPlan(held) /\ bank = None
    BY DEF TypeOK, Ownership
  <2>2. bank' = None \/ (Continues /\ bank' = Advanced(held, next_history))
    BY <2>1
  <2>3. Advanced(held, next_history) \in Bank
    BY <2>1, AdvancedType DEF TypeOK
  <2>4. TypeOK'
    BY <2>2, <2>3 DEF TypeOK
  <2>5. Ownership'
    BY DEF Ownership
  <2>6. (bank # None => InPlan(bank))'
    BY <2>1, <2>2 DEF InPlan, Continues, Advanced
  <2> QED
    BY <2>4, <2>5, <2>6
<1> QED
  BY <1>1, <1>2, <1>3, <1>4, <1>5, <1>6, <1>7, <1>8 DEF Reusing

LEMMA TypeInvDispatching ==
    ASSUME TypeInv, Dispatching
    PROVE  TypeInv'
<1> USE DEF TypeInv, signals, ReuseStates, LoopStates
<1>1. /\ held \in Bank /\ held # None /\ bank = None /\ calls = {}
      /\ held.next < Len(held.commands)
      /\ log \in Seq(Entry)
      /\ pc = "running" => log # <<>>
  BY DEF Dispatching, Start, Deny, Finish, DispatchError, TypeOK, Ownership, InPlan
<1>2. held.commands[held.next + 1] \in Commands
  BY <1>1, NodeCommand
<1>3. ASSUME NEW cmd \in Commands, Start(cmd)
      PROVE  TypeInv'
  <2> USE <1>3 DEF Start
  <2>1. log' \in Seq(Entry) /\ log' # <<>>
    BY <1>1, EntryType, AppendFacts
  <2>2. TypeOK' /\ Ownership'
    BY <1>1, <2>1 DEF TypeOK, Ownership
  <2> QED
    BY <1>1, <2>2 DEF InPlan
<1>4. CASE Deny
  <2> USE <1>4 DEF Deny
  <2>1. log' \in Seq(Entry) /\ log' # <<>>
    BY <1>1, <1>2, EntryType, AppendFacts
  <2>2. TypeOK' /\ Ownership'
    BY <1>1, <2>1 DEF TypeOK, Ownership
  <2> QED
    BY <1>1, <2>2 DEF InPlan
<1>5. ASSUME NEW receipt \in Receipt, NEW accepted \in BOOLEAN, Finish(receipt, accepted)
      PROVE  TypeInv'
  <2> USE <1>5 DEF Finish
  <2>1. log' \in Seq(Entry) /\ log' # <<>>
    BY <1>1, ResolvedType DEF Outcome
  <2>2. pending' \in Pending \cup {None}
    BY ObservedType DEF TypeOK
  <2>3. TypeOK' /\ Ownership'
    BY <1>1, <2>1, <2>2 DEF TypeOK, Ownership
  <2> QED
    BY <1>1, <2>3 DEF InPlan
<1>6. CASE DispatchError
  <2> USE <1>6 DEF DispatchError
  <2>1. log' \in Seq(Entry)
    BY <1>1, <1>2, ResolvedType, EntryType, AppendFacts
  <2>2. TypeOK' /\ Ownership'
    BY <1>1, <2>1 DEF TypeOK, Ownership
  <2> QED
    BY <1>1, <2>2
<1> QED
  BY <1>3, <1>4, <1>5, <1>6 DEF Dispatching

LEMMA TypeInvEnvironment ==
    ASSUME TypeInv, Environment
    PROVE  TypeInv'
<1> USE DEF TypeInv, signals, ghosts, code, ReuseStates, LoopStates
<1>1. ASSUME NEW plan \in Plans, ModelPlan(plan)
      PROVE  TypeInv'
  <2> USE <1>1 DEF ModelPlan
  <2>1. issued' \in Nat /\ history' \in Seq(Item)
    BY PlanCallType, CallItemType, AppendFacts DEF TypeOK
  <2>2. calls' \subseteq PlanRequest
    <3>1. [id |-> issued', plan |-> plan, state |-> "issued"] \in PlanRequest
      BY <2>1 DEF PlanRequest
    <3> QED
      BY <3>1 DEF TypeOK
  <2>3. TypeOK' /\ Ownership'
    BY <2>1, <2>2 DEF TypeOK, Ownership
  <2> QED
    BY <2>3 DEF InPlan
<1>2. CASE ModelOther \/ AddContext \/ Compact
  <2> USE <1>2 DEF ModelOther, AddContext, Compact
  <2>1. edits' \in Nat /\ OtherItem(edits') \in Item
    BY OtherItemType DEF TypeOK
  <2>2. history' \in Seq(Item)
    <3>1. Append(history, OtherItem(edits')) \in Seq(Item)
      BY <2>1, AppendFacts DEF TypeOK
    <3>2. <<OtherItem(edits')>> \in Seq(Item)
      BY <2>1
    <3> QED
      BY <3>1, <3>2
  <2>3. TypeOK' /\ Ownership'
    BY <2>1, <2>2 DEF TypeOK, Ownership
  <2> QED
    BY <2>3 DEF InPlan
<1>3. CASE Cancel \/ ToggleGate
  <2> USE <1>3 DEF Cancel, ToggleGate
  <2>1. cancelled' \in BOOLEAN /\ gate' \in BOOLEAN
    BY DEF TypeOK
  <2>2. TypeOK' /\ Ownership'
    BY <2>1 DEF TypeOK, Ownership
  <2> QED
    BY <2>2 DEF InPlan
<1>4. CASE EndTurn
  BY <1>4 DEF EndTurn, TypeOK, Ownership, InPlan
<1>5. ASSUME NEW receipt \in Receipt, NestedResult(receipt)
      PROVE  TypeInv'
  <2> USE <1>5 DEF NestedResult
  <2>1. pending' \in Pending \cup {None}
    BY ObservedType DEF TypeOK
  <2>2. TypeOK' /\ Ownership'
    BY <2>1 DEF TypeOK, Ownership
  <2> QED
    BY <2>2 DEF InPlan
<1> QED
  BY <1>1, <1>2, <1>3, <1>4, <1>5 DEF Environment

LEMMA TypeInvStep == TypeInv /\ [Next]_vars => TypeInv'
<1>1. ASSUME TypeInv, UNCHANGED vars
      PROVE  TypeInv'
  BY <1>1 DEF vars, code, signals, ghosts, TypeInv, TypeOK, Ownership, InPlan
<1> QED
  BY <1>1, TypeInvHandling, TypeInvReusing, TypeInvDispatching, TypeInvEnvironment DEF Next

(* Every variable keeps its type, and every bank points at a command of    *)
(* the plan it was registered with, whatever the turn's tasks do.          *)
THEOREM TypeCorrect == Spec => []TypeOK
<1>1. Spec => []TypeInv
  BY TypeInvInit, TypeInvStep, PTL DEF Spec
<1> QED
  BY <1>1, PTL DEF TypeInv

-----------------------------------------------------------------------------
(***************************************************************************)
(* Order and admission of dispatches. Ready(b) is what the log looks like  *)
(* while the next command of b has not been dispatched, Ran(b) afterwards. *)
(* ReceiptIsTrue is why a stored receipt may be relied on: a receipt that  *)
(* would be admitted was observed for the last dispatch, which succeeded   *)
(* with the authored command.                                              *)
(***************************************************************************)
LastEntry == log[Len(log)]

Ready(b) ==
    IF b.next = 0
    THEN \A i \in 1..Len(log) : log[i].graph < b.id
    ELSE /\ log # <<>>
         /\ LastEntry.graph = b.id
         /\ LastEntry.node = b.next - 1
         /\ LastEntry.outcome = "ok"
         /\ LastEntry.cmd = b.commands[b.next]

Ran(b) ==
    /\ log # <<>>
    /\ LastEntry.graph = b.id
    /\ LastEntry.node = b.next

ReceiptIsTrue ==
    held # None /\ pending # None /\ pending.call = NodeCall(held) =>
        /\ pending.arguments = held.commands[held.next + 1]
        /\ pending.receipt # None =>
              /\ pc \in {"responded", "recorded", "settle"}
              /\ AdmittedReceipt(pending.receipt) =>
                    /\ LastEntry.outcome = "ok"
                    /\ LastEntry.cmd = held.commands[held.next + 1]

LogInv ==
    /\ \A i \in 1..Len(log) : log[i].graph \in 1..Len(graphs)
    /\ SuccessorsFollowSuccess
    /\ SuccessorsFollowLiteral
    /\ DispatchedOnce

DispatchInv ==
    /\ LogInv
    /\ bank # None => Ready(bank)
    /\ pc \in {"armed", "dispatch"} => Ready(held)
    /\ pc \in {"running", "responded", "recorded", "settle"} => Ran(held)
    /\ ReceiptIsTrue

LEMMA DispatchInvInit == Init => DispatchInv
  BY DEF Init, DispatchInv, LogInv, SuccessorsFollowSuccess, SuccessorsFollowLiteral,
         DispatchedOnce, ReceiptIsTrue

(* An attempt to run the command the graph is ready for extends the log well. *)
LEMMA AttemptKeepsLog ==
    ASSUME TypeInv, DispatchInv, pc = "dispatch", UNCHANGED graphs,
           NEW cmd \in Commands, NEW outcome \in {"running", "bad"},
           log' = Append(log, EntryOf(held, cmd, outcome))
    PROVE  /\ LogInv'
           /\ log' # <<>>
           /\ LastEntry'.graph = held.id
           /\ LastEntry'.node = held.next
<1> DEFINE e == EntryOf(held, cmd, outcome)
<1>1. held \in Bank /\ InPlan(held) /\ Ready(held) /\ log \in Seq(Entry) /\ graphs \in Seq(Graph)
  BY DEF TypeInv, TypeOK, Ownership, ReuseStates, DispatchInv
<1>2. e \in Entry /\ e.graph = held.id /\ e.node = held.next
  BY <1>1, EntryType DEF EntryOf
<1>3. /\ Len(log') = Len(log) + 1
      /\ log' # <<>>
      /\ \A i \in 1..Len(log) : log'[i] = log[i]
      /\ log'[Len(log) + 1] = e
  BY <1>1, <1>2, AppendFacts
<1> HIDE DEF e
<1>4. \A i \in 1..Len(log) : log[i].node \in Nat /\ log[i].graph \in Nat
  <2>1. \A i \in 1..Len(log) : log[i] \in Entry
    BY <1>1
  <2> QED
    BY <2>1 DEF Entry
<1>5. Len(log) \in Nat /\ held.id \in 1..Len(graphs) /\ held.next \in Nat /\ held.id = Len(graphs)
      /\ Len(graphs) \in Nat
  BY <1>1 DEF Bank, InPlan
<1>6. \A i \in 1..Len(log') : log'[i].graph \in 1..Len(graphs')
  BY <1>2, <1>3, <1>5 DEF DispatchInv, LogInv
<1>7. SuccessorsFollowSuccess'
  <2> SUFFICES ASSUME NEW i \in 1..Len(log'), log'[i].node > 0
               PROVE  /\ i > 1
                      /\ log'[i - 1].graph = log'[i].graph
                      /\ log'[i - 1].node = log'[i].node - 1
                      /\ log'[i - 1].outcome = "ok"
    BY DEF SuccessorsFollowSuccess
  <2>1. CASE i \in 1..Len(log)
    BY <2>1, <1>3, <1>5 DEF DispatchInv, LogInv, SuccessorsFollowSuccess
  <2>2. CASE i = Len(log) + 1
    <3>1. held.next # 0
      BY <2>2, <1>2, <1>3, <1>5
    <3>2. Len(log) >= 1
      BY <3>1, <1>1 DEF Ready
    <3> QED
      BY <2>2, <3>1, <3>2, <1>1, <1>2, <1>3, <1>5 DEF Ready, LastEntry
  <2> QED
    BY <2>1, <2>2, <1>3, <1>5
<1>8. SuccessorsFollowLiteral'
  <2> SUFFICES ASSUME NEW i \in 2..Len(log'), log'[i].node > 0
               PROVE  log'[i - 1].cmd = graphs[log'[i].graph].plan[log'[i].node]
    BY DEF SuccessorsFollowLiteral
  <2>1. CASE i \in 2..Len(log)
    BY <2>1, <1>3, <1>5 DEF DispatchInv, LogInv, SuccessorsFollowLiteral
  <2>2. CASE i = Len(log) + 1
    <3>1. held.next # 0
      BY <2>2, <1>2, <1>3, <1>5
    <3> QED
      BY <2>2, <3>1, <1>1, <1>2, <1>3, <1>5 DEF Ready, LastEntry, InPlan
  <2> QED
    BY <2>1, <2>2, <1>3, <1>5
<1>9. DispatchedOnce'
  <2> SUFFICES ASSUME NEW i \in 1..Len(log'), NEW j \in 1..Len(log'), i < j
               PROVE  \/ log'[i].graph < log'[j].graph
                      \/ log'[i].graph = log'[j].graph /\ log'[i].node < log'[j].node
    BY DEF DispatchedOnce
  <2>1. i \in 1..Len(log) /\ log'[i] = log[i]
    BY <1>3, <1>5
  <2>2. CASE j \in 1..Len(log)
    BY <2>1, <2>2, <1>3, <1>5 DEF DispatchInv, LogInv, DispatchedOnce
  <2>3. CASE j = Len(log) + 1
    <3>1. log'[j].graph = held.id /\ log'[j].node = held.next
      BY <2>3, <1>2, <1>3
    <3>2. CASE held.next = 0
      BY <3>1, <3>2, <2>1, <1>1 DEF Ready
    <3>3. CASE held.next # 0
      <4>1. Len(log) \in 1..Len(log) /\ log[Len(log)].graph = held.id
            /\ log[Len(log)].node = held.next - 1
        BY <3>3, <1>1, <1>5 DEF Ready, LastEntry
      <4>2. CASE i = Len(log)
        BY <4>1, <4>2, <3>1, <2>1, <1>5
      <4>3. CASE i < Len(log)
        <5>1. \/ log[i].graph < log[Len(log)].graph
              \/ log[i].graph = log[Len(log)].graph /\ log[i].node < log[Len(log)].node
          BY <4>1, <4>3, <2>1 DEF DispatchInv, LogInv, DispatchedOnce
        <5> QED
          BY <5>1, <4>1, <3>1, <2>1, <1>4, <1>5
      <4> QED
        BY <4>2, <4>3, <2>1, <1>5
    <3> QED
      BY <3>2, <3>3
  <2> QED
    BY <2>2, <2>3, <1>3, <1>5
<1> QED
  BY <1>2, <1>3, <1>6, <1>7, <1>8, <1>9 DEF LogInv, LastEntry

(* Learning the outcome of the last dispatch changes nothing it follows. *)
LEMMA ResolveKeepsLog ==
    ASSUME TypeInv, DispatchInv, log # <<>>, UNCHANGED graphs,
           NEW outcome \in {"ok", "bad"}, log' = ResolvedLog(outcome)
    PROVE  /\ LogInv'
           /\ log' # <<>>
           /\ LastEntry'.graph = LastEntry.graph
           /\ LastEntry'.node = LastEntry.node
           /\ LastEntry'.cmd = LastEntry.cmd
           /\ LastEntry'.outcome = outcome
<1>1. log \in Seq(Entry) /\ Len(log) \in Nat /\ Len(log) >= 1
  BY DEF TypeInv, TypeOK
<1>2. /\ Len(log') = Len(log)
      /\ log' # <<>>
      /\ \A i \in 1..Len(log) : i # Len(log) => log'[i] = log[i]
      /\ log'[Len(log)] = [log[Len(log)] EXCEPT !.outcome = outcome]
  BY <1>1, ResolvedType
<1>3. \A i \in 1..Len(log) : log[i] \in Entry
  BY <1>1
<1>4. /\ log'[Len(log)].graph = LastEntry.graph
      /\ log'[Len(log)].node = LastEntry.node
      /\ log'[Len(log)].cmd = LastEntry.cmd
      /\ log'[Len(log)].late = LastEntry.late
      /\ log'[Len(log)].outcome = outcome
  <2>1. Len(log) \in 1..Len(log) /\ LastEntry \in Entry
    BY <1>1, <1>3 DEF LastEntry
  <2>2. log'[Len(log)] = [LastEntry EXCEPT !.outcome = outcome]
    BY <2>1, <1>2 DEF LastEntry
  <2> QED
    BY <2>1, <2>2, EntryUpdate
<1>5. \A i \in 1..Len(log) : /\ log'[i].graph = log[i].graph
                             /\ log'[i].node = log[i].node
                             /\ log'[i].cmd = log[i].cmd
                             /\ i < Len(log) => log'[i].outcome = log[i].outcome
  <2> TAKE i \in 1..Len(log)
  <2>1. CASE i = Len(log)
    BY <2>1, <1>4 DEF LastEntry
  <2>2. CASE i < Len(log)
    <3>1. log'[i] = log[i]
      BY <2>2, <1>2
    <3> QED
      BY <3>1
  <2> QED
    BY <2>1, <2>2, <1>1
<1>6. SuccessorsFollowSuccess'
  <2> SUFFICES ASSUME NEW i \in 1..Len(log), log'[i].node > 0
               PROVE  /\ i > 1
                      /\ log'[i - 1].graph = log'[i].graph
                      /\ log'[i - 1].node = log'[i].node - 1
                      /\ log'[i - 1].outcome = "ok"
    BY <1>2 DEF SuccessorsFollowSuccess
  <2>1. /\ i > 1
        /\ log[i - 1].graph = log[i].graph
        /\ log[i - 1].node = log[i].node - 1
        /\ log[i - 1].outcome = "ok"
    BY <1>5 DEF DispatchInv, LogInv, SuccessorsFollowSuccess
  <2>2. i - 1 \in 1..Len(log) /\ i - 1 < Len(log)
    BY <2>1, <1>1
  <2> QED
    BY <2>1, <2>2, <1>5
<1>7. SuccessorsFollowLiteral'
  BY <1>1, <1>2, <1>5 DEF DispatchInv, LogInv, SuccessorsFollowLiteral
<1>8. DispatchedOnce'
  BY <1>2, <1>5 DEF DispatchInv, LogInv, DispatchedOnce
<1>9. \A i \in 1..Len(log') : log'[i].graph \in 1..Len(graphs')
  BY <1>2, <1>5 DEF DispatchInv, LogInv
<1> QED
  BY <1>1, <1>2, <1>4, <1>5, <1>6, <1>7, <1>8, <1>9 DEF LogInv, LastEntry

LEMMA LogInvStable ==
    ASSUME LogInv, UNCHANGED <<log, graphs>>
    PROVE  LogInv'
<1>1. SuccessorsFollowSuccess' /\ SuccessorsFollowLiteral' /\ DispatchedOnce'
  BY DEF LogInv, SuccessorsFollowSuccess, SuccessorsFollowLiteral, DispatchedOnce
<1> QED
  BY <1>1 DEF LogInv

LEMMA DispatchInvHandling ==
    ASSUME TypeInv, DispatchInv, Handling
    PROVE  DispatchInv'
<1>1. pc = "tools" /\ held = None /\ pc' = pc /\ held' = held
  BY DEF TypeInv, Ownership, ReuseStates, Handling, HandleRegister, HandleRefuse, Acknowledge
<1>2. PICK c \in calls : \/ HandleRegister(c)
                         \/ HandleRefuse(c)
                         \/ \E ok \in BOOLEAN : Acknowledge(c, ok)
  BY DEF Handling
<1>3. ReceiptIsTrue'
  BY <1>1 DEF ReceiptIsTrue
<1>4. CASE HandleRegister(c)
  <2> USE <1>4 DEF HandleRegister
  <2>1. graphs \in Seq(Graph) /\ Len(graphs) \in Nat /\ log \in Seq(Entry)
    BY DEF TypeInv, TypeOK
  <2>2. Len(graphs') = Len(graphs) + 1 /\ \A g \in 1..Len(graphs) : graphs'[g] = graphs[g]
    BY <2>1
  <2>3. \A i \in 1..Len(log) : log[i].graph \in 1..Len(graphs)
    BY DEF DispatchInv, LogInv
  <2>4. SuccessorsFollowLiteral'
    BY <2>1, <2>2, <2>3 DEF DispatchInv, LogInv, SuccessorsFollowLiteral
  <2>5. LogInv'
    <3>1. SuccessorsFollowSuccess' /\ DispatchedOnce'
      BY DEF DispatchInv, LogInv, SuccessorsFollowSuccess, DispatchedOnce
    <3>2. \A i \in 1..Len(log') : log'[i].graph \in 1..Len(graphs')
      BY <2>1, <2>2, <2>3
    <3> QED
      BY <2>4, <3>1, <3>2 DEF LogInv
  <2>6. Ready(bank)'
    BY <2>1, <2>3 DEF Ready
  <2> QED
    BY <1>1, <1>3, <2>5, <2>6 DEF DispatchInv
<1>5. CASE HandleRefuse(c) \/ \E ok \in BOOLEAN : Acknowledge(c, ok)
  BY <1>1, <1>3, <1>5 DEF HandleRefuse, Acknowledge, ghosts, DispatchInv, LogInv, Ready, LastEntry,
     SuccessorsFollowSuccess, SuccessorsFollowLiteral, DispatchedOnce
<1> QED
  BY <1>2, <1>4, <1>5

LEMMA DispatchInvReusing ==
    ASSUME TypeInv, DispatchInv, EndSampling \/ Reusing
    PROVE  DispatchInv'
<1>1. LogInv' /\ UNCHANGED <<log, graphs>>
  <2>1. UNCHANGED <<log, graphs>>
    BY DEF Reusing, EndSampling, Snapshot, Fallback, Arm, RecordCall, RecordResponse,
           CloneHistory, Settle, ghosts
  <2> QED
    BY <2>1, LogInvStable DEF DispatchInv
<1>2. \A b : (Ready(b) => Ready(b)') /\ (Ran(b) => Ran(b)')
  BY <1>1 DEF Ready, Ran, LastEntry
<1>3. CASE EndSampling \/ Snapshot \/ Fallback
  <2>1. held = None /\ held' = None /\ (bank' = bank \/ bank' = None)
        /\ pc' \in {"boundary", "entry", "sampling"}
    BY <1>3 DEF EndSampling, Snapshot, Fallback, TypeInv, Ownership, ReuseStates
  <2> QED
    BY <1>1, <2>1 DEF DispatchInv, ReceiptIsTrue, Ready, LastEntry
<1>4. CASE Arm
  <2> USE <1>4 DEF Arm
  <2>1. Ready(held)'
    BY <1>1 DEF Reusable, DispatchInv, Ready, LastEntry
  <2>2. ReceiptIsTrue'
    BY DEF ReceiptIsTrue
  <2> QED
    BY <1>1, <2>1, <2>2 DEF DispatchInv
<1>5. CASE RecordCall
  BY <1>1, <1>5 DEF RecordCall, DispatchInv, ReceiptIsTrue, Ready, LastEntry, NodeCall
<1>6. CASE RecordResponse \/ CloneHistory
  BY <1>1, <1>6 DEF RecordResponse, CloneHistory, DispatchInv, ReceiptIsTrue, Ready, Ran,
     LastEntry, NodeCall
<1>7. CASE Settle
  <2> USE <1>7 DEF Settle
  <2>1. held # None /\ held \in Bank /\ bank = None /\ log \in Seq(Entry)
    BY DEF TypeInv, TypeOK, Ownership, ReuseStates
  <2>2. Ran(held)
    BY DEF DispatchInv
  <2>3. ASSUME Continues
        PROVE  Ready(bank)'
    <3>1. pending # None /\ pending.call = NodeCall(held) /\ pending.receipt # None
          /\ AdmittedReceipt(pending.receipt)
      BY <2>3 DEF Continues, TakenReceipt
    <3>2. LastEntry.outcome = "ok" /\ LastEntry.cmd = held.commands[held.next + 1]
      BY <2>1, <3>1 DEF DispatchInv, ReceiptIsTrue
    <3>3. held.next + 1 # 0 /\ (held.next + 1) - 1 = held.next
      BY <2>1 DEF Bank
    <3>4. bank'.next = held.next + 1 /\ bank'.id = held.id /\ bank'.commands = held.commands
      BY <2>3 DEF Advanced
    <3>5. LastEntry' = LastEntry /\ log' = log
      BY <1>1 DEF LastEntry
    <3> QED
      BY <2>2, <3>2, <3>3, <3>4, <3>5 DEF Ready, Ran
  <2>4. ReceiptIsTrue'
    BY DEF ReceiptIsTrue
  <2>5. (bank # None => Ready(bank))'
    BY <2>1, <2>3
  <2> QED
    BY <1>1, <2>4, <2>5 DEF DispatchInv
<1> QED
  BY <1>3, <1>4, <1>5, <1>6, <1>7 DEF Reusing

LEMMA DispatchInvDispatching ==
    ASSUME TypeInv, DispatchInv, Dispatching
    PROVE  DispatchInv'
<1>1. /\ held \in Bank /\ held # None /\ bank = None
      /\ log \in Seq(Entry)
      /\ held.commands[held.next + 1] \in Commands
      /\ pc = "running" => log # <<>> /\ Ran(held)
  <2>1. held \in Bank /\ held # None /\ bank = None /\ held.next < Len(held.commands)
    BY DEF Dispatching, Start, Deny, Finish, DispatchError, TypeInv, TypeOK, Ownership, InPlan,
           ReuseStates
  <2> QED
    BY <2>1, NodeCommand DEF TypeInv, TypeOK, DispatchInv, Ran
<1>2. ASSUME NEW cmd \in Commands, Start(cmd)
      PROVE  DispatchInv'
  <2> USE <1>2 DEF Start
  <2>1. LogInv' /\ Ran(held)'
    BY <1>1, AttemptKeepsLog DEF Ran
  <2>2. ReceiptIsTrue'
    BY DEF DispatchInv, ReceiptIsTrue, NodeCall
  <2> QED
    BY <1>1, <2>1, <2>2 DEF DispatchInv
<1>3. CASE Deny
  <2> USE <1>3 DEF Deny
  <2>1. LogInv' /\ Ran(held)'
    BY <1>1, AttemptKeepsLog DEF Ran
  <2>2. ReceiptIsTrue'
    BY DEF DispatchInv, ReceiptIsTrue, NodeCall
  <2> QED
    BY <1>1, <2>1, <2>2 DEF DispatchInv
<1>4. ASSUME NEW receipt \in Receipt, NEW accepted \in BOOLEAN, Finish(receipt, accepted)
      PROVE  DispatchInv'
  <2> USE <1>4 DEF Finish
  <2>1. /\ LogInv' /\ Ran(held)'
        /\ LastEntry'.cmd = LastEntry.cmd
        /\ LastEntry'.outcome = Outcome(receipt, accepted)
    <3>1. Outcome(receipt, accepted) \in {"ok", "bad"}
      BY DEF Outcome
    <3> QED
      BY <1>1, <3>1, ResolveKeepsLog DEF Ran
  <2>2. ReceiptIsTrue'
    <3> SUFFICES ASSUME pending' # None, pending'.call = NodeCall(held)
                 PROVE  /\ pending'.arguments = held.commands[held.next + 1]
                        /\ pending'.receipt # None =>
                              (AdmittedReceipt(pending'.receipt) =>
                                 /\ LastEntry'.outcome = "ok"
                                 /\ LastEntry'.cmd = held.commands[held.next + 1])
      BY DEF ReceiptIsTrue, NodeCall
    <3>1. CASE ~accepted
      BY <3>1, <1>1 DEF DispatchInv, ReceiptIsTrue
    <3>2. CASE accepted
      <4>1. pending \in Pending
        BY <3>2 DEF TypeInv, TypeOK, Observed
      <4>2. pending.call = NodeCall(held) /\ pending.arguments = LastEntry.cmd
            /\ pending' = [pending EXCEPT !.receipt = receipt]
        BY <3>2, <4>1 DEF Observed, LastEntry
      <4>3. pending'.receipt = receipt /\ pending'.arguments = pending.arguments
        BY <4>1, <4>2 DEF Pending
      <4>4. pending.arguments = held.commands[held.next + 1]
        BY <1>1, <4>1, <4>2, NoneAssumption DEF DispatchInv, ReceiptIsTrue
      <4> QED
        BY <3>2, <4>2, <4>3, <4>4, <2>1 DEF AdmittedReceipt, Outcome
    <3> QED
      BY <3>1, <3>2
  <2> QED
    BY <1>1, <2>1, <2>2 DEF DispatchInv
<1>5. CASE DispatchError
  <2> USE <1>5 DEF DispatchError
  <2>1. LogInv'
    <3>1. CASE pc = "running"
      BY <3>1, <1>1, ResolveKeepsLog
    <3>2. CASE pc = "dispatch"
      BY <3>2, <1>1, AttemptKeepsLog
    <3> QED
      BY <3>1, <3>2
  <2>2. ReceiptIsTrue'
    BY DEF ReceiptIsTrue
  <2> QED
    BY <1>1, <2>1, <2>2 DEF DispatchInv
<1> QED
  BY <1>2, <1>3, <1>4, <1>5 DEF Dispatching

LEMMA DispatchInvEnvironment ==
    ASSUME TypeInv, DispatchInv, Environment
    PROVE  DispatchInv'
<1>1. /\ UNCHANGED <<log, graphs>>
      /\ held' = held
      /\ bank' = bank \/ bank' = None
      /\ pc' = pc \/ pc' \in {"tools", "ended"}
  BY DEF Environment, ModelPlan, ModelOther, AddContext, Compact, Cancel, ToggleGate, EndTurn,
         NestedResult, code, ghosts
<1>2. LogInv'
  BY <1>1, LogInvStable DEF DispatchInv
<1>3. ReceiptIsTrue'
  <2>1. CASE held = None
    BY <1>1, <2>1 DEF ReceiptIsTrue
  <2>2. CASE held # None /\ pending' = pending /\ pc' = pc
    BY <1>1, <2>2 DEF DispatchInv, ReceiptIsTrue, LastEntry, NodeCall
  <2>3. ASSUME NEW receipt \in Receipt, NestedResult(receipt), held # None
        PROVE  ReceiptIsTrue'
    <3>1. NodeCall(held) # NestedCall
      BY <2>3 DEF TypeInv, InPlan, NodeCall, NestedCall
    <3>2. pending' # None /\ pending'.call = NodeCall(held) => pending' = pending
      BY <2>3, <3>1 DEF NestedResult, Observed, TypeInv, TypeOK, Pending
    <3> QED
      BY <1>1, <2>3, <3>2 DEF NestedResult, DispatchInv, ReceiptIsTrue, LastEntry, NodeCall
  <2>4. held # None => pc \in ReuseStates
    BY DEF TypeInv, Ownership
  <2> QED
    BY <2>1, <2>2, <2>3, <2>4 DEF Environment, ModelPlan, ModelOther, AddContext, Compact,
       Cancel, ToggleGate, EndTurn, code, ReuseStates
<1> QED
  BY <1>1, <1>2, <1>3 DEF DispatchInv, Ready, Ran, LastEntry

LEMMA DispatchInvStep == TypeInv /\ DispatchInv /\ [Next]_vars => DispatchInv'
<1>1. ASSUME DispatchInv, UNCHANGED vars
      PROVE  DispatchInv'
  BY <1>1 DEF vars, code, signals, ghosts, DispatchInv, LogInv, ReceiptIsTrue, Ready, Ran,
     LastEntry, NodeCall, SuccessorsFollowSuccess, SuccessorsFollowLiteral, DispatchedOnce
<1> QED
  BY <1>1, DispatchInvHandling, DispatchInvReusing, DispatchInvDispatching,
     DispatchInvEnvironment DEF Next

LEMMA DispatchInvariant == Spec => [](TypeInv /\ DispatchInv)
<1>1. Init => TypeInv /\ DispatchInv
  BY TypeInvInit, DispatchInvInit
<1>2. TypeInv /\ DispatchInv /\ [Next]_vars => (TypeInv /\ DispatchInv)'
  BY TypeInvStep, DispatchInvStep
<1> QED
  BY <1>1, <1>2, PTL DEF Spec

(* No command is dispatched unless its predecessor in the graph was        *)
(* observed to succeed.                                                    *)
THEOREM SuccessorSafety == Spec => []SuccessorsFollowSuccess
  BY DispatchInvariant, PTL DEF DispatchInv, LogInv

(* Together: every variable keeps its type, and no command follows one     *)
(* that did not succeed.                                                   *)
THEOREM ReuseIsSound == Spec => []SoundReuse
  BY TypeCorrect, SuccessorSafety, PTL DEF SoundReuse

(* No command is dispatched after one that a hook rewrote. *)
THEOREM LiteralSafety == Spec => []SuccessorsFollowLiteral
  BY DispatchInvariant, PTL DEF DispatchInv, LogInv

(* No command is dispatched twice, and graphs do not interleave. *)
THEOREM DispatchOnce == Spec => []DispatchedOnce
  BY DispatchInvariant, PTL DEF DispatchInv, LogInv

-----------------------------------------------------------------------------
(***************************************************************************)
(* Who changed the conversation. The items of others carry the number of   *)
(* their change, so a history that mentions the last change tells that     *)
(* nothing was missed.                                                     *)
(***************************************************************************)
OthersUpTo(h, n) == \A i \in 1..Len(h) : h[i].kind = "other" => h[i].id.node <= n
Mentions(h, n) == n > 0 => \E i \in 1..Len(h) : h[i] = OtherItem(n)
StartsWith(h, p) == Len(p) <= Len(h) /\ \A i \in 1..Len(p) : h[i] = p[i]

ChangesInv ==
    /\ OthersUpTo(history, edits) /\ Mentions(history, edits)
    /\ \A g \in 1..Len(graphs) : graphs[g].edits <= edits

(* Since the snapshot, an entry of try_reuse has seen only changes of others. *)
Snapped(m) ==
    /\ Mentions(input, m) /\ StartsWith(history, input)
    /\ Len(history) = Len(input) + (edits - m)
    /\ bank # None => graphs[bank.id].edits <= m
EntryInv == pc = "entry" => \E m \in 0..edits : Snapped(m)

(* A bank predicts the author's context, or its own commands added to it. *)
Predicts(b) ==
    /\ OthersUpTo(b.checkpoint.base, graphs[b.id].edits)
    /\ IF b.next = 0
       THEN b.checkpoint.call = graphs[b.id].call /\ b.checkpoint.base = graphs[b.id].base
       ELSE b.checkpoint.call = None /\ IsOwnContext(b.checkpoint.base, b.id, b.next)

(* h is the snapshot with e changes of others and the first k of the call  *)
(* and the response of try_reuse added in any order.                       *)
Grown(h, e, k) ==
    /\ StartsWith(h, input)
    /\ Len(h) = Len(input) + e + k
    /\ e = 0 /\ k > 0 => h[Len(input) + 1] = CallItem(NodeCall(held))
    /\ e = 0 /\ k > 1 => h[Len(input) + 2] = OutputItem(NodeCall(held), TRUE)
Since == edits - graphs[held.id].edits
Recorded == IF pc \in {"recorded", "settle"} THEN 2
            ELSE IF pc \in {"dispatch", "running", "responded"} THEN 1 ELSE 0

Held ==
    /\ IsOwnContext(input, held.id, held.next)
    /\ OthersUpTo(input, graphs[held.id].edits)
    /\ pc # "settle" => Grown(history, Since, Recorded)
    /\ pc \in {"running", "responded", "recorded"} => (LastEntry.late => cancelled \/ Since # 0)
    /\ pc = "settle" => \E e \in Nat : Grown(next_history, e, 2) /\ (LastEntry.late => cancelled \/ e # 0)

ContextInv ==
    /\ ChangesInv /\ EntryInv
    /\ bank # None => Predicts(bank)
    /\ held # None => Held
-----------------------------------------------------------------------------
LEMMA OthersFacts ==
    ASSUME NEW n \in Nat
    PROVE  OtherItem(n).kind = "other" /\ OtherItem(n).id.node = n
  BY DEF OtherItem, PlanCall

LEMMA ItemKinds ==
    ASSUME NEW id, NEW ok
    PROVE  CallItem(id).kind = "call" /\ OutputItem(id, ok).kind = "output"
  BY DEF CallItem, OutputItem

(* An item that is not another party's changes none of this. *)
LEMMA OwnItemKeeps ==
    ASSUME NEW h \in Seq(Item), NEW x \in Item, x.kind # "other", NEW n \in Nat
    PROVE  /\ OthersUpTo(h, n) => OthersUpTo(Append(h, x), n)
           /\ Mentions(h, n) => Mentions(Append(h, x), n)
  BY DEF OthersUpTo, Mentions

LEMMA OtherItemAdds ==
    ASSUME NEW h \in Seq(Item), NEW n \in Nat, OthersUpTo(h, n)
    PROVE  /\ OthersUpTo(Append(h, OtherItem(n + 1)), n + 1)
           /\ Mentions(Append(h, OtherItem(n + 1)), n + 1)
<1>1. OtherItem(n + 1) \in Item /\ \A i \in 1..Len(h) : h[i] \in Item
  BY OtherItemType
<1>2. \A i \in 1..Len(h) : h[i].id.node \in Nat
  BY <1>1 DEF Item, CallId
<1>3. Append(h, OtherItem(n + 1))[Len(h) + 1] = OtherItem(n + 1)
  BY <1>1
<1>4. Mentions(Append(h, OtherItem(n + 1)), n + 1)
  BY <1>1, <1>3 DEF Mentions
<1>5. OthersUpTo(Append(h, OtherItem(n + 1)), n + 1)
  <2> SUFFICES ASSUME NEW i \in 1..Len(Append(h, OtherItem(n + 1))),
                      Append(h, OtherItem(n + 1))[i].kind = "other"
               PROVE  Append(h, OtherItem(n + 1))[i].id.node <= n + 1
    BY DEF OthersUpTo
  <2>1. CASE i \in 1..Len(h)
    BY <2>1, <1>1, <1>2 DEF OthersUpTo
  <2>2. CASE i = Len(h) + 1
    BY <2>2, <1>3, OthersFacts
  <2>3. QED
    BY <2>1, <2>2, <1>1
<1>6. QED
  BY <1>4, <1>5

LEMMA OnlyOther ==
    ASSUME NEW n \in Nat
    PROVE  OthersUpTo(<<OtherItem(n)>>, n) /\ Mentions(<<OtherItem(n)>>, n)
<1>1. Len(<<OtherItem(n)>>) = 1 /\ <<OtherItem(n)>>[1] = OtherItem(n)
  OBVIOUS
<1>2. OthersUpTo(<<OtherItem(n)>>, n)
  BY <1>1, OthersFacts DEF OthersUpTo
<1>3. QED
  BY <1>1, <1>2 DEF Mentions

LEMMA StartsWithMore ==
    ASSUME NEW S, NEW h \in Seq(S), NEW p \in Seq(S), NEW x \in S, StartsWith(h, p)
    PROVE  StartsWith(Append(h, x), p)
  BY DEF StartsWith

LEMMA ItemsOfSteps ==
    ASSUME TypeInv
    PROVE  /\ held # None => CallItem(NodeCall(held)) \in Item /\ OutputItem(NodeCall(held), TRUE) \in Item
           /\ \A n \in Nat, ok \in BOOLEAN : CallItem(PlanCall(n)) \in Item /\ OutputItem(PlanCall(n), ok) \in Item
           /\ history \in Seq(Item) /\ input \in Seq(Item) /\ next_history \in Seq(Item)
           /\ edits \in Nat /\ issued \in Nat /\ graphs \in Seq(Graph)
  BY NodeCallType, PlanCallType, CallItemType DEF TypeInv, TypeOK

LEMMA GraphEdits == ASSUME TypeInv PROVE \A g \in 1..Len(graphs) : graphs[g] \in Graph /\ graphs[g].edits \in Nat
<1>1. \A g \in 1..Len(graphs) : graphs[g] \in Graph
  BY DEF TypeInv, TypeOK
<1>2. QED
  BY <1>1 DEF Graph

(* How a step may change the conversation. *)
LEMMA ChangesStep == TypeInv /\ ChangesInv /\ [Next]_vars => ChangesInv'
<1> SUFFICES ASSUME TypeInv, ChangesInv, [Next]_vars PROVE ChangesInv'
  OBVIOUS
<1>0. /\ history \in Seq(Item) /\ edits \in Nat /\ issued \in Nat /\ graphs \in Seq(Graph)
      /\ OthersUpTo(history, edits) /\ Mentions(history, edits)
      /\ \A g \in 1..Len(graphs) : graphs[g].edits <= edits /\ graphs[g].edits \in Nat
  BY ItemsOfSteps, GraphEdits DEF ChangesInv
<1>1. CASE UNCHANGED <<history, edits, graphs>>
  BY <1>0, <1>1 DEF ChangesInv, OthersUpTo, Mentions
<1>2. ASSUME NEW x \in Item, x.kind # "other", history' = Append(history, x), UNCHANGED <<edits, graphs>>
      PROVE  ChangesInv'
  <2>1. OthersUpTo(history', edits) /\ Mentions(history', edits)
    BY <1>0, <1>2, OwnItemKeeps
  <2>2. QED
    BY <1>0, <1>2, <2>1 DEF ChangesInv, OthersUpTo, Mentions
<1>3. ASSUME edits' = edits + 1, UNCHANGED graphs,
             history' \in {Append(history, OtherItem(edits')), <<OtherItem(edits')>>}
      PROVE  ChangesInv'
  <2>1. OthersUpTo(history', edits + 1) /\ Mentions(history', edits + 1)
    <3>1. edits + 1 \in Nat
      BY <1>0
    <3>2. CASE history' = Append(history, OtherItem(edits + 1))
      BY <1>0, <3>2, OtherItemAdds
    <3>3. CASE history' = <<OtherItem(edits + 1)>>
      BY <3>1, <3>3, OnlyOther
    <3>4. QED
      BY <1>3, <3>2, <3>3
  <2>2. \A g \in 1..Len(graphs') : graphs'[g].edits <= edits'
    BY <1>0, <1>3
  <2>3. QED
    BY <1>3, <2>1, <2>2 DEF ChangesInv, OthersUpTo, Mentions
<1>4. ASSUME NEW r \in [plan : Seq(Commands), base : Seq(Item), call : CallId, edits : {edits}],
             graphs' = Append(graphs, r), UNCHANGED <<history, edits>>
      PROVE  ChangesInv'
  <2>1. \A g \in 1..Len(graphs') : graphs'[g].edits <= edits'
    <3>1. r \in Graph /\ r.edits = edits
      BY <1>0, <1>4 DEF Graph
    <3>2. Len(graphs') = Len(graphs) + 1 /\ graphs'[Len(graphs) + 1] = r
          /\ \A g \in 1..Len(graphs) : graphs'[g] = graphs[g]
      BY <1>0, <1>4, <3>1
    <3>3. Len(graphs) \in Nat
      BY <1>0
    <3>4. QED
      BY <1>0, <1>4, <3>1, <3>2, <3>3
  <2>2. QED
    BY <1>0, <1>4, <2>1 DEF ChangesInv, OthersUpTo, Mentions
<1>5. CASE Handling
  <2>1. PICK c \in calls : \/ HandleRegister(c)
                           \/ HandleRefuse(c)
                           \/ \E ok \in BOOLEAN : Acknowledge(c, ok)
    BY <1>5 DEF Handling
  <2>2. c \in PlanRequest /\ c.id \in Nat
    BY DEF TypeInv, TypeOK, PlanRequest
  <2>3. CASE HandleRegister(c)
    <3>1. c.plan \in Seq(Commands)
      <4>1. c.plan \in Seq(Words)
        BY <2>2, PlanAssumption DEF PlanRequest
      <4>2. \A i \in 1..Len(c.plan) : c.plan[i] \in Commands
        BY <2>3 DEF HandleRegister, Accepts, ParsedPlan
      <4>3. QED
        BY <4>1, <4>2, SeqOver
    <3>2. PlanCall(c.id) \in CallId
      BY <2>2, PlanCallType
    <3>3. QED
      BY <1>0, <1>4, <2>3, <3>1, <3>2 DEF HandleRegister
  <2>4. CASE HandleRefuse(c)
    BY <1>1, <2>4 DEF HandleRefuse, ghosts
  <2>5. ASSUME NEW ok \in BOOLEAN, Acknowledge(c, ok) PROVE ChangesInv'
    BY <1>2, <2>2, <2>5, ItemsOfSteps, ItemKinds DEF Acknowledge, ghosts
  <2>6. QED
    BY <2>1, <2>3, <2>4, <2>5
<1>6. CASE RecordCall \/ RecordResponse
  <2>1. held # None
    BY <1>6 DEF RecordCall, RecordResponse, TypeInv, Ownership, ReuseStates
  <2>2. QED
    BY <1>2, <1>6, <2>1, ItemsOfSteps, ItemKinds DEF RecordCall, RecordResponse, ghosts
<1>7. CASE \E plan \in Plans : ModelPlan(plan)
  <2>1. issued' \in Nat /\ history' = Append(history, CallItem(PlanCall(issued')))
        /\ UNCHANGED <<edits, graphs>>
    BY <1>0, <1>7 DEF ModelPlan
  <2>2. QED
    BY <1>2, <2>1, ItemsOfSteps, ItemKinds
<1>8. CASE ModelOther \/ AddContext \/ Compact
  BY <1>3, <1>8 DEF ModelOther, AddContext, Compact
<1>9. CASE \/ EndSampling \/ Snapshot \/ Fallback \/ Arm \/ CloneHistory \/ Settle \/ Dispatching
           \/ Cancel \/ ToggleGate \/ EndTurn \/ \E receipt \in Receipt : NestedResult(receipt)
           \/ UNCHANGED vars
  <2>1. UNCHANGED <<history, edits, graphs>>
    BY <1>9 DEF EndSampling, Snapshot, Fallback, Arm, CloneHistory, Settle, Dispatching, Start, Deny,
       Finish, DispatchError, Cancel, ToggleGate, EndTurn, NestedResult, vars, code, ghosts
  <2>2. QED
    BY <1>1, <2>1
<1>10. QED
  BY <1>5, <1>6, <1>7, <1>8, <1>9 DEF Next, Reusing, Environment

(* Between the snapshot and the checks only others add to the conversation. *)
LEMMA EntryStep == TypeInv /\ ChangesInv /\ EntryInv /\ [Next]_vars => EntryInv'
<1> SUFFICES ASSUME TypeInv, ChangesInv, EntryInv, [Next]_vars, pc' = "entry"
             PROVE  \E m \in 0..edits' : Snapped(m)'
  BY DEF EntryInv
<1>0. /\ history \in Seq(Item) /\ input \in Seq(Item) /\ edits \in Nat /\ graphs \in Seq(Graph)
      /\ Len(history) \in Nat /\ Len(input) \in Nat
  BY ItemsOfSteps
<1>1. CASE Snapshot
  <2>1. input' = history /\ UNCHANGED <<history, bank, edits, graphs>>
    BY <1>1 DEF Snapshot, ghosts
  <2>2. bank # None => graphs[bank.id].edits <= edits
    BY DEF TypeInv, InPlan, ChangesInv
  <2>3. Mentions(input', edits) /\ StartsWith(history', input')
    BY <1>0, <2>1 DEF ChangesInv, StartsWith
  <2>4. Snapped(edits)'
    BY <1>0, <2>1, <2>2, <2>3 DEF Snapped, Mentions, StartsWith
  <2>5. QED
    BY <1>0, <2>1, <2>4
<1>2. CASE AddContext
  <2>1. edits' = edits + 1 /\ history' = Append(history, OtherItem(edits + 1))
        /\ UNCHANGED <<input, bank, graphs, pc>>
    BY <1>2 DEF AddContext
  <2>2. PICK m \in 0..edits : Snapped(m)
    BY <2>1 DEF EntryInv
  <2>3. OtherItem(edits + 1) \in Item
    BY <1>0, OtherItemType
  <2>4. StartsWith(history', input)
    BY <1>0, <2>1, <2>2, <2>3, StartsWithMore DEF Snapped
  <2>5. Len(history') = Len(history) + 1
    BY <1>0, <2>1, <2>3
  <2>6. Snapped(m)'
    BY <1>0, <2>1, <2>2, <2>4, <2>5 DEF Snapped, Mentions, StartsWith
  <2>7. QED
    BY <1>0, <2>1, <2>6
<1>3. CASE UNCHANGED <<history, input, edits, pc, bank, graphs>>
  <2>1. PICK m \in 0..edits : Snapped(m)
    BY <1>3 DEF EntryInv
  <2>2. Snapped(m)'
    BY <1>3, <2>1 DEF Snapped, Mentions, StartsWith
  <2>3. QED
    BY <1>3, <2>2
<1>4. calls # {} => pc = "tools"
  BY DEF TypeInv, Ownership
<1>5. \/ Snapshot \/ AddContext \/ UNCHANGED <<history, input, edits, pc, bank, graphs>>
  <2>1. ~Handling
    BY <1>4 DEF Handling, HandleRegister, HandleRefuse, Acknowledge
  <2>2. CASE UNCHANGED vars
    BY <2>2 DEF vars, code, ghosts
  <2>3. CASE EndSampling \/ Reusing \/ Dispatching
    BY <2>3 DEF EndSampling, Reusing, Snapshot, Fallback, Arm, RecordCall, RecordResponse,
       CloneHistory, Settle, Dispatching, Start, Deny, Finish, DispatchError
  <2>4. CASE Environment
    BY <2>4 DEF Environment, ModelPlan, ModelOther, AddContext, Compact, Cancel, ToggleGate, EndTurn,
       NestedResult, code, ghosts
  <2>5. QED
    BY <2>1, <2>2, <2>3, <2>4 DEF Next
<1>6. QED
  BY <1>1, <1>2, <1>3, <1>5

LEMMA PrefixIs ==
    ASSUME NEW S, NEW s \in Seq(S), NEW t \in Seq(S), Len(t) <= Len(s)
    PROVE  SubSeq(s, 1, Len(t)) = t <=> \A i \in 1..Len(t) : s[i] = t[i]
<1>1. SubSeq(s, 1, Len(t)) \in Seq(S) /\ Len(SubSeq(s, 1, Len(t))) = Len(t)
      /\ \A i \in 1..Len(t) : SubSeq(s, 1, Len(t))[i] = s[i]
  OBVIOUS
<1>2. QED
  BY <1>1

LEMMA SameItems ==
    ASSUME NEW S, NEW s \in Seq(S), NEW t \in Seq(S), Len(s) = Len(t), \A i \in 1..Len(s) : s[i] = t[i]
    PROVE  s = t
  OBVIOUS

(* The context of a graph, item by item. *)
LEMMA OwnContextIs ==
    ASSUME TypeInv, NEW h \in Seq(Item), NEW g \in 1..Len(graphs), NEW n \in Nat
    PROVE  IsOwnContext(h, g, n) <=>
             LET l == Len(graphs[g].base) IN
             /\ Len(h) = l + 1 + 2 * n
             /\ \A i \in 1..l : h[i] = graphs[g].base[i]
             /\ h[l + 1] = OutputItem(graphs[g].call, TRUE)
             /\ \A k \in 0..(n - 1) :
                    /\ h[l + 2 + 2 * k] = CallItem([graph |-> g, node |-> k])
                    /\ h[l + 3 + 2 * k] = OutputItem([graph |-> g, node |-> k], TRUE)
<1>1. graphs[g].base \in Seq(Item) /\ Len(graphs[g].base) \in Nat /\ Len(h) \in Nat
  BY GraphEdits DEF Graph
<1>2. CASE Len(h) = Len(graphs[g].base) + 1 + 2 * n
  <2>1. Len(graphs[g].base) <= Len(h)
    <3>1. \A a, c \in Nat : c = a + 1 + 2 * n => a <= c
      OBVIOUS
    <3>2. QED
      BY <1>1, <1>2, <3>1
  <2>2. SubSeq(h, 1, Len(graphs[g].base)) = graphs[g].base
          <=> \A i \in 1..Len(graphs[g].base) : h[i] = graphs[g].base[i]
    BY <1>1, <2>1, PrefixIs
  <2>3. QED
    BY <2>2 DEF IsOwnContext
<1>3. CASE Len(h) # Len(graphs[g].base) + 1 + 2 * n
  BY <1>3 DEF IsOwnContext
<1>4. QED
  BY <1>2, <1>3

(* What a matching checkpoint predicts is the graph's own context. *)
LEMMA MatchedContext ==
    ASSUME TypeInv, ChangesInv, bank # None, Predicts(bank), CheckpointMatches(bank.checkpoint, input)
    PROVE  IsOwnContext(input, bank.id, bank.next) /\ OthersUpTo(input, graphs[bank.id].edits)
<1> DEFINE g == bank.id
<1>1. /\ bank \in Bank /\ g \in 1..Len(graphs) /\ graphs[g] \in Graph /\ graphs[g].edits \in Nat
      /\ bank.checkpoint.base \in Seq(Item) /\ graphs[g].base \in Seq(Item) /\ graphs[g].call \in CallId
      /\ bank.next \in Nat /\ input \in Seq(Item)
  BY GraphEdits DEF TypeInv, TypeOK, InPlan, Bank, Checkpoint, Graph
<1>2. CASE bank.next = 0
  <2>1. bank.checkpoint.call # None /\ bank.checkpoint.call = graphs[g].call
        /\ bank.checkpoint.base = graphs[g].base
    BY <1>1, <1>2, NoneAssumption DEF Predicts
  <2>2. input = Append(graphs[g].base, OutputItem(graphs[g].call, TRUE))
    BY <2>1 DEF CheckpointMatches
  <2>3. OutputItem(graphs[g].call, TRUE) \in Item /\ OutputItem(graphs[g].call, TRUE).kind = "output"
    BY <1>1, CallItemType, ItemKinds
  <2>4. OthersUpTo(input, graphs[g].edits)
    BY <1>1, <2>1, <2>2, <2>3, OwnItemKeeps DEF Predicts
  <2>5. /\ Len(input) = Len(graphs[g].base) + 1 /\ Len(graphs[g].base) \in Nat
        /\ \A i \in 1..Len(graphs[g].base) : input[i] = graphs[g].base[i]
        /\ input[Len(graphs[g].base) + 1] = OutputItem(graphs[g].call, TRUE)
    <3> DEFINE b == graphs[g].base
               x == OutputItem(graphs[g].call, TRUE)
    <3>1. b \in Seq(Item) /\ x \in Item /\ input = Append(b, x)
      BY <1>1, <2>2, <2>3
    <3> HIDE DEF b, x
    <3>2. Len(input) = Len(b) + 1 /\ Len(b) \in Nat /\ input[Len(b) + 1] = x
          /\ \A i \in 1..Len(b) : input[i] = b[i]
      BY <3>1, AppendFacts
    <3>3. QED
      BY <3>2 DEF b, x
  <2>6. IsOwnContext(input, g, 0)
    <3>1. 0 \in Nat /\ 0..(0 - 1) = {} /\ 2 * 0 = 0
      OBVIOUS
    <3>2. Len(input) = Len(graphs[g].base) + 1 + 2 * 0
      BY <2>5
    <3>3. QED
      BY <1>1, <2>5, <3>1, <3>2, OwnContextIs
  <2>7. QED
    BY <1>2, <2>4, <2>6
<1>3. CASE bank.next # 0
  <2>1. input = bank.checkpoint.base
    BY <1>3 DEF Predicts, CheckpointMatches
  <2>2. QED
    BY <1>3, <2>1 DEF Predicts
<1>4. QED
  BY <1>2, <1>3

(* A snapshot that mentions a change of others the graph does not know of  *)
(* cannot be what its checkpoint predicts.                                 *)
LEMMA NothingMissed ==
    ASSUME NEW h \in Seq(Item), NEW n \in Nat, NEW m \in Nat, OthersUpTo(h, n), Mentions(h, m)
    PROVE  m <= n
<1>1. CASE m = 0
  BY <1>1
<1>2. CASE m # 0
  <2>1. PICK i \in 1..Len(h) : h[i] = OtherItem(m)
    BY <1>2 DEF Mentions
  <2>2. QED
    BY <2>1, OthersFacts DEF OthersUpTo
<1>3. QED
  BY <1>1, <1>2

(* Exactly the call and its response added to a graph's context is the     *)
(* context of its next command.                                            *)
LEMMA NextContext ==
    ASSUME TypeInv, held # None, IsOwnContext(input, held.id, held.next),
           OthersUpTo(input, graphs[held.id].edits), Grown(next_history, 0, 2)
    PROVE  /\ IsOwnContext(next_history, held.id, held.next + 1)
           /\ OthersUpTo(next_history, graphs[held.id].edits)
<1> DEFINE h == next_history
           g == held.id
           n == held.next
           l == Len(graphs[held.id].base)
<1>1. /\ held \in Bank /\ g \in 1..Len(graphs) /\ n \in Nat /\ l \in Nat
      /\ h \in Seq(Item) /\ input \in Seq(Item) /\ Len(h) \in Nat
  <2>1. held \in Bank /\ g \in 1..Len(graphs) /\ n \in Nat /\ h \in Seq(Item) /\ input \in Seq(Item)
    BY DEF TypeInv, TypeOK, InPlan, Bank
  <2>2. graphs[g].base \in Seq(Item)
    BY <2>1, GraphEdits DEF Graph
  <2>3. QED
    BY <2>1, <2>2
<1>2. NodeCall(held) = [graph |-> g, node |-> n]
  BY DEF NodeCall
<1>3. /\ Len(input) = l + 1 + 2 * n
      /\ \A i \in 1..l : input[i] = graphs[g].base[i]
      /\ input[l + 1] = OutputItem(graphs[g].call, TRUE)
      /\ \A k \in 0..(n - 1) :
             /\ input[l + 2 + 2 * k] = CallItem([graph |-> g, node |-> k])
             /\ input[l + 3 + 2 * k] = OutputItem([graph |-> g, node |-> k], TRUE)
  BY <1>1, OwnContextIs
<1>4. /\ Len(h) = Len(input) + 2 /\ Len(input) \in Nat
      /\ \A i \in 1..Len(input) : h[i] = input[i]
      /\ h[Len(input) + 1] = CallItem([graph |-> g, node |-> n])
      /\ h[Len(input) + 2] = OutputItem([graph |-> g, node |-> n], TRUE)
  <2>1. StartsWith(h, input) /\ Len(h) = Len(input) + 0 + 2
    BY DEF Grown
  <2>2. h[Len(input) + 1] = CallItem(NodeCall(held)) /\ h[Len(input) + 2] = OutputItem(NodeCall(held), TRUE)
    <3>1. 2 > 0 /\ 2 > 1
      OBVIOUS
    <3>2. QED
      BY <3>1, Zenon DEF Grown
  <2>3. Len(input) \in Nat
    BY <1>1
  <2>4. QED
    BY <1>2, <2>1, <2>2, <2>3 DEF StartsWith
<1> HIDE DEF h, g, n, l
<1>5. Len(h) = l + 1 + 2 * (n + 1)
  <2>1. \A a, b, c, d \in Nat : b = a + 1 + 2 * c /\ d = b + 2 => d = a + 1 + 2 * (c + 1)
    OBVIOUS
  <2>2. QED
    BY <1>1, <1>3, <1>4, <2>1
<1>6. \A i \in 1..l : i \in 1..Len(input)
  BY <1>1, <1>3
<1>7. \A i \in 1..l : h[i] = graphs[g].base[i]
  BY <1>3, <1>4, <1>6
<1>8. h[l + 1] = OutputItem(graphs[g].call, TRUE)
  <2>1. l + 1 \in 1..Len(input)
    BY <1>1, <1>3
  <2>2. QED
    BY <2>1, <1>3, <1>4
<1>9. ASSUME NEW k \in 0..((n + 1) - 1)
      PROVE  /\ h[l + 2 + 2 * k] = CallItem([graph |-> g, node |-> k])
             /\ h[l + 3 + 2 * k] = OutputItem([graph |-> g, node |-> k], TRUE)
  <2>1. CASE k = n
    <3>1. l + 2 + 2 * n = Len(input) + 1 /\ l + 3 + 2 * n = Len(input) + 2
      BY <1>1, <1>3
    <3>2. QED
      BY <2>1, <3>1, <1>4
  <2>2. CASE k # n
    <3>1. k \in 0..(n - 1) /\ l + 2 + 2 * k \in 1..Len(input) /\ l + 3 + 2 * k \in 1..Len(input)
      BY <1>1, <1>3, <2>2
    <3>2. QED
      BY <3>1, <1>3, <1>4
  <2>3. QED
    BY <2>1, <2>2
<1>10. IsOwnContext(h, g, n + 1)
  <2>1. n + 1 \in Nat /\ h \in Seq(Item) /\ g \in 1..Len(graphs)
    BY <1>1
  <2>2. QED
    BY <2>1, <1>5, <1>7, <1>8, <1>9, OwnContextIs DEF l, g
<1>11. OthersUpTo(h, graphs[g].edits)
  <2> SUFFICES ASSUME NEW i \in 1..Len(h), h[i].kind = "other"
               PROVE  h[i].id.node <= graphs[g].edits
    BY DEF OthersUpTo
  <2>1. i \in 1..Len(input) \/ i = Len(input) + 1 \/ i = Len(input) + 2
    BY <1>4
  <2>2. i \in 1..Len(input)
    BY <2>1, <1>4, ItemKinds
  <2>3. QED
    BY <2>2, <1>4 DEF OthersUpTo, g
<1>12. QED
  BY <1>10, <1>11 DEF h, g, n

(* The bank put back by Settle predicts what the next snapshot must be. *)
LEMMA PredictsStep ==
    TypeInv /\ ContextInv /\ [Next]_vars => (bank # None => Predicts(bank))'
<1> SUFFICES ASSUME TypeInv, ContextInv, [Next]_vars, bank' # None PROVE Predicts(bank)'
  OBVIOUS
<1>1. CASE bank' = bank /\ UNCHANGED graphs
  BY <1>1 DEF ContextInv, Predicts, IsOwnContext, OthersUpTo
<1>2. ASSUME NEW c \in calls, HandleRegister(c) PROVE Predicts(bank)'
  <2> DEFINE r == [plan |-> c.plan, base |-> history, call |-> PlanCall(c.id), edits |-> edits]
  <2>1. graphs' = Append(graphs, r) /\ history \in Seq(Item) /\ graphs \in Seq(Graph)
    BY <1>2 DEF HandleRegister, TypeInv, TypeOK
  <2>2. graphs'[Len(graphs) + 1] = r
    <3>1. \A q : Append(graphs, q)[Len(graphs) + 1] = q
      BY <2>1
    <3>2. QED
      BY <2>1, <3>1
  <2>3. bank' = [id |-> Len(graphs) + 1, commands |-> c.plan, next |-> 0,
                 checkpoint |-> [call |-> PlanCall(c.id), base |-> history]]
    BY <1>2 DEF HandleRegister
  <2>4. /\ bank'.next = 0 /\ bank'.id = Len(graphs) + 1
        /\ bank'.checkpoint.call = PlanCall(c.id) /\ bank'.checkpoint.base = history
    BY <2>3
  <2>5. r.base = history /\ r.call = PlanCall(c.id) /\ r.edits = edits
    OBVIOUS
  <2>6. OthersUpTo(history, edits)
    BY DEF ContextInv, ChangesInv
  <2>7. QED
    BY <2>2, <2>4, <2>5, <2>6 DEF Predicts, OthersUpTo
<1>3. CASE Settle /\ Continues
  <2>1. /\ held # None /\ held \in Bank /\ input \in Seq(Item) /\ next_history \in Seq(Item)
        /\ pc = "settle" /\ graphs' = graphs
        /\ bank' = Advanced(held, next_history)
    BY <1>3 DEF Settle, TypeInv, TypeOK, Ownership, ReuseStates, ghosts
  <2>2. PICK e \in Nat : Grown(next_history, e, 2)
    BY <2>1 DEF ContextInv, Held
  <2>3. e = 0
    BY <1>3, <2>1, <2>2 DEF Continues, Unchanged, Grown
  <2>4. IsOwnContext(next_history, held.id, held.next + 1) /\ OthersUpTo(next_history, graphs[held.id].edits)
    BY <2>1, <2>2, <2>3, NextContext DEF ContextInv, Held
  <2>5. /\ bank'.id = held.id /\ bank'.next = held.next + 1 /\ bank'.next # 0
        /\ bank'.checkpoint.call = None /\ bank'.checkpoint.base = next_history
    BY <2>1 DEF Advanced, Bank
  <2>6. QED
    BY <2>1, <2>4, <2>5 DEF Predicts, IsOwnContext, OthersUpTo
<1>4. \/ bank' = bank /\ UNCHANGED graphs
      \/ \E c \in calls : HandleRegister(c)
      \/ Settle /\ Continues
  <2>1. CASE Handling
    BY <2>1 DEF Handling, HandleRefuse, Acknowledge, ghosts
  <2>2. CASE Settle
    BY <2>2 DEF Settle, ghosts
  <2>3. CASE EndSampling \/ Reusing \/ Dispatching \/ Environment \/ UNCHANGED vars
    BY <2>2, <2>3 DEF EndSampling, Reusing, Snapshot, Fallback, Arm, RecordCall, RecordResponse, CloneHistory,
       Dispatching, Start, Deny, Finish, DispatchError, Environment, ModelPlan, ModelOther,
       AddContext, Compact, Cancel, ToggleGate, EndTurn, NestedResult, code, ghosts, vars
  <2>4. QED
    BY <2>1, <2>3 DEF Next
<1>5. QED
  BY <1>1, <1>2, <1>3, <1>4

(* While a command is under way only its call, its response and items of   *)
(* others are added, and a command started on a changed turn is late.      *)
LEMMA HeldStep ==
    TypeInv /\ ContextInv /\ [Next]_vars => (held # None => Held)'
<1> SUFFICES ASSUME TypeInv, ContextInv, [Next]_vars, held' # None PROVE Held'
  OBVIOUS
<1>0. /\ history \in Seq(Item) /\ input \in Seq(Item) /\ edits \in Nat /\ graphs \in Seq(Graph)
      /\ Len(history) \in Nat /\ Len(input) \in Nat /\ log \in Seq(Entry) /\ cancelled \in BOOLEAN
  BY DEF TypeInv, TypeOK
<1>1. held # None => /\ held \in Bank /\ pc \in ReuseStates /\ Held /\ Since \in Nat
                     /\ CallItem(NodeCall(held)) \in Item /\ OutputItem(NodeCall(held), TRUE) \in Item
                     /\ held.id \in 1..Len(graphs)
                     /\ (pc \in {"running", "responded", "recorded", "settle"} => log # <<>>)
  <2> SUFFICES ASSUME held # None
               PROVE  /\ held \in Bank /\ pc \in ReuseStates /\ Held /\ Since \in Nat
                      /\ CallItem(NodeCall(held)) \in Item /\ OutputItem(NodeCall(held), TRUE) \in Item
                      /\ held.id \in 1..Len(graphs)
                      /\ (pc \in {"running", "responded", "recorded", "settle"} => log # <<>>)
    OBVIOUS
  <2>1. held \in Bank /\ pc \in ReuseStates /\ Held /\ held.id \in 1..Len(graphs)
        /\ (pc \in {"running", "responded", "recorded", "settle"} => log # <<>>)
    BY DEF TypeInv, TypeOK, Ownership, ContextInv, InPlan
  <2>2. graphs[held.id].edits \in Nat /\ graphs[held.id].edits <= edits
    BY <2>1, GraphEdits DEF ContextInv, ChangesInv
  <2>3. Since \in Nat
    BY <1>0, <2>2 DEF Since
  <2>4. QED
    BY <2>1, <2>3, ItemsOfSteps
<1>2. CASE Arm
  <2> USE <1>2 DEF Arm
  <2>1. /\ bank # None /\ CheckpointMatches(bank.checkpoint, input) /\ pc = "entry" /\ bank.id \in 1..Len(graphs)
        /\ UNCHANGED <<history, input, graphs, edits>> /\ held' = bank /\ pc' = "armed"
    BY DEF Reusable, TypeInv, InPlan, ghosts
  <2>2. PICK m \in 0..edits : Snapped(m)
    BY <2>1 DEF ContextInv, EntryInv
  <2>3. IsOwnContext(input, bank.id, bank.next) /\ OthersUpTo(input, graphs[bank.id].edits)
    BY <2>1, MatchedContext DEF ContextInv
  <2>4. m = graphs[bank.id].edits
    <3>1. graphs[bank.id].edits \in Nat /\ m \in Nat
      BY <1>0, <2>1, GraphEdits
    <3>2. m <= graphs[bank.id].edits
      BY <1>0, <2>2, <2>3, <3>1, NothingMissed DEF Snapped
    <3>3. QED
      BY <2>1, <2>2, <3>1, <3>2 DEF Snapped
  <2>5. Since' = edits - m /\ Recorded' = 0
    BY <2>1, <2>4 DEF Since, Recorded
  <2>6. Grown(history, Since, Recorded)'
    BY <1>0, <2>1, <2>2, <2>5 DEF Grown, Snapped, StartsWith
  <2>7. IsOwnContext(input, held.id, held.next)' /\ OthersUpTo(input, graphs[held.id].edits)'
    BY <2>1, <2>3 DEF IsOwnContext, OthersUpTo
  <2>8. QED
    BY <2>1, <2>6, <2>7 DEF Held
<1>3. ASSUME held' = held, UNCHANGED <<input, graphs>>
      PROVE  IsOwnContext(input, held.id, held.next)' /\ OthersUpTo(input, graphs[held.id].edits)'
  BY <1>1, <1>3 DEF Held, IsOwnContext, OthersUpTo
<1>4. CASE UNCHANGED <<held, input, graphs, history, next_history, edits, pc, log>> /\ (cancelled => cancelled')
  <2>1. Since' = Since /\ Recorded' = Recorded /\ LastEntry' = LastEntry
    BY <1>4 DEF Since, Recorded, LastEntry
  <2>3. pc # "settle" => Grown(history, Since, Recorded)'
    BY <1>1, <1>4, <2>1 DEF Held, Grown, StartsWith, NodeCall
  <2>4. pc = "settle" => (\E e \in Nat : Grown(next_history, e, 2) /\ (LastEntry.late => cancelled \/ e # 0))'
    BY <1>1, <1>4, <2>1 DEF Held, Grown, StartsWith, NodeCall
  <2>5. pc \in {"running", "responded", "recorded"} => (LastEntry.late => cancelled \/ Since # 0)'
    BY <1>1, <1>4, <2>1 DEF Held
  <2>6. QED
    BY <1>3, <1>4, <2>3, <2>4, <2>5 DEF Held
<1>5. CASE AddContext
  <2> USE <1>5 DEF AddContext
  <2>1. held' = held /\ UNCHANGED <<input, graphs, next_history, pc, log, cancelled>>
        /\ edits' = edits + 1 /\ history' = Append(history, OtherItem(edits + 1))
    BY DEF signals
  <2>2. Since' = Since + 1 /\ Recorded' = Recorded /\ LastEntry' = LastEntry
    <3>1. graphs[held.id].edits \in Nat
      BY <1>1, <2>1, GraphEdits
    <3>2. Since' = (edits + 1) - graphs[held.id].edits
      BY <2>1 DEF Since
    <3>3. \A a, b \in Nat : (a + 1) - b = (a - b) + 1
      OBVIOUS
    <3>4. Since' = Since + 1
      BY <1>0, <3>1, <3>2, <3>3 DEF Since
    <3>5. QED
      BY <2>1, <3>4 DEF Recorded, LastEntry
  <2>3. ASSUME pc # "settle" PROVE Grown(history, Since, Recorded)'
    <3>1. OtherItem(edits + 1) \in Item
      BY <1>0, OtherItemType
    <3>2. StartsWith(history', input) /\ Len(history') = Len(history) + 1
      BY <1>0, <1>1, <2>1, <2>3, <3>1, StartsWithMore, AppendFacts DEF Held, Grown
    <3>3. Len(history) = Len(input) + Since + Recorded /\ Recorded \in Nat
      BY <1>1, <2>1, <2>3 DEF Held, Grown, Recorded
    <3>4. Len(history') = Len(input) + (Since + 1) + Recorded /\ Since + 1 # 0
      BY <1>0, <1>1, <2>1, <3>2, <3>3
    <3>5. QED
      BY <2>1, <2>2, <3>2, <3>4 DEF Grown, StartsWith
  <2>4. pc = "settle" => (\E e \in Nat : Grown(next_history, e, 2) /\ (LastEntry.late => cancelled \/ e # 0))'
    BY <1>1, <2>1, <2>2 DEF Held, Grown, StartsWith, NodeCall
  <2>5. Since' # 0
    BY <1>1, <2>1, <2>2
  <2>6. QED
    BY <1>3, <2>1, <2>3, <2>4, <2>5 DEF Held
<1>6. CASE RecordCall
  <2> USE <1>6 DEF RecordCall
  <2>1. held' = held /\ UNCHANGED <<input, graphs, edits>> /\ pc = "armed" /\ pc' = "dispatch"
        /\ history' = Append(history, CallItem(NodeCall(held)))
    BY DEF ghosts
  <2>2. Since' = Since /\ Recorded = 0 /\ Recorded' = 1
    BY <2>1 DEF Since, Recorded
  <2>3. StartsWith(history, input) /\ Len(history) = Len(input) + Since
    BY <1>0, <1>1, <2>1, <2>2 DEF Held, Grown
  <2>4. StartsWith(history', input) /\ Len(history') = Len(history) + 1
        /\ history'[Len(history) + 1] = CallItem(NodeCall(held))
    BY <1>0, <1>1, <2>1, <2>3, StartsWithMore, AppendFacts
  <2>5. Grown(history, Since, Recorded)'
    BY <1>0, <1>1, <2>1, <2>2, <2>3, <2>4 DEF Grown, StartsWith, NodeCall
  <2>6. QED
    BY <1>3, <2>1, <2>5 DEF Held
<1>7. CASE RecordResponse
  <2> USE <1>7 DEF RecordResponse
  <2>1. held' = held /\ UNCHANGED <<input, graphs, edits, log, cancelled>> /\ pc = "responded" /\ pc' = "recorded"
        /\ history' = Append(history, OutputItem(NodeCall(held), TRUE))
    BY DEF ghosts, signals
  <2>2. Since' = Since /\ Recorded = 1 /\ Recorded' = 2 /\ LastEntry' = LastEntry
    BY <2>1 DEF Since, Recorded, LastEntry
  <2>3. /\ StartsWith(history, input) /\ Len(history) = Len(input) + Since + 1
        /\ Since = 0 => history[Len(input) + 1] = CallItem(NodeCall(held))
    <3>1. Grown(history, Since, 1) /\ 1 > 0
      BY <1>1, <2>1, <2>2 DEF Held
    <3>2. QED
      BY <3>1, Zenon DEF Grown
  <2>4. /\ StartsWith(history', input) /\ Len(history') = Len(history) + 1
        /\ \A i \in 1..Len(history) : history'[i] = history[i]
        /\ history'[Len(history) + 1] = OutputItem(NodeCall(held), TRUE)
    <3> DEFINE x == OutputItem(NodeCall(held), TRUE)
    <3>1. x \in Item /\ history' = Append(history, x)
      BY <1>1, <2>1
    <3> HIDE DEF x
    <3>2. StartsWith(history', input)
      BY <1>0, <2>3, <3>1, StartsWithMore
    <3>3. Len(history') = Len(history) + 1 /\ history'[Len(history) + 1] = x
          /\ \A i \in 1..Len(history) : history'[i] = history[i]
      <4>1. Len(Append(history, x)) = Len(history) + 1 /\ Append(history, x)[Len(history) + 1] = x
            /\ \A i \in 1..Len(history) : Append(history, x)[i] = history[i]
        BY <1>0, <3>1, AppendFacts
      <4>2. QED
        BY <3>1, <4>1, Zenon
    <3>4. QED
      BY <3>2, <3>3 DEF x
  <2>5. /\ Len(history') = Len(input) + Since + 2
        /\ Since = 0 => history'[Len(input) + 1] = CallItem(NodeCall(held))
        /\ Since = 0 => history'[Len(input) + 2] = OutputItem(NodeCall(held), TRUE)
    <3>1. Since \in Nat
      BY <1>1, <2>1
    <3>2. Len(history') = Len(input) + Since + 2
      BY <1>0, <2>3, <2>4, <3>1
    <3>3. Since = 0 => Len(history) = Len(input) + 1 /\ Len(history) + 1 = Len(input) + 2
                       /\ Len(input) + 1 \in 1..Len(history)
      BY <1>0, <2>3, <3>1
    <3>4. QED
      BY <2>3, <2>4, <3>2, <3>3
  <2>6. Grown(history, Since, Recorded)'
    BY <2>1, <2>2, <2>4, <2>5 DEF Grown, StartsWith, NodeCall
  <2>7. QED
    BY <1>1, <1>3, <2>1, <2>2, <2>6 DEF Held
<1>8. CASE CloneHistory
  <2> USE <1>8 DEF CloneHistory
  <2>1. held' = held /\ UNCHANGED <<input, graphs, edits, log, cancelled>> /\ pc = "recorded" /\ pc' = "settle"
        /\ next_history' = history
    BY DEF ghosts, signals
  <2>2. Grown(history, Since, 2) /\ (LastEntry.late => cancelled \/ Since # 0) /\ Since \in Nat
    BY <1>1, <2>1 DEF Held, Recorded
  <2>3. Grown(next_history, Since, 2)' /\ Since' = Since /\ LastEntry' = LastEntry
    BY <2>1, <2>2 DEF Grown, StartsWith, NodeCall, Since, LastEntry
  <2>4. QED
    BY <1>3, <2>1, <2>2, <2>3 DEF Held
<1>9. CASE \/ \E cmd \in Commands : Start(cmd)
           \/ Deny
  <2>1. /\ held' = held /\ UNCHANGED <<input, graphs, history, edits, cancelled>>
        /\ pc = "dispatch" /\ pc' \in {"running", "responded"}
    BY <1>9 DEF Start, Deny, signals
  <2>2. PICK cmd \in Commands, o \in {"running", "bad"} : log' = Append(log, EntryOf(held, cmd, o))
    <3>1. held.commands[held.next + 1] \in Commands
      BY <1>1, <2>1, NodeCommand DEF TypeInv, InPlan
    <3>2. QED
      BY <1>9, <3>1 DEF Start, Deny
  <2>3. EntryOf(held, cmd, o) \in Entry
    BY <1>1, <2>1, <2>2, EntryType
  <2>4. LastEntry' = EntryOf(held, cmd, o)
    BY <1>0, <2>2, <2>3 DEF LastEntry
  <2>5. EntryOf(held, cmd, o).late => cancelled \/ Since # 0
    <3>1. EntryOf(held, cmd, o).late => cancelled \/ edits # graphs[held.id].edits
      BY DEF EntryOf
    <3>2. graphs[held.id].edits \in Nat
      BY <1>1, <2>1, GraphEdits
    <3>3. edits # graphs[held.id].edits => Since # 0
      BY <1>0, <3>2 DEF Since
    <3>4. QED
      BY <3>1, <3>3
  <2>6. Since' = Since /\ Recorded' = 1 /\ Recorded = 1
    BY <2>1 DEF Since, Recorded
  <2>7. Grown(history, Since, Recorded)'
    BY <1>1, <2>1, <2>6 DEF Held, Grown, StartsWith, NodeCall
  <2>8. QED
    BY <1>3, <2>1, <2>4, <2>5, <2>6, <2>7 DEF Held
<1>10. ASSUME NEW receipt \in Receipt, NEW accepted \in BOOLEAN, Finish(receipt, accepted)
       PROVE  Held'
  <2>1. /\ held' = held /\ UNCHANGED <<input, graphs, history, edits, cancelled>>
        /\ pc = "running" /\ pc' = "responded" /\ log' = ResolvedLog(Outcome(receipt, accepted))
        /\ log # <<>>
    BY <1>1, <1>10 DEF Finish, signals
  <2>2. LastEntry'.late = LastEntry.late
    <3>1. Outcome(receipt, accepted) \in {"running", "ok", "bad"}
      BY DEF Outcome
    <3>2. Len(log') = Len(log)
          /\ log'[Len(log)] = [log[Len(log)] EXCEPT !.outcome = Outcome(receipt, accepted)]
      BY <1>0, <2>1, <3>1, ResolvedType
    <3>3. log[Len(log)] \in Entry
      BY <1>0, <2>1
    <3>4. log'[Len(log)].late = log[Len(log)].late
      BY <3>1, <3>2, <3>3, EntryUpdate
    <3>5. QED
      BY <3>2, <3>4 DEF LastEntry
  <2>3. Since' = Since /\ Recorded' = 1 /\ Recorded = 1
    BY <2>1 DEF Since, Recorded
  <2>4. Grown(history, Since, Recorded)'
    BY <1>1, <2>1, <2>3 DEF Held, Grown, StartsWith, NodeCall
  <2>5. QED
    BY <1>1, <1>3, <2>1, <2>2, <2>3, <2>4 DEF Held
<1>11. held = None => Arm
  BY DEF Next, Handling, HandleRegister, HandleRefuse, Acknowledge, EndSampling, Reusing, Snapshot, Fallback,
     RecordCall, RecordResponse, CloneHistory, Settle, Dispatching, Start, Deny, Finish, DispatchError,
     Environment, ModelPlan, ModelOther, AddContext, Compact, Cancel, ToggleGate, EndTurn, NestedResult,
     vars, code
<1>12. held # None => calls = {} /\ pc \in ReuseStates
  BY <1>1 DEF TypeInv, Ownership, ReuseStates
<1>13. CASE held # None /\ (Environment \/ UNCHANGED vars) /\ ~AddContext
  BY <1>4, <1>12, <1>13 DEF Environment, ModelPlan, ModelOther, Compact, Cancel, ToggleGate, EndTurn,
     NestedResult, vars, code, signals, ghosts, ReuseStates
<1>14. CASE held # None /\ (EndSampling \/ Reusing)
  BY <1>6, <1>7, <1>8, <1>12, <1>14 DEF EndSampling, Reusing, Snapshot, Fallback, Arm, Settle, ReuseStates
<1>15. CASE held # None /\ Dispatching
  BY <1>9, <1>10, <1>15 DEF Dispatching, DispatchError
<1>16. ~(held # None /\ Handling)
  BY <1>12 DEF Handling
<1>17. QED
  BY <1>2, <1>5, <1>11, <1>13, <1>14, <1>15, <1>16 DEF Next

LEMMA ContextInvStep == TypeInv /\ ContextInv /\ [Next]_vars => ContextInv'
  BY ChangesStep, EntryStep, PredictsStep, HeldStep DEF ContextInv

LEMMA ContextInvInit == Init => ContextInv
<1> SUFFICES ASSUME Init PROVE ContextInv
  OBVIOUS
<1>1. ChangesInv /\ EntryInv
  BY DEF Init, ChangesInv, EntryInv, OthersUpTo, Mentions
<1>2. QED
  BY <1>1 DEF Init, ContextInv
-----------------------------------------------------------------------------
(***************************************************************************)
(* What a late command ends: no graph is continued after one.              *)
(***************************************************************************)
OnTime(b) == b.next # 0 => ~LastEntry.late

LateInv ==
    /\ ChangedTurnStopsGraph
    /\ bank # None => OnTime(bank)
    /\ pc \in {"armed", "dispatch"} => OnTime(held)
    /\ log # <<>> => (LastEntry.outcome = "running" <=> pc = "running")
    /\ Orphaned => bank = None

AllInv == TypeInv /\ DispatchInv /\ ContextInv /\ LateInv

LEMMA LateInvInit == Init => LateInv
  BY DEF Init, LateInv, ChangedTurnStopsGraph, Orphaned

(* A graph whose next command may be dispatched has no late command yet. *)
LEMMA NoLateBefore ==
    ASSUME TypeInv, DispatchInv, LateInv, pc = "dispatch", NEW i \in 1..Len(log), log[i].late
    PROVE  log[i].graph # held.id
<1>1. /\ held \in Bank /\ Ready(held) /\ OnTime(held) /\ log \in Seq(Entry) /\ Len(log) \in Nat
  BY DEF TypeInv, TypeOK, Ownership, ReuseStates, DispatchInv, LateInv
<1>2. log[i].graph \in Nat /\ held.id \in Nat
  <2>1. log[i] \in Entry
    BY <1>1
  <2>2. QED
    BY <1>1, <2>1 DEF Entry, Bank
<1>3. CASE held.next = 0
  BY <1>1, <1>2, <1>3 DEF Ready
<1>4. CASE held.next # 0
  <2>1. Len(log) \in 1..Len(log) /\ LastEntry.graph = held.id /\ ~LastEntry.late
    BY <1>1, <1>4 DEF Ready, OnTime
  <2>2. i # Len(log)
    BY <2>1 DEF LastEntry
  <2>3. log[Len(log)].graph # log[i].graph
    BY <1>1, <2>1, <2>2 DEF LateInv, ChangedTurnStopsGraph
  <2>4. QED
    BY <2>1, <2>3 DEF LastEntry
<1>5. QED
  BY <1>3, <1>4

LEMMA AttemptKeepsLate ==
    ASSUME TypeInv, DispatchInv, LateInv, pc = "dispatch", NEW cmd \in Commands,
           NEW outcome \in {"running", "bad"}, log' = Append(log, EntryOf(held, cmd, outcome))
    PROVE  ChangedTurnStopsGraph' /\ LastEntry'.outcome = outcome
<1> DEFINE e == EntryOf(held, cmd, outcome)
<1>1. /\ held \in Bank /\ log \in Seq(Entry) /\ Len(log) \in Nat
  BY DEF TypeInv, TypeOK, Ownership, ReuseStates
<1>2. e \in Entry /\ e.graph = held.id /\ e.outcome = outcome
  BY <1>1, EntryType DEF EntryOf
<1> HIDE DEF e
<1>3. log' = Append(log, e)
  BY DEF e
<1>4. /\ Len(log') = Len(log) + 1
      /\ \A i \in 1..Len(log) : log'[i] = log[i]
      /\ log'[Len(log) + 1] = e
  BY <1>1, <1>2, <1>3, AppendFacts
<1>5. ChangedTurnStopsGraph'
  <2> SUFFICES ASSUME NEW i \in 1..Len(log'), NEW j \in 1..Len(log'), i < j, log'[i].late
               PROVE  log'[j].graph # log'[i].graph
    BY DEF ChangedTurnStopsGraph
  <2>1. i \in 1..Len(log) /\ log'[i] = log[i]
    BY <1>1, <1>4
  <2>2. CASE j \in 1..Len(log)
    BY <1>4, <2>1, <2>2 DEF LateInv, ChangedTurnStopsGraph
  <2>3. CASE j = Len(log) + 1
    BY <1>2, <1>4, <2>1, <2>3, NoLateBefore
  <2>4. QED
    BY <1>1, <1>4, <2>2, <2>3
<1>6. QED
  BY <1>1, <1>2, <1>4, <1>5 DEF LastEntry

LEMMA ResolveKeepsLate ==
    ASSUME TypeInv, LateInv, log # <<>>, NEW outcome \in {"ok", "bad"}, log' = ResolvedLog(outcome)
    PROVE  ChangedTurnStopsGraph' /\ LastEntry'.outcome = outcome
<1>1. log \in Seq(Entry) /\ Len(log) \in 1..Len(log) /\ Len(log) \in Nat
  BY DEF TypeInv, TypeOK
<1>2. /\ Len(log') = Len(log)
      /\ \A i \in 1..Len(log) : i # Len(log) => log'[i] = log[i]
      /\ log'[Len(log)] = [log[Len(log)] EXCEPT !.outcome = outcome]
  BY <1>1, ResolvedType
<1>3. /\ log'[Len(log)].graph = log[Len(log)].graph /\ log'[Len(log)].late = log[Len(log)].late
      /\ log'[Len(log)].outcome = outcome
  <2>1. log[Len(log)] \in Entry /\ outcome \in {"running", "ok", "bad"}
    BY <1>1
  <2>2. QED
    BY <1>2, <2>1, EntryUpdate
<1>4. \A i \in 1..Len(log) : log'[i].graph = log[i].graph /\ log'[i].late = log[i].late
  BY <1>2, <1>3
<1>5. QED
  BY <1>1, <1>2, <1>3, <1>4 DEF LateInv, ChangedTurnStopsGraph, LastEntry

LEMMA LateInvStep == AllInv /\ [Next]_vars => LateInv'
<1> SUFFICES ASSUME AllInv, [Next]_vars PROVE LateInv'
  OBVIOUS
<1>0. /\ TypeInv /\ DispatchInv /\ ContextInv /\ LateInv
      /\ (held # None <=> pc \in ReuseStates) /\ (held # None => bank = None)
  BY DEF AllInv, TypeInv, Ownership
<1>1. (Orphaned => bank = None)'
  <2>1. Orphaned => bank = None
    BY <1>0 DEF LateInv
  <2>2. CASE Handling
    BY <2>1, <2>2, <1>0 DEF Handling, HandleRegister, HandleRefuse, Acknowledge, Accepts, Orphaned, ghosts
  <2>3. CASE EndSampling \/ Reusing
    BY <2>1, <2>3, <1>0 DEF EndSampling, Reusing, Snapshot, Fallback, Arm, Reusable, RecordCall, RecordResponse,
       CloneHistory, Settle, Orphaned
  <2>4. CASE Dispatching
    BY <2>1, <2>4, <1>0 DEF Dispatching, Start, Deny, Finish, DispatchError, Orphaned, ReuseStates
  <2>5. CASE Environment \/ UNCHANGED vars
    BY <2>1, <2>5 DEF Environment, ModelPlan, ModelOther, AddContext, Compact, Cancel, ToggleGate, EndTurn,
       NestedResult, Observed, Orphaned, code, vars
  <2>6. QED
    BY <2>2, <2>3, <2>4, <2>5 DEF Next
<1>2. CASE Dispatching
  <2>0. /\ held \in Bank /\ held # None /\ bank = None /\ bank' = None
        /\ held.commands[held.next + 1] \in Commands
        /\ (pc = "running" => log # <<>>)
        /\ pc \in {"dispatch", "running"}
    <3>1. held # None /\ bank' = bank /\ pc \in {"dispatch", "running"}
      BY <1>0, <1>2 DEF Dispatching, Start, Deny, Finish, DispatchError, ReuseStates
    <3>2. held \in Bank /\ held.next < Len(held.commands)
      BY <1>0, <3>1 DEF TypeInv, TypeOK, InPlan
    <3>3. QED
      BY <1>0, <3>1, <3>2, NodeCommand DEF TypeInv, Ownership
  <2>1. ASSUME NEW cmd \in Commands, Start(cmd)
        PROVE  ChangedTurnStopsGraph' /\ pc' = "running" /\ LastEntry'.outcome = "running"
    BY <1>0, <2>1, AttemptKeepsLate DEF Start
  <2>2. ASSUME Deny
        PROVE  ChangedTurnStopsGraph' /\ pc' = "responded" /\ LastEntry'.outcome = "bad"
    BY <1>0, <2>0, <2>2, AttemptKeepsLate DEF Deny
  <2>3. ASSUME NEW receipt \in Receipt, NEW accepted \in BOOLEAN, Finish(receipt, accepted)
        PROVE  ChangedTurnStopsGraph' /\ pc' = "responded" /\ LastEntry'.outcome # "running"
    <3>1. Outcome(receipt, accepted) \in {"ok", "bad"}
      BY DEF Outcome
    <3>2. QED
      BY <1>0, <2>0, <2>3, <3>1, ResolveKeepsLate DEF Finish
  <2>4. ASSUME DispatchError
        PROVE  ChangedTurnStopsGraph' /\ pc' = "boundary" /\ LastEntry'.outcome = "bad"
    <3>1. CASE pc = "running"
      BY <1>0, <2>0, <2>4, <3>1, ResolveKeepsLate DEF DispatchError
    <3>2. CASE pc = "dispatch"
      BY <1>0, <2>0, <2>4, <3>2, AttemptKeepsLate DEF DispatchError
    <3>3. QED
      BY <2>4, <3>1, <3>2 DEF DispatchError
  <2>5. QED
    BY <1>1, <1>2, <2>0, <2>1, <2>2, <2>3, <2>4 DEF Dispatching, LateInv
<1>3. ASSUME log' = log, pc' = "running" <=> pc = "running",
             bank' # None => OnTime(bank'), pc' \in {"armed", "dispatch"} => OnTime(held')
      PROVE  LateInv'
  <2>1. ChangedTurnStopsGraph' /\ LastEntry' = LastEntry
    BY <1>0, <1>3 DEF LateInv, ChangedTurnStopsGraph, LastEntry
  <2>2. QED
    BY <1>0, <1>1, <1>3, <2>1 DEF LateInv, OnTime
<1>4. OnTime(bank) \/ bank = None
  BY <1>0 DEF LateInv
<1>5. CASE Handling
  <2>1. log' = log /\ pc' = pc /\ held' = held /\ (bank' = bank \/ bank'.next = 0)
    BY <1>5 DEF Handling, HandleRegister, HandleRefuse, Acknowledge, ghosts
  <2>2. QED
    BY <1>0, <1>3, <1>4, <2>1 DEF OnTime, LateInv
<1>6. CASE Settle
  <2>1. log' = log /\ pc' = "boundary" /\ bank = None /\ held # None /\ pc = "settle"
        /\ bank' = (IF Continues THEN Advanced(held, next_history) ELSE bank)
    BY <1>0, <1>6 DEF Settle, ghosts, ReuseStates
  <2>2. Continues => ~LastEntry.late
    <3> SUFFICES ASSUME Continues PROVE ~LastEntry.late
      OBVIOUS
    <3>1. PICK e \in Nat : Grown(next_history, e, 2) /\ (LastEntry.late => cancelled \/ e # 0)
      BY <1>0, <2>1 DEF ContextInv, Held
    <3>2. Len(next_history) = Len(input) + e + 2 /\ Len(next_history) = Len(input) + 2 /\ ~cancelled
      BY <3>1 DEF Continues, Unchanged, Grown
    <3>3. Len(input) \in Nat
      BY <1>0 DEF TypeInv, TypeOK
    <3>4. QED
      BY <3>1, <3>2, <3>3
  <2>3. QED
    BY <1>3, <2>1, <2>2 DEF OnTime
<1>7. CASE Arm
  <2>1. log' = log /\ pc' = "armed" /\ bank # None /\ held' = bank /\ bank' = None /\ pc = "entry"
    BY <1>7 DEF Arm, Reusable, ghosts
  <2>2. QED
    BY <1>3, <1>4, <2>1
<1>8. CASE \/ EndSampling \/ Snapshot \/ Fallback \/ RecordCall \/ RecordResponse \/ CloneHistory
           \/ Environment \/ UNCHANGED vars
  <2>1. /\ log' = log /\ (bank' = bank \/ bank' = None) /\ held' = held
        /\ (pc' \in {"armed", "dispatch"} => pc \in {"armed", "dispatch"})
    BY <1>8 DEF EndSampling, Snapshot, Fallback, RecordCall, RecordResponse, CloneHistory, Environment,
       ModelPlan, ModelOther, AddContext, Compact, Cancel, ToggleGate, EndTurn, NestedResult, vars, code,
       ghosts
  <2>2. pc' = "running" <=> pc = "running"
    BY <1>8 DEF EndSampling, Snapshot, Fallback, RecordCall, RecordResponse, CloneHistory, Environment,
       ModelPlan, ModelOther, AddContext, Compact, Cancel, ToggleGate, EndTurn, NestedResult, vars, code
  <2>3. pc \in {"armed", "dispatch"} => OnTime(held)
    BY <1>0 DEF LateInv
  <2>4. QED
    BY <1>3, <1>4, <2>1, <2>2, <2>3
<1>9. QED
  BY <1>2, <1>5, <1>6, <1>7, <1>8 DEF Next, Reusing

LEMMA AllInvariant == Spec => []AllInv
<1>1. Init => AllInv
  BY TypeInvInit, DispatchInvInit, ContextInvInit, LateInvInit DEF AllInv
<1>2. AllInv /\ [Next]_vars => AllInv'
  BY TypeInvStep, DispatchInvStep, ContextInvStep, LateInvStep DEF AllInv
<1>3. QED
  BY <1>1, <1>2, PTL DEF Spec

(* Whatever others add to the conversation, the context a command was      *)
(* substituted in is the author's, extended by this graph alone.           *)
THEOREM OwnContextOnly == Spec => []ReusesOwnContext
<1>1. AllInv => ReusesOwnContext
  BY DEF AllInv, ContextInv, Held, ReusesOwnContext
<1>2. QED
  BY <1>1, AllInvariant, PTL

(* A command dispatched on a turn that somebody had changed or cancelled   *)
(* is the last of its graph.                                               *)
THEOREM ChangedTurnEndsGraph == Spec => []ChangedTurnStopsGraph
<1>1. AllInv => ChangedTurnStopsGraph
  BY DEF AllInv, LateInv
<1>2. QED
  BY <1>1, AllInvariant, PTL

(* An entry left pending by a failed dispatch ends reuse for this turn. *)
THEOREM OrphanEnds == Spec => OrphanEndsReuse
<1>1. AllInv /\ [Next]_vars => [Orphaned => UNCHANGED <<bank, log, graphs>>]_vars
  <2> SUFFICES ASSUME AllInv, Next, Orphaned PROVE UNCHANGED <<bank, log, graphs>>
    OBVIOUS
  <2>1. bank = None /\ held = None /\ pending # None /\ pc \notin ReuseStates
    BY DEF AllInv, LateInv, Orphaned, TypeInv, Ownership
  <2>2. CASE Handling
    BY <2>1, <2>2 DEF Handling, HandleRegister, HandleRefuse, Acknowledge, Accepts, ghosts
  <2>3. CASE EndSampling \/ Reusing
    BY <2>1, <2>3 DEF EndSampling, Reusing, Snapshot, Fallback, Arm, Reusable, RecordCall, RecordResponse,
       CloneHistory, Settle, ReuseStates, ghosts
  <2>4. CASE Dispatching
    BY <2>1, <2>4 DEF Dispatching, Start, Deny, Finish, DispatchError, ReuseStates
  <2>5. CASE Environment
    BY <2>1, <2>5 DEF Environment, ModelPlan, ModelOther, AddContext, Compact, Cancel, ToggleGate, EndTurn,
       NestedResult, code, ghosts
  <2>6. QED
    BY <2>2, <2>3, <2>4, <2>5 DEF Next
<1>2. QED
  BY <1>1, AllInvariant, PTL DEF Spec, OrphanEndsReuse
-----------------------------------------------------------------------------
(***************************************************************************)
(* HarnessMM implements the contract: the graph in the bank or held by     *)
(* try_reuse is the contract's active one.                                 *)
(***************************************************************************)
PlansOf == [g \in 1..Len(graphs) |-> graphs[g].plan]

LEMMA PlansType ==
    ASSUME TypeInv
    PROVE  PlansOf \in Seq(Seq(Commands)) /\ Len(PlansOf) = Len(graphs) /\ Len(graphs) \in Nat
<1>1. \A g \in 1..Len(graphs) : graphs[g].plan \in Seq(Commands)
  BY GraphEdits DEF Graph
<1>2. Len(graphs) \in Nat
  BY DEF TypeInv, TypeOK
<1>3. QED
  BY <1>1, <1>2 DEF PlansOf

LEMMA LiveFacts ==
    ASSUME TypeInv
    PROVE  /\ held # None => Live = held.id /\ held.id \in 1..Len(graphs) /\ Live # 0
           /\ bank # None => Live = bank.id
           /\ bank = None /\ held = None => Live = 0
  BY DEF TypeInv, Ownership, InPlan, Live

LEMMA ContractRegisters ==
    ASSUME AllInv, AllInv', NEW c \in calls, HandleRegister(c)
    PROVE  c.plan \in Plans /\ Contract!Register(c.plan)
<1>1. c.plan \in Plans
  BY DEF AllInv, TypeInv, TypeOK, PlanRequest
<1>2. Live = 0
  <2>1. bank = None /\ held = None
    BY DEF HandleRegister, Accepts, AllInv, TypeInv, Ownership, ReuseStates
  <2>2. QED
    BY <2>1, LiveFacts DEF AllInv
<1>3. /\ bank'.id = Len(graphs) + 1 /\ bank' # None /\ Len(graphs') = Len(graphs) + 1
      /\ \A g \in 1..Len(graphs) : graphs'[g] = graphs[g]
      /\ graphs'[Len(graphs) + 1].plan = c.plan
  <2> DEFINE r == [plan |-> c.plan, base |-> history, call |-> PlanCall(c.id), edits |-> edits]
             b == [id |-> Len(graphs) + 1, commands |-> c.plan, next |-> 0,
                   checkpoint |-> [call |-> PlanCall(c.id), base |-> history]]
  <2>1. graphs' = Append(graphs, r) /\ bank' = b
    BY DEF HandleRegister
  <2>2. c.plan \in Seq(Commands) /\ PlanCall(c.id) \in CallId /\ history \in Seq(Item) /\ edits \in Nat
        /\ graphs \in Seq(Graph)
    <3>1. c \in PlanRequest /\ c.plan \in Seq(Words)
      BY <1>1, PlanAssumption DEF AllInv, TypeInv, TypeOK
    <3>2. \A i \in 1..Len(c.plan) : c.plan[i] \in Commands
      BY DEF HandleRegister, Accepts, ParsedPlan
    <3>3. c.plan \in Seq(Commands)
      BY <3>1, <3>2, SeqOver
    <3>4. QED
      BY <3>1, <3>3, PlanCallType DEF PlanRequest, AllInv, TypeInv, TypeOK
  <2>3. r \in Graph /\ b \in Bank /\ r.plan = c.plan /\ b.id = Len(graphs) + 1
    BY <2>2 DEF Graph, Bank, Checkpoint
  <2> HIDE DEF r, b
  <2>4. /\ Len(graphs') = Len(graphs) + 1 /\ graphs'[Len(graphs) + 1] = r
        /\ \A g \in 1..Len(graphs) : graphs'[g] = graphs[g]
    BY <2>1, <2>2, <2>3, AppendFacts
  <2>5. QED
    BY <2>1, <2>3, <2>4, NoneAssumption
<1>4. PlansOf' = Append(PlansOf, c.plan)
  <2>1. PlansOf \in Seq(Seq(Commands)) /\ PlansOf' \in Seq(Seq(Commands)) /\ Len(PlansOf) = Len(graphs)
        /\ Len(PlansOf') = Len(graphs') /\ Len(graphs) \in Nat
    <3>1. graphs' \in Seq(Graph)
      BY DEF AllInv, TypeInv, TypeOK
    <3>2. \A g \in 1..Len(graphs') : graphs'[g] \in Graph
      BY <3>1
    <3>3. \A g \in 1..Len(graphs') : graphs'[g].plan \in Seq(Commands)
      BY <3>2 DEF Graph
    <3>4. PlansOf' \in Seq(Seq(Commands)) /\ Len(PlansOf') = Len(graphs')
      BY <3>1, <3>3 DEF PlansOf
    <3>5. QED
      BY <3>4, PlansType DEF AllInv
  <2>2. c.plan \in Seq(Commands)
    <3>1. \A g \in 1..Len(graphs') : graphs'[g].plan \in Seq(Commands)
      BY <2>1 DEF PlansOf
    <3>2. QED
      BY <1>3, <2>1, <3>1
  <2>3. \A i \in 1..Len(graphs') : PlansOf'[i] = Append(PlansOf, c.plan)[i]
    <3> SUFFICES ASSUME NEW i \in 1..Len(graphs') PROVE PlansOf'[i] = Append(PlansOf, c.plan)[i]
      OBVIOUS
    <3>1. PlansOf'[i] = graphs'[i].plan
      BY DEF PlansOf
    <3>2. CASE i \in 1..Len(graphs)
      BY <1>3, <2>1, <2>2, <3>1, <3>2 DEF PlansOf
    <3>3. CASE i = Len(graphs) + 1
      BY <1>3, <2>1, <2>2, <3>1, <3>3
    <3>4. QED
      BY <1>3, <2>1, <3>2, <3>3
  <2>4. Append(PlansOf, c.plan) \in Seq(Seq(Commands)) /\ Len(Append(PlansOf, c.plan)) = Len(graphs')
    BY <1>3, <2>1, <2>2
  <2>5. QED
    BY <2>1, <2>3, <2>4, SameItems
<1>5. Live' = Len(PlansOf')
  <2>1. graphs' \in Seq(Graph)
    BY DEF AllInv, TypeInv, TypeOK
  <2>2. Len(PlansOf') = Len(graphs')
    BY <2>1 DEF PlansOf
  <2>3. QED
    BY <1>3, <2>2 DEF Live
<1>6. log' = log
  BY DEF HandleRegister
<1>7. QED
  BY <1>1, <1>2, <1>4, <1>5, <1>6 DEF Contract!Register, PlansOf

LEMMA ContractAttempts ==
    ASSUME AllInv, pc = "dispatch", NEW cmd \in Commands, NEW outcome \in {"running", "bad"},
           UNCHANGED graphs, log' = Append(log, EntryOf(held, cmd, outcome))
    PROVE  \E late \in BOOLEAN : Contract!Attempt(cmd, outcome, late)
<1> DEFINE late == cancelled \/ edits # graphs[held.id].edits
<1>1. /\ held \in Bank /\ held # None /\ InPlan(held) /\ Ready(held) /\ OnTime(held)
  BY DEF AllInv, TypeInv, TypeOK, Ownership, ReuseStates, DispatchInv, LateInv
<1>2. Live = held.id /\ Live # 0 /\ Live \in 1..Len(graphs)
  BY <1>1, LiveFacts DEF AllInv
<1>3. PlansOf[Live] = graphs[held.id].plan /\ PlansOf[Live] = held.commands
  BY <1>1, <1>2 DEF PlansOf, InPlan
<1>4. Contract!Last = LastEntry
  BY DEF Contract!Last, LastEntry
<1>5. Contract!NextNode = held.next
      /\ (Contract!HasAttempt => held.next # 0)
  <2>1. CASE held.next = 0
    <3>1. log \in Seq(Entry)
      BY DEF AllInv, TypeInv, TypeOK
    <3>2. log # <<>> => Len(log) \in 1..Len(log) /\ LastEntry \in Entry
      BY <3>1 DEF LastEntry
    <3>3. log # <<>> => LastEntry.graph < held.id
      BY <1>1, <2>1, <3>2 DEF Ready, LastEntry
    <3>4. log # <<>> => LastEntry.graph # held.id
      BY <1>1, <3>2, <3>3 DEF Entry, Bank
    <3>5. ~Contract!HasAttempt
      BY <1>2, <1>4, <3>4 DEF Contract!HasAttempt
    <3>6. QED
      BY <2>1, <3>5 DEF Contract!NextNode
  <2>2. CASE held.next # 0
    <3>1. log # <<>> /\ LastEntry.graph = held.id /\ LastEntry.node = held.next - 1
      BY <1>1, <2>2 DEF Ready
    <3>2. Contract!HasAttempt
      BY <1>2, <1>4, <3>1 DEF Contract!HasAttempt
    <3>3. held.next \in Nat
      BY <1>1 DEF Bank
    <3>4. LastEntry.node + 1 = held.next
      BY <3>1, <3>3
    <3>5. QED
      BY <2>2, <1>4, <3>2, <3>4 DEF Contract!NextNode
  <2>3. QED
    BY <2>1, <2>2
<1>6. Contract!HasAttempt =>
        /\ LastEntry.outcome = "ok" /\ LastEntry.cmd = PlansOf[Live][held.next] /\ ~LastEntry.late
  BY <1>1, <1>3, <1>5 DEF Ready, OnTime
<1>7. held.next < Len(PlansOf[Live])
  BY <1>1, <1>3 DEF InPlan
<1>8. log' = Append(log, [graph |-> Live, node |-> held.next, cmd |-> cmd,
                          outcome |-> outcome, late |-> late])
  BY <1>2 DEF EntryOf
<1>9. PlansOf' = PlansOf
  BY DEF PlansOf
<1>10. late \in BOOLEAN
  OBVIOUS
<1> HIDE DEF late
<1>11. Contract!Attempt(cmd, outcome, late)
  BY <1>2, <1>4, <1>5, <1>6, <1>7, <1>8, <1>9 DEF Contract!Attempt, PlansOf
<1>12. QED
  BY <1>10, <1>11

LEMMA ContractResolves ==
    ASSUME AllInv, pc = "running", NEW outcome \in {"ok", "bad"},
           UNCHANGED graphs, log' = ResolvedLog(outcome)
    PROVE  Contract!Resolve(outcome)
<1>1. log # <<>> /\ LastEntry.outcome = "running"
  BY DEF AllInv, TypeInv, Ownership, LateInv
<1>2. Contract!IsRunning
  BY <1>1 DEF Contract!IsRunning, Contract!Last, LastEntry
<1>3. QED
  BY <1>2 DEF Contract!Resolve, ResolvedLog

(* A step that keeps the log and the plans may only end the active graph.  *)
LEMMA ContractEnds ==
    ASSUME AllInv, UNCHANGED <<graphs, log>>, pc # "running", Live' \in {Live, 0}
    PROVE  [Contract!Next]_(Contract!vars)
<1>1. ~Contract!IsRunning
  BY DEF AllInv, LateInv, Contract!IsRunning, Contract!Last, LastEntry
<1>2. CASE Live' = Live
  BY <1>2 DEF Contract!vars
<1>3. CASE Live' = 0
  BY <1>1, <1>3 DEF Contract!Next
<1>4. QED
  BY <1>2, <1>3

LEMMA ContractStep == AllInv /\ AllInv' /\ [Next]_vars => [Contract!Next]_(Contract!vars)
<1> SUFFICES ASSUME AllInv, AllInv', [Next]_vars PROVE [Contract!Next]_(Contract!vars)
  OBVIOUS
<1>0. TypeInv /\ TypeInv' /\ (held # None <=> pc \in ReuseStates) /\ (held # None => bank = None)
  BY DEF AllInv, TypeInv, Ownership
<1>1. CASE UNCHANGED <<held, bank, graphs, log>>
  <2>1. Live' = Live
    BY <1>1 DEF Live
  <2>2. QED
    BY <1>1, <2>1 DEF Contract!vars
<1>2. CASE Handling
  <2>1. ASSUME NEW c \in calls, HandleRegister(c) PROVE Contract!Next
    BY <2>1, ContractRegisters DEF Contract!Next
  <2>2. QED
    BY <1>1, <1>2, <2>1 DEF Handling, HandleRefuse, Acknowledge, ghosts
<1>3. CASE Fallback \/ EndTurn
  <2>1. UNCHANGED <<graphs, log, held>> /\ bank' = None /\ held = None /\ pc # "running"
    BY <1>0, <1>3 DEF Fallback, EndTurn, ReuseStates, ghosts
  <2>2. Live' = 0
    BY <2>1 DEF Live
  <2>3. QED
    BY <2>1, <2>2, ContractEnds
<1>4. CASE Arm
  <2>1. UNCHANGED <<graphs, log>> /\ held' = bank /\ bank' = None /\ bank # None /\ pc = "entry"
    BY <1>4 DEF Arm, Reusable, ghosts
  <2>2. Live' = Live
    BY <2>1 DEF Live
  <2>3. QED
    BY <2>1, <2>2, ContractEnds
<1>5. CASE Settle
  <2>1. /\ UNCHANGED <<graphs, log>> /\ held' = None /\ held # None /\ bank = None /\ pc = "settle"
        /\ bank' = (IF Continues THEN Advanced(held, next_history) ELSE bank)
    BY <1>0, <1>5 DEF Settle, ReuseStates, ghosts
  <2>2. Live = held.id
    BY <1>0, <2>1, LiveFacts
  <2>3. Live' \in {Live, 0}
    <3>1. CASE bank' = None
      BY <2>1, <3>1 DEF Live
    <3>2. CASE bank' # None
      BY <2>1, <2>2, <3>2 DEF Live, Advanced
    <3>3. QED
      BY <3>1, <3>2
  <2>4. QED
    BY <2>1, <2>3, ContractEnds
<1>6. CASE Dispatching
  <2>0. /\ held # None /\ held.commands[held.next + 1] \in Commands /\ bank = None /\ Live = held.id
    <3>1. held # None /\ bank = None
      BY <1>0, <1>6 DEF Dispatching, Start, Deny, Finish, DispatchError, ReuseStates
    <3>2. held \in Bank /\ held.next < Len(held.commands)
      BY <1>0, <3>1 DEF TypeInv, TypeOK, InPlan
    <3>3. QED
      BY <1>0, <3>1, <3>2, NodeCommand, LiveFacts
  <2>1. CASE \/ \E cmd \in Commands : Start(cmd)
             \/ Deny
             \/ DispatchError /\ pc = "dispatch"
    <3>1. PICK cmd \in Commands, outcome \in {"running", "bad"} :
              log' = Append(log, EntryOf(held, cmd, outcome))
      BY <2>0, <2>1 DEF Start, Deny, DispatchError
    <3>2. pc = "dispatch" /\ UNCHANGED graphs /\ bank' = bank /\ (held' = held \/ held' = None)
      BY <2>1 DEF Start, Deny, DispatchError
    <3>3. PICK late \in BOOLEAN : Contract!Attempt(cmd, outcome, late)
      BY <3>1, <3>2, ContractAttempts
    <3>4. Live' \in {Live, 0}
      BY <2>0, <3>2 DEF Live
    <3>5. outcome \in Contract!Outcome
      BY DEF Contract!Outcome
    <3>6. QED
      BY <3>3, <3>4, <3>5 DEF Contract!Next
  <2>2. CASE \/ \E receipt \in Receipt, accepted \in BOOLEAN : Finish(receipt, accepted)
             \/ DispatchError /\ pc = "running"
    <3>1. PICK outcome \in {"ok", "bad"} : log' = ResolvedLog(outcome)
      BY <2>2 DEF Finish, DispatchError, Outcome
    <3>2. pc = "running" /\ UNCHANGED graphs /\ bank' = bank /\ (held' = held \/ held' = None)
      BY <2>2 DEF Finish, DispatchError
    <3>3. Contract!Resolve(outcome)
      BY <3>1, <3>2, ContractResolves
    <3>4. Live' \in {Live, 0}
      BY <2>0, <3>2 DEF Live
    <3>5. QED
      BY <3>3, <3>4 DEF Contract!Next
  <2>3. QED
    BY <1>6, <2>1, <2>2 DEF Dispatching, DispatchError
<1>7. CASE \/ EndSampling \/ Snapshot \/ RecordCall \/ RecordResponse \/ CloneHistory
           \/ Environment /\ ~EndTurn
           \/ UNCHANGED vars
  BY <1>1, <1>7 DEF EndSampling, Snapshot, RecordCall, RecordResponse, CloneHistory, Environment, ModelPlan,
     ModelOther, AddContext, Compact, Cancel, ToggleGate, NestedResult, vars, code, ghosts
<1>8. QED
  BY <1>2, <1>3, <1>4, <1>5, <1>6, <1>7 DEF Next, Reusing

(* HarnessMM implements the execution contract of DecisionGraph.           *)
THEOREM ContractHolds == Spec => ImplementsContract
<1>1. Init => Contract!Init
  <2> SUFFICES ASSUME Init PROVE Contract!Init
    OBVIOUS
  <2>1. graphs = <<>> /\ log = <<>> /\ Live = 0
    BY DEF Init, Live
  <2>2. [g \in 1..Len(graphs) |-> graphs[g].plan] = <<>>
    BY <2>1
  <2>3. QED
    BY <2>1, <2>2 DEF Contract!Init
<1>2. QED
  BY <1>1, AllInvariant, ContractStep, PTL DEF Spec, ImplementsContract, Contract!Spec
=============================================================================
