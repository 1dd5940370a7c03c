------------------------------ MODULE HarnessMM ------------------------------
(***************************************************************************)
(* The turn-local reuse of literal terminal decisions that                 *)
(* patches/harnessmm/harnessmm.rs adds to Codex: the model registers a     *)
(* plan of commands once (handle), and at each later sampling boundary     *)
(* try_reuse dispatches the next command instead of asking the model, for  *)
(* as long as the conversation is exactly the one the plan predicted and   *)
(* the previous command was seen to exit with 0.                           *)
(*                                                                         *)
(* One action per uninterrupted stretch of code: try_reuse awaits four     *)
(* times (recording its call, the native dispatch, recording the response, *)
(* cloning the history), and other tasks may extend the conversation,      *)
(* cancel the turn or finish a tool call at each of those points.          *)
(*                                                                         *)
(* The turn loop, the native dispatcher, its hooks and the model are not   *)
(* part of the repository; their actions assume only what harnessmm.rs and *)
(* the call sites patch-codex-harnessmm.py inserts rely on.                *)
(***************************************************************************)
EXTENDS Integers, Sequences

CONSTANTS
    Words,      (* what a model may write as a command                       *)
    Commands,   (* the words within the limits parse_plan sets               *)
    Plans,      (* the plans a model may author                              *)
    MAX_NODES,  (* the longest plan accepted                                 *)
    MaxCalls,   (* bound: harnessmm_plan calls in the turn                   *)
    MaxEdits,   (* bound: conversation changes made by others                *)
    MaxNested,  (* bound: tool results of other calls                        *)
    None        (* an absent bank, pending entry or receipt                  *)

ASSUME PlanAssumption ==
    /\ Commands \subseteq Words
    /\ Plans \subseteq Seq(Words)
    /\ MAX_NODES \in Nat
    /\ MaxCalls \in Nat /\ MaxEdits \in Nat /\ MaxNested \in Nat

VARIABLES
    history,      (* the session's conversation items                        *)
    bank,         (* Inner.bank: the registered graph, while nobody runs it  *)
    pending,      (* Inner.pending: the call whose receipt is awaited        *)
    calls,        (* harnessmm_plan calls the dispatcher has not answered    *)
    pc,           (* where the turn loop, or try_reuse inside it, stands     *)
    held,         (* try_reuse: the bank it took                             *)
    input,        (* try_reuse: the history snapshot it was given            *)
    next_history, (* try_reuse: the history cloned after the dispatch        *)
    cancelled,    (* the turn's cancellation token                           *)
    gate          (* not preempted, not in Plan mode, exec_command exposed   *)

(* What happened so far; no action of the code reads these. *)
VARIABLES
    issued,       (* harnessmm_plan calls made                               *)
    edits,        (* conversation changes made by others                     *)
    nested,       (* tool results of other calls                             *)
    graphs,       (* every registered plan, with its context                 *)
    log           (* every dispatch attempted for a graph, oldest first      *)

code    == <<history, bank, pending, calls, pc, held, input, next_history>>
signals == <<cancelled, gate>>
ghosts  == <<issued, edits, nested, graphs, log>>
vars    == <<code, signals, ghosts>>

(***************************************************************************)
(* Call ids: graph 0 holds the calls the model makes itself, graph g > 0   *)
(* the compiled ids harnessmm_<g>_<node> of a registered graph.            *)
(***************************************************************************)
CallId == [graph : Nat, node : Nat]
PlanCall(n) == [graph |-> 0, node |-> n]
NestedCall == [graph |-> 0, node |-> 0]
NodeCall(b) == [graph |-> b.id, node |-> b.next]

(* Conversation items. An item another party adds is told apart by number. *)
Item == [kind : {"call", "output", "other"}, id : CallId, ok : BOOLEAN]
CallItem(id)    == [kind |-> "call", id |-> id, ok |-> TRUE]
OutputItem(id, ok) == [kind |-> "output", id |-> id, ok |-> ok]
OtherItem(n)    == [kind |-> "other", id |-> PlanCall(n), ok |-> TRUE]

Receipt == [exit_zero : BOOLEAN, session : BOOLEAN]

(***************************************************************************)
(* A bank: a checkpoint with a call id is Checkpoint::Author, whose        *)
(* items_before_ack is Len(base); without one it is Checkpoint::Receipt.   *)
(* history_key is a SHA-1 over all items: equal keys are equal histories.  *)
(***************************************************************************)
Checkpoint == [call : CallId \cup {None}, base : Seq(Item)]
Bank == [id : Nat, commands : Seq(Commands), next : Nat, checkpoint : Checkpoint]
Pending == [call : CallId, arguments : Commands, receipt : Receipt \cup {None}]
PlanRequest == [id : Nat, plan : Plans, state : {"issued", "registered", "refused"}]
Graph == [plan : Seq(Commands), base : Seq(Item), call : CallId, edits : Nat]
Entry == [graph : Nat, node : Nat, cmd : Commands,
          outcome : {"running", "ok", "bad"}, late : BOOLEAN]

(* An absent value is told apart from every present one. *)
ASSUME NoneAssumption ==
    /\ None \notin Bank
    /\ None \notin Pending
    /\ None \notin Receipt
    /\ None \notin CallId

LoopStates  == {"sampling", "tools", "boundary", "entry", "ended"}
ReuseStates == {"armed", "dispatch", "running", "responded", "recorded", "settle"}

TypeOK ==
    /\ history \in Seq(Item)
    /\ bank \in Bank \cup {None}
    /\ pending \in Pending \cup {None}
    /\ calls \subseteq PlanRequest
    /\ pc \in LoopStates \cup ReuseStates
    /\ held \in Bank \cup {None}
    /\ input \in Seq(Item)
    /\ next_history \in Seq(Item)
    /\ cancelled \in BOOLEAN
    /\ gate \in BOOLEAN
    /\ issued \in Nat
    /\ edits \in Nat
    /\ nested \in Nat
    /\ graphs \in Seq(Graph)
    /\ log \in Seq(Entry)

Init ==
    /\ history = <<>>
    /\ bank = None
    /\ pending = None
    /\ calls = {}
    /\ pc = "sampling"
    /\ held = None
    /\ input = <<>>
    /\ next_history = <<>>
    /\ cancelled = FALSE
    /\ gate \in BOOLEAN
    /\ issued = 0
    /\ edits = 0
    /\ nested = 0
    /\ graphs = <<>>
    /\ log = <<>>
-----------------------------------------------------------------------------
(***************************************************************************)
(* Registration: the model calls harnessmm_plan, handle runs inside the    *)
(* native dispatcher, and its output is recorded when the call is done.    *)
(***************************************************************************)
IsLastItem(item) == history # <<>> /\ history[Len(history)] = item

ParsedPlan(plan) ==
    /\ Len(plan) \in 2..MAX_NODES
    /\ \A i \in 1..Len(plan) : plan[i] \in Commands

ModelPlan(plan) ==
    /\ pc \in {"sampling", "tools"}
    /\ issued < MaxCalls
    /\ issued' = issued + 1
    /\ history' = Append(history, CallItem(PlanCall(issued')))
    /\ calls' = calls \cup {[id |-> issued', plan |-> plan, state |-> "issued"]}
    /\ pc' = "tools"
    /\ UNCHANGED <<bank, pending, held, input, next_history, signals,
                   edits, nested, graphs, log>>

Accepts_ReplacesActive(c) ==
    gate /\ ParsedPlan(c.plan) /\ IsLastItem(CallItem(PlanCall(c.id)))

(* Every condition handle rejects on, the active-graph check included. *)
Accepts(c) ==
    /\ gate
    /\ ParsedPlan(c.plan)
    /\ IsLastItem(CallItem(PlanCall(c.id)))
    /\ bank = None
    /\ pending = None

Answered(c, state) == (calls \ {c}) \cup {[c EXCEPT !.state = state]}

HandleRegister(c) ==
    /\ c.state = "issued"
    /\ Accepts(c)
    /\ bank' = [id |-> Len(graphs) + 1, commands |-> c.plan, next |-> 0,
                checkpoint |-> [call |-> PlanCall(c.id), base |-> history]]
    /\ calls' = Answered(c, "registered")
    /\ graphs' = Append(graphs, [plan |-> c.plan, base |-> history,
                                 call |-> PlanCall(c.id), edits |-> edits])
    /\ UNCHANGED <<history, pending, pc, held, input, next_history, signals,
                   issued, edits, nested, log>>

HandleRefuse(c) ==
    /\ c.state = "issued"
    /\ ~Accepts(c)
    /\ calls' = Answered(c, "refused")
    /\ UNCHANGED <<history, bank, pending, pc, held, input, next_history,
                   signals, ghosts>>

(* A PostToolUse hook may still turn an accepted call into a failed output. *)
Acknowledge(c, ok) ==
    /\ c.state # "issued"
    /\ ok => c.state = "registered"
    /\ history' = Append(history, OutputItem(PlanCall(c.id), ok))
    /\ calls' = calls \ {c}
    /\ UNCHANGED <<bank, pending, pc, held, input, next_history, signals, ghosts>>

EndSampling ==
    /\ pc = "tools"
    /\ calls = {}
    /\ pc' = "boundary"
    /\ UNCHANGED <<history, bank, pending, calls, held, input, next_history,
                   signals, ghosts>>
-----------------------------------------------------------------------------
(***************************************************************************)
(* try_reuse, entered at a sampling boundary with a snapshot of history.   *)
(***************************************************************************)
Snapshot ==
    /\ pc = "boundary"
    /\ input' = history
    /\ pc' = "entry"
    /\ UNCHANGED <<history, bank, pending, calls, held, next_history, signals, ghosts>>

CheckpointMatches_LengthOnly(checkpoint, h) ==
    Len(h) = Len(checkpoint.base) + IF checkpoint.call = None THEN 0 ELSE 1

CheckpointMatches_ForgetsAck(checkpoint, h) == h = checkpoint.base

CheckpointMatches(checkpoint, h) ==
    IF checkpoint.call = None
    THEN h = checkpoint.base
    ELSE h = Append(checkpoint.base, OutputItem(checkpoint.call, TRUE))

Reusable ==
    /\ bank # None
    /\ ~cancelled
    /\ gate
    /\ CheckpointMatches(bank.checkpoint, input)

(* Returns Ok(false): whatever bank there was is gone and the model samples. *)
Fallback_KeepsBank ==
    /\ pc = "entry"
    /\ ~Reusable
    /\ pc' = "sampling"
    /\ input' = <<>>
    /\ UNCHANGED <<history, bank, pending, calls, held, next_history, signals, ghosts>>

Fallback ==
    /\ pc = "entry"
    /\ ~Reusable
    /\ bank' = None
    /\ pc' = "sampling"
    /\ input' = <<>>
    /\ UNCHANGED <<history, pending, calls, held, next_history, signals, ghosts>>

(* No await lies between taking the bank, the checks and setting pending. *)
Arm ==
    /\ pc = "entry"
    /\ Reusable
    /\ held' = bank
    /\ bank' = None
    /\ pending' = [call |-> NodeCall(bank), arguments |-> bank.commands[bank.next + 1],
                   receipt |-> None]
    /\ pc' = "armed"
    /\ UNCHANGED <<history, calls, input, next_history, signals, ghosts>>

RecordCall ==
    /\ pc = "armed"
    /\ history' = Append(history, CallItem(NodeCall(held)))
    /\ pc' = "dispatch"
    /\ UNCHANGED <<bank, pending, calls, held, input, next_history, signals, ghosts>>

RecordResponse ==
    /\ pc = "responded"
    /\ history' = Append(history, OutputItem(NodeCall(held), TRUE))
    /\ pc' = "recorded"
    /\ UNCHANGED <<bank, pending, calls, held, input, next_history, signals, ghosts>>

CloneHistory ==
    /\ pc = "recorded"
    /\ next_history' = history
    /\ pc' = "settle"
    /\ UNCHANGED <<history, bank, pending, calls, held, input, signals, ghosts>>

AdmittedReceipt_IgnoresSession(receipt) == receipt.exit_zero

AdmittedReceipt(receipt) == receipt.exit_zero /\ ~receipt.session

Unchanged_PrefixOnly ==
    /\ Len(next_history) >= Len(input)
    /\ SubSeq(next_history, 1, Len(input)) = input

(* Exactly the recorded call and its response were added. *)
Unchanged ==
    /\ Len(next_history) = Len(input) + 2
    /\ SubSeq(next_history, 1, Len(input)) = input

TakenReceipt ==
    IF pending # None /\ pending.call = NodeCall(held) THEN pending.receipt ELSE None

Continues ==
    /\ Unchanged
    /\ TakenReceipt # None
    /\ AdmittedReceipt(TakenReceipt)
    /\ held.next + 1 < Len(held.commands)
    /\ ~cancelled

Advanced_SameNode(b, h) == [b EXCEPT !.checkpoint = [call |-> None, base |-> h]]

(* The bank put back after a command, with a checkpoint on what is now h. *)
Advanced(b, h) ==
    [id |-> b.id, commands |-> b.commands, next |-> b.next + 1,
     checkpoint |-> [call |-> None, base |-> h]]

(* Returns Ok(true): the caller goes round the turn loop again. *)
Settle ==
    /\ pc = "settle"
    /\ pending' = None
    /\ bank' = IF Continues THEN Advanced(held, next_history) ELSE bank
    /\ held' = None
    /\ input' = <<>>
    /\ next_history' = <<>>
    /\ pc' = "boundary"
    /\ UNCHANGED <<history, calls, signals, ghosts>>
-----------------------------------------------------------------------------
(***************************************************************************)
(* observe, called by the registry once the PostToolUse hooks accepted the *)
(* result of a call: the value of pending afterwards.                      *)
(***************************************************************************)
Observed_KeepsRewritten(call, arguments, receipt) ==
    IF pending = None \/ pending.call # call THEN pending
    ELSE [pending EXCEPT !.receipt = receipt]

Observed(call, arguments, receipt) ==
    IF pending = None THEN None
    ELSE IF pending.call # call THEN pending
    ELSE IF pending.arguments # arguments THEN None
    ELSE [pending EXCEPT !.receipt = receipt]

(***************************************************************************)
(* The native dispatcher: it runs the command as given or as a PreToolUse  *)
(* hook rewrote it, and returns a result the hooks accept or not; or it    *)
(* never starts it (a hook denies, the turn is cancelled); or it fails,    *)
(* and the error leaves try_reuse at once.                                 *)
(***************************************************************************)
EntryOf(b, cmd, outcome) ==
    [graph |-> b.id, node |-> b.next, cmd |-> cmd, outcome |-> outcome,
     late |-> cancelled \/ edits # graphs[b.id].edits]

ResolvedLog(outcome) == [log EXCEPT ![Len(log)].outcome = outcome]

Start(cmd) ==
    /\ pc = "dispatch"
    /\ log' = Append(log, EntryOf(held, cmd, "running"))
    /\ pc' = "running"
    /\ UNCHANGED <<history, bank, pending, calls, held, input, next_history,
                   signals, issued, edits, nested, graphs>>

Deny ==
    /\ pc = "dispatch"
    /\ log' = Append(log, EntryOf(held, held.commands[held.next + 1], "bad"))
    /\ pc' = "responded"
    /\ UNCHANGED <<history, bank, pending, calls, held, input, next_history,
                   signals, issued, edits, nested, graphs>>

Outcome(receipt, accepted) ==
    IF accepted /\ receipt.exit_zero /\ ~receipt.session THEN "ok" ELSE "bad"

Finish(receipt, accepted) ==
    /\ pc = "running"
    /\ pending' = IF accepted
                  THEN Observed(NodeCall(held), log[Len(log)].cmd, receipt)
                  ELSE pending
    /\ log' = ResolvedLog(Outcome(receipt, accepted))
    /\ pc' = "responded"
    /\ UNCHANGED <<history, bank, calls, held, input, next_history, signals,
                   issued, edits, nested, graphs>>

(* A result of another call, such as one a code-mode cell makes. *)
NestedResult(receipt) ==
    /\ pc # "ended"
    /\ nested < MaxNested
    /\ nested' = nested + 1
    /\ pending' = Observed(NestedCall, None, receipt)
    /\ UNCHANGED <<history, bank, calls, pc, held, input, next_history, signals,
                   issued, edits, graphs, log>>

(* handle_tool_call(...).await? returns early; pending stays as it is. *)
DispatchError ==
    /\ pc \in {"dispatch", "running"}
    /\ log' = IF pc = "running" THEN ResolvedLog("bad")
              ELSE Append(log, EntryOf(held, held.commands[held.next + 1], "bad"))
    /\ pc' = "boundary"
    /\ held' = None
    /\ input' = <<>>
    /\ UNCHANGED <<history, bank, pending, calls, next_history, signals,
                   issued, edits, nested, graphs>>
-----------------------------------------------------------------------------
(***************************************************************************)
(* Everyone else: other tools and tasks, steering, compaction, the user.   *)
(***************************************************************************)
ModelOther ==
    /\ pc = "sampling"
    /\ edits < MaxEdits
    /\ edits' = edits + 1
    /\ history' = Append(history, OtherItem(edits'))
    /\ pc' = "tools"
    /\ UNCHANGED <<bank, pending, calls, held, input, next_history, signals,
                   issued, nested, graphs, log>>

AddContext ==
    /\ pc # "ended"
    /\ edits < MaxEdits
    /\ edits' = edits + 1
    /\ history' = Append(history, OtherItem(edits'))
    /\ UNCHANGED <<bank, pending, calls, pc, held, input, next_history, signals,
                   issued, nested, graphs, log>>

Compact ==
    /\ pc = "boundary"
    /\ edits < MaxEdits
    /\ edits' = edits + 1
    /\ history' = <<OtherItem(edits')>>
    /\ UNCHANGED <<bank, pending, calls, pc, held, input, next_history, signals,
                   issued, nested, graphs, log>>

Cancel ==
    /\ pc # "ended"
    /\ ~cancelled
    /\ cancelled' = TRUE
    /\ UNCHANGED <<code, gate, ghosts>>

ToggleGate ==
    /\ pc # "ended"
    /\ gate' = ~gate
    /\ UNCHANGED <<code, cancelled, ghosts>>

(* The State is part of the turn and goes with it. *)
EndTurn ==
    /\ \/ pc = "sampling"
       \/ cancelled /\ pc \in {"tools", "boundary"}
    /\ pc' = "ended"
    /\ bank' = None
    /\ pending' = None
    /\ calls' = {}
    /\ UNCHANGED <<history, held, input, next_history, signals, ghosts>>
-----------------------------------------------------------------------------
Handling ==
    \E c \in calls :
        \/ HandleRegister(c)
        \/ HandleRefuse(c)
        \/ \E ok \in BOOLEAN : Acknowledge(c, ok)

Dispatching ==
    \/ \E cmd \in Commands : Start(cmd)
    \/ Deny
    \/ \E receipt \in Receipt, accepted \in BOOLEAN : Finish(receipt, accepted)
    \/ DispatchError

Reusing ==
    Snapshot \/ Fallback \/ Arm \/ RecordCall \/ RecordResponse \/ CloneHistory \/ Settle

Environment ==
    \/ \E plan \in Plans : ModelPlan(plan)
    \/ ModelOther \/ AddContext \/ Compact \/ Cancel \/ ToggleGate \/ EndTurn
    \/ \E receipt \in Receipt : NestedResult(receipt)

Next == Handling \/ EndSampling \/ Reusing \/ Dispatching \/ Environment

Spec == Init /\ [][Next]_vars

(***************************************************************************)
(* The runtime polls a task that can go on, and a native command returns   *)
(* within its yield time (at most 30 s). Nothing obliges the model, the    *)
(* user or other tasks to do anything.                                     *)
(***************************************************************************)
FairSpec == Spec /\ WF_vars(Handling \/ EndSampling \/ Reusing \/ Dispatching)
-----------------------------------------------------------------------------
(***************************************************************************)
(* Properties.                                                             *)
(***************************************************************************)

(* A command other than a graph's first is dispatched only right after the *)
(* command before it in the same graph was observed to exit with 0 and no  *)
(* session: try_reuse, observe and admitted_receipt between them let no    *)
(* failed, blocked, background or skipped predecessor through, whatever    *)
(* other tasks do meanwhile.                                               *)
SuccessorsFollowSuccess ==
    \A i \in 1..Len(log) : log[i].node > 0 =>
        /\ i > 1
        /\ log[i - 1].graph = log[i].graph
        /\ log[i - 1].node = log[i].node - 1
        /\ log[i - 1].outcome = "ok"

(* The reuse path keeps its fields within the plans it took and lets only  *)
(* a success through to the next command.                                  *)
SoundReuse == TypeOK /\ SuccessorsFollowSuccess

(* No command of a graph is dispatched twice, and graphs do not overlap:   *)
(* the dispatches of one graph end before those of the next begin.         *)
DispatchedOnce ==
    \A i, j \in 1..Len(log) : i < j =>
        \/ log[i].graph < log[j].graph
        \/ log[i].graph = log[j].graph /\ log[i].node < log[j].node

(* Once another party changed the conversation, or the turn was cancelled, *)
(* at most the command already on its way is dispatched: a command started *)
(* on a changed turn is the last of its graph. The snapshot try_reuse      *)
(* compares was taken earlier, so one such command cannot be excluded.     *)
ChangedTurnStopsGraph ==
    \A i, j \in 1..Len(log) :
        i < j /\ log[i].late => log[j].graph # log[i].graph

(* Nor is anything dispatched after a command a hook rewrote, even one     *)
(* that exited with 0: what precedes a successor is what the author wrote. *)
SuccessorsFollowLiteral ==
    \A i \in 2..Len(log) : log[i].node > 0 =>
        log[i - 1].cmd = graphs[log[i].graph].plan[log[i].node]

(* The conversation a substituted decision answers is exactly the author's *)
(* context, the accepted plan output, and the calls and outputs of the     *)
(* graph's earlier commands: checkpoints never absorb anything else.       *)
IsOwnContext(h, g, n) ==
    LET base == graphs[g].base IN
    /\ Len(h) = Len(base) + 1 + 2 * n
    /\ SubSeq(h, 1, Len(base)) = base
    /\ h[Len(base) + 1] = OutputItem(graphs[g].call, TRUE)
    /\ \A k \in 0..(n - 1) :
           /\ h[Len(base) + 2 + 2 * k] = CallItem([graph |-> g, node |-> k])
           /\ h[Len(base) + 3 + 2 * k] = OutputItem([graph |-> g, node |-> k], TRUE)

ReusesOwnContext == held # None => IsOwnContext(input, held.id, held.next)

(* A pending entry belongs to the try_reuse call in progress, or its       *)
(* native dispatch failed with an error; then the turn has no graph left   *)
(* and, as handle refuses while an entry is pending, never gets one.       *)
Orphaned == pending # None /\ held = None
OrphanEndsReuse == [][Orphaned => UNCHANGED <<bank, log, graphs>>]_vars

(* Left alone, a registered graph runs to its end: without outside changes,*)
(* cancellation or a closed gate, with every plan output accepted and every*)
(* command run as written and admitted, no sampling boundary drops it.     *)
Calm ==
    /\ gate
    /\ ~cancelled
    /\ edits = 0
    /\ \A i \in 1..Len(history) : history[i].ok
    /\ \A i \in 1..Len(log) :
           log[i].outcome # "bad" /\ log[i].cmd = graphs[log[i].graph].plan[log[i].node + 1]

Completed(g) ==
    \A n \in 1..Len(graphs[g].plan) : \E i \in 1..Len(log) :
        log[i].graph = g /\ log[i].node = n - 1 /\ log[i].outcome = "ok"

CalmGraphsComplete ==
    []Calm => \A g \in 1..MaxCalls : (Len(graphs) >= g) ~> (Len(graphs) >= g /\ Completed(g))

(* A graph never blocks the turn: an unfinished one is always run on,      *)
(* completed or dropped, so that the model gets to decide again.           *)
ControlReturns == (bank # None \/ held # None) ~> (bank = None /\ held = None)

(* HarnessMM implements the contract of DecisionGraph.                     *)
Live == IF bank # None THEN bank.id ELSE IF held # None THEN held.id ELSE 0
Contract == INSTANCE DecisionGraph WITH
    plans <- [g \in 1..Len(graphs) |-> graphs[g].plan], active <- Live
ImplementsContract == Contract!Spec
=============================================================================
