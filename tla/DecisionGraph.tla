---------------------------- MODULE DecisionGraph ----------------------------
(***************************************************************************)
(* What docs/harnessmm.md ("Execution contract") promises of HarnessMM,    *)
(* without the machinery: at most one linear graph is active; its commands *)
(* are attempted in the authored order, each at most once, and a command   *)
(* is attempted only if every earlier one of its graph ran as authored,    *)
(* exited with 0 without a running session, and started in a turn that     *)
(* nobody had changed or cancelled since the plan was registered. The      *)
(* graph may be given up at any time.                                      *)
(***************************************************************************)
EXTENDS Integers, Sequences

CONSTANTS Commands, Plans

VARIABLES
    plans,   (* the plans registered so far                                  *)
    active,  (* the number of the active graph, 0 if there is none           *)
    log      (* every attempt to run a command of a graph, oldest first      *)

vars == <<plans, active, log>>

Outcome == {"running", "ok", "bad"}

Last == log[Len(log)]
IsRunning == log # <<>> /\ Last.outcome = "running"
HasAttempt == log # <<>> /\ Last.graph = active
NextNode == IF HasAttempt THEN Last.node + 1 ELSE 0

Init == plans = <<>> /\ active = 0 /\ log = <<>>

Register(plan) ==
    /\ active = 0
    /\ plans' = Append(plans, plan)
    /\ active' = Len(plans')
    /\ UNCHANGED log

Attempt(cmd, outcome, late) ==
    /\ active # 0
    /\ NextNode < Len(plans[active])
    /\ HasAttempt =>
           Last.outcome = "ok" /\ Last.cmd = plans[active][NextNode] /\ ~Last.late
    /\ outcome # "ok"
    /\ log' = Append(log, [graph |-> active, node |-> NextNode, cmd |-> cmd,
                           outcome |-> outcome, late |-> late])
    /\ UNCHANGED plans

Resolve(outcome) ==
    /\ IsRunning
    /\ log' = [log EXCEPT ![Len(log)].outcome = outcome]
    /\ UNCHANGED plans

(* An attempt that cannot even start, or fails, may end the graph at once. *)
Next ==
    \/ \E plan \in Plans : Register(plan)
    \/ \E cmd \in Commands, outcome \in Outcome, late \in BOOLEAN :
           Attempt(cmd, outcome, late) /\ active' \in {active, 0}
    \/ \E outcome \in {"ok", "bad"} : Resolve(outcome) /\ active' \in {active, 0}
    \/ active' = 0 /\ ~IsRunning /\ UNCHANGED <<plans, log>>

Spec == Init /\ [][Next]_vars
==============================================================================
