------------------------------- MODULE CliRun -------------------------------
(***************************************************************************)
(* One packaged CLI started by the evaluation: a smoke case against the    *)
(* deterministic Responses server of native_smoke.py, or a trial (the      *)
(* preflight is one) against the real provider by run_trials.py, whose     *)
(* trace analyze_traces.py then reads.  The runner prepares a fresh home,  *)
(* trusts its own hooks, starts the child, waits with a timeout and cleans *)
(* up.  The child asks the model, runs the commands it is answered with,   *)
(* natively in a row when the answer is a plan, and runs a hook before and *)
(* after each request.  A hook's row may be lost, a request may fail, the  *)
(* child may hang, be slow to die, or be wrong.                            *)
(***************************************************************************)
EXTENDS Integers, FiniteSets

CONSTANTS
    Kinds,       (* what is run: "trial" or smoke cases                    *)
    MaxRequests, (* bound: model requests of one child                     *)
    MaxFaults,   (* bound: lost rows, failed requests, failed status writes*)
    None

(* Why the second command of a plan must not follow the first. *)
Stopping == {"failed", "spoofed_stdout", "rewrite", "blocked", "post_blocked", "changed_context"}

Defects == Stopping \cup {"always_on", "never_on", "extra_request"}

(* A smoke case needs up to three requests: one more must fit the bound.   *)
ASSUME CliRunAssumption ==
    /\ MaxRequests \in Nat /\ MaxRequests > 3 /\ MaxFaults \in Nat
    /\ None \notin Nat \cup Kinds \cup Defects \cup {"running", "completed", "timed_out"}
    /\ Kinds \subseteq Stopping \cup {"trial", "baseline", "success", "disabled", "metering"}

VARIABLES
    kind, included,  (* what is run, and whether the package has HarnessMM *)
    defect,          (* what this CLI does wrong, or None                  *)
    pc,              (* the runner                                         *)
    server,          (* the mock server is up                              *)
    auth,            (* the isolated home has the access grant             *)
    status,          (* status.json: its state and exit code               *)
    child,           (* the child process                                  *)
    code,            (* its exit code                                      *)
    at,              (* what the child does                                *)
    requests,        (* requests it made                                   *)
    native, second,  (* native calls recorded; the second command was run  *)
    pre, post, usage,(* rows the hooks wrote, and those with token usage   *)
    turn,            (* usage in turn.completed, or None                   *)
    message          (* the closing message is in the output               *)

VARIABLES
    told,     (* the usage the provider's answers carried                  *)
    unwritten,(* a write of status.json failed                             *)
    faults

runner == <<pc, server, auth, status>>
chosen == <<kind, included, defect>>
trace == <<requests, native, second, pre, post, usage, turn, message, told>>
vars == <<chosen, runner, child, code, at, trace, unwritten, faults>>

Trial == kind = "trial"
Compiled == included /\ kind # "disabled"
Hooked == Trial \/ kind \in {"metering", "rewrite", "blocked", "post_blocked", "changed_context"}
Metered == Trial \/ kind = "metering"
Ended == {"returned", "raised"}

TypeOK ==
    /\ kind \in Kinds /\ included \in BOOLEAN /\ defect \in {None} \cup Defects
    /\ pc \in {"setup", "trust", "grant", "spawn", "wait", "late", "finally", "unlink",
               "check"} \cup Ended
    /\ server \in BOOLEAN /\ auth \in BOOLEAN /\ second \in BOOLEAN /\ message \in BOOLEAN
    /\ unwritten \in BOOLEAN
    /\ status \in {None, "running", "completed", "timed_out"}
    /\ child \in {"none", "alive", "killed", "dead"} /\ code \in {None, 0, 1}
    /\ at \in {"think", "asked", "plan", "first", "command", "message", "error", "done"}
    /\ requests \in 0..MaxRequests /\ native \in 0..2 * MaxRequests
    /\ pre \in 0..requests /\ post \in 0..pre + MaxFaults /\ usage \in 0..post
    /\ told \in 0..requests /\ turn \in {None} \cup 0..MaxRequests /\ faults \in 0..MaxFaults

(* Which packages a kind is run on (main: cases). *)
Init ==
    /\ kind \in Kinds /\ included \in BOOLEAN /\ defect \in {None} \cup Defects
    /\ kind = "baseline" => ~included
    /\ kind \notin {"baseline", "metering", "trial"} => included
    /\ kind = "trial" => defect = None
    /\ pc = "setup" /\ server = FALSE /\ auth = FALSE /\ status = None
    /\ child = "none" /\ code = None /\ at = "think" /\ requests = 0
    /\ native = 0 /\ second = FALSE /\ pre = 0 /\ post = 0 /\ usage = 0 /\ turn = None
    /\ message = FALSE /\ told = 0 /\ unwritten = FALSE /\ faults = 0

Fault == faults < MaxFaults /\ faults' = faults + 1

-----------------------------------------------------------------------------
(* The child, from the answers it is given and the hooks it is configured  *)
(* with.  Only hooks that record requests leave rows.                      *)
Appends(row) == \/ row' = row + 1 /\ faults' = faults
                \/ row' = row /\ Fault

Ask ==
    /\ child = "alive" /\ at = "think" /\ requests < MaxRequests
    /\ requests' = requests + 1 /\ at' = "asked"
    /\ IF Metered THEN Appends(pre) ELSE UNCHANGED <<pre, faults>>
    /\ UNCHANGED <<unwritten, chosen, runner, child, code, native, second, post, usage, turn, message, told>>

(* do_POST: the first answer checks which tools the CLI offers; a package  *)
(* without the feature gets the two commands one at a time.                *)
Offered == CASE defect = "always_on" -> TRUE
             [] defect = "never_on"  -> FALSE
             [] OTHER                -> Compiled
MockAnswer ==
    IF requests = 1 /\ Offered # Compiled THEN "error"
    ELSE CASE Compiled /\ requests = 1   -> "plan"
           [] ~Compiled /\ requests <= 2 -> "command"
           [] OTHER                      -> "message"
ProviderAnswers == {"command", "message"} \cup (IF Compiled THEN {"plan"} ELSE {})

Answer ==
    /\ child = "alive" /\ at = "asked"
    /\ \/ /\ at' \in (IF Trial THEN ProviderAnswers ELSE {MockAnswer})
          /\ told' = IF at' = "error" THEN told ELSE told + 1
          /\ faults' = faults
       \/ Trial /\ Fault /\ at' = "error" /\ told' = told
    /\ UNCHANGED <<unwritten, chosen, runner, child, code, requests, native, second, pre, post, usage, turn,
                   message>>

(* The hook after a request records its usage when there is one. *)
Records ==
    IF ~Metered THEN UNCHANGED <<post, usage, faults>>
    ELSE \/ post' = post + 1 /\ faults' = faults
            /\ usage' = IF at = "error" THEN usage ELSE usage + 1
         \/ UNCHANGED <<post, usage>> /\ Fault

Plan ==
    /\ child = "alive" /\ at = "plan" /\ Records
    /\ native' = native + 1 /\ at' = "first"
    /\ UNCHANGED <<unwritten, chosen, runner, child, code, requests, second, pre, turn, message, told>>

(* The successor is dispatched only when nothing about the first command   *)
(* calls for the model again; a wrong CLI overlooks one of the reasons.    *)
Continues == kind \notin Stopping \/ kind = defect

Successor ==
    /\ child = "alive" /\ at = "first" /\ at' = "think"
    /\ \/ (Trial \/ Continues) /\ native' = native + 1 /\ second' = TRUE
       \/ (Trial \/ ~Continues) /\ UNCHANGED <<native, second>>
    /\ UNCHANGED <<unwritten, chosen, runner, child, code, requests, pre, post, usage, turn, message, told,
                   faults>>

Command ==
    /\ child = "alive" /\ at = "command" /\ Records /\ at' = "think"
    /\ second' = (second \/ requests = 2)
    /\ UNCHANGED <<unwritten, chosen, runner, child, code, requests, native, pre, turn, message, told>>

Message ==
    /\ child = "alive" /\ at = "message" /\ Records
    /\ IF defect = "extra_request" /\ requests < MaxRequests
       THEN at' = "think" /\ UNCHANGED <<turn, message, code, child>>
       ELSE at' = "done" /\ turn' = told /\ message' = TRUE /\ code' = 0 /\ child' = "dead"
    /\ UNCHANGED <<unwritten, chosen, runner, requests, native, second, pre, told>>

(* A failed request ends the turn, or a real provider is asked again. *)
Error ==
    /\ child = "alive" /\ at = "error" /\ Records
    /\ \/ Trial /\ at' = "think" /\ UNCHANGED <<code, child>>
       \/ at' = "done" /\ code' = 1 /\ child' = "dead"
    /\ UNCHANGED <<unwritten, chosen, runner, requests, native, second, pre, turn, message, told>>

Dies ==
    /\ child = "killed" /\ child' = "dead" /\ code' = 1
    /\ UNCHANGED <<unwritten, chosen, runner, at, trace, faults>>

-----------------------------------------------------------------------------
(* The runner. *)
Setup ==
    /\ pc = "setup"
    /\ server' = ~Trial /\ pc' = IF Hooked THEN "trust" ELSE "spawn"
    /\ UNCHANGED <<unwritten, chosen, auth, status, child, code, at, trace, faults>>

(* trust_owned_hooks() asks an app server for the hooks; finding none of   *)
(* its own, it raises before the run begins, outside the try.              *)
Trust ==
    /\ pc = "trust"
    /\ \/ pc' = (IF Trial THEN "grant" ELSE "spawn") /\ faults' = faults
       \/ pc' = "raised" /\ Fault
    /\ UNCHANGED <<unwritten, chosen, server, auth, status, child, code, at, trace>>

(* write_external_auth() refuses a grant that expires within the timeout.  *)
Grant ==
    /\ pc = "grant"
    /\ \/ auth' = TRUE /\ pc' = "spawn"
       \/ auth' = FALSE /\ pc' = "finally"
    /\ UNCHANGED <<unwritten, chosen, server, status, child, code, at, trace, faults>>

Spawn ==
    /\ pc = "spawn" /\ child' = "alive"
    /\ \/ status' = (IF Trial THEN "running" ELSE status) /\ pc' = "wait" /\ faults' = faults
          /\ unwritten' = unwritten
       \/ Trial /\ Fault /\ status' = status /\ pc' = "finally" /\ unwritten' = TRUE
    /\ UNCHANGED <<chosen, server, auth, code, at, trace>>

Reaped ==
    /\ pc = "wait" /\ child = "dead"
    /\ status' = "completed" /\ pc' = "finally"
    /\ UNCHANGED <<unwritten, chosen, server, auth, child, code, at, trace, faults>>

ExpiresAfterAnswer == pc = "wait" /\ child = "alive" /\ at \notin {"think", "asked"}
Expires == pc = "wait" /\ child = "alive"

Timeout ==
    /\ Expires
    /\ child' = "killed" /\ pc' = "late"
    /\ UNCHANGED <<unwritten, chosen, server, auth, status, code, at, trace, faults>>

(* wait(20) after the kill; should it expire too, that is raised. *)
LateReaped ==
    /\ pc = "late"
    /\ status' = IF child = "dead" THEN "timed_out" ELSE status
    /\ pc' = "finally"
    /\ UNCHANGED <<unwritten, chosen, server, auth, child, code, at, trace, faults>>

(* A case shuts its server down and goes on to its checks unless the child *)
(* was late.  A trial writes its status and then removes the grant: when   *)
(* the write raises, the removal is not reached.                           *)
Finally ==
    /\ pc = "finally"
    /\ \/ ~Trial /\ server' = FALSE /\ pc' = (IF status = "completed" THEN "check" ELSE "raised")
          /\ UNCHANGED <<unwritten, faults>>
       \/ Trial /\ server' = server /\ pc' = "unlink" /\ UNCHANGED <<unwritten, faults>>
       \/ Trial /\ server' = server /\ Fault /\ pc' = "raised" /\ unwritten' = TRUE
    /\ UNCHANGED <<chosen, auth, status, child, code, at, trace>>

LeftWhenLate == auth /\ status # "completed"
Left == FALSE

Unlink ==
    /\ pc = "unlink" /\ auth' = Left
    /\ pc' = IF status \in {"completed", "timed_out"} THEN "returned" ELSE "raised"
    /\ UNCHANGED <<unwritten, chosen, server, status, child, code, at, trace, faults>>

(* The checks of a smoke case. *)
ExpectedRequests == IF Compiled THEN 2 ELSE 3
SuccessorRight == second = (kind \notin Stopping)
RequestsEnough == requests >= ExpectedRequests
RequestsRight == requests = ExpectedRequests
RowsRight == kind = "metering" => (pre = requests /\ post = requests)
CallsRight == Compiled => native = IF kind \in Stopping THEN 1 ELSE 2

Check ==
    /\ pc = "check"
    /\ pc' = IF code = 0 /\ message /\ SuccessorRight /\ RequestsRight /\ RowsRight /\ CallsRight
             THEN "returned" ELSE "raised"
    /\ UNCHANGED <<unwritten, chosen, server, auth, status, child, code, at, trace, faults>>

Child == Ask \/ Answer \/ Plan \/ Successor \/ Command \/ Message \/ Error \/ Dies
Runner == Setup \/ Trust \/ Grant \/ Spawn \/ Reaped \/ Timeout \/ LateReaped \/ Finally \/ Unlink
          \/ Check
Next == Child \/ Runner
Spec == Init /\ [][Next]_vars

(* The runner goes on and its timeouts expire; nothing is asked of the     *)
(* child.                                                                  *)
FairSpec == Spec /\ WF_vars(Runner)

-----------------------------------------------------------------------------
(* analyze(): every request left a row before and a row with usage after,  *)
(* and their sum is what the CLI reported for the finished turn.           *)
ReconcilesVacuously == turn = None \/ usage = turn
Reconciles == turn # None /\ usage = turn
CompleteUsageKnown == pre = post /\ post = usage /\ Reconciles

(* When the analysis calls a trial's usage complete, the sum it reports is *)
(* what the provider's answers carried: whatever rows were lost and        *)
(* wherever the child was killed (analyze_traces.py:73).                   *)
KnownUsageIsTrue ==
    Trial /\ child \in {"killed", "dead"} /\ CompleteUsageKnown => usage = told

(* What is kept of a run is well formed, and its known usage is true.      *)
SoundUsage == TypeOK /\ KnownUsageIsTrue

(* A smoke case that passes had a CLI without the defects the case is for: *)
(* the successor it overlooks a reason against, the feature exposed or     *)
(* hidden wrongly, a request too many (native_smoke.py:174).               *)
CaseCatchesDefects == ~Trial /\ pc = "returned" =>
    /\ defect # kind /\ defect # "extra_request"
    /\ defect = "never_on" => ~Compiled
    /\ defect = "always_on" => Compiled

(* However a run ends, the access grant and the child are gone, unless a   *)
(* write of status.json failed; the server of a passed case is closed      *)
(* (run_trials.py:149).                                                    *)
CleanedUp ==
    /\ pc \in Ended /\ ~unwritten => ~auth /\ child # "alive"
    /\ pc = "returned" => child = "dead" /\ ~server

(* Every run ends, whatever the child does (native_smoke.py:164).          *)
RunEnds == <>(pc \in Ended)
=============================================================================
