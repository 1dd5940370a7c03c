---------------------------- MODULE ReleaseProbe ----------------------------
(***************************************************************************)
(* The runtime checks a packaged Windows CLI passes before it is released: *)
(* test-windows-cli-runtime.py and then, for the daemon-free build, the    *)
(* interactive fixture of test-no-daemon-runtime.py.  Both run the CLI in  *)
(* disposable homes; what they start they must stop, and their reports are *)
(* the evidence a release carries.  The CLI may have daemon commands that  *)
(* are not disabled, start a daemon by default, let an administrator start *)
(* one, hang, talk without end, or not exit; files may stay locked; the    *)
(* fixture may be interrupted.                                             *)
(*                                                                         *)
(* Its specification is called Checks, so that ReleaseProofs can extend    *)
(* both this module and ReleasePublisher.                                  *)
(***************************************************************************)
EXTENDS Integers, FiniteSets

CONSTANTS
    Commands,  (* the daemon commands, among them the managed worker       *)
    Starters,  (* those that start a daemon when they are not disabled     *)
    NoReport

ASSUME ProbeAssumption == Starters \subseteq Commands /\ Commands # {} /\ NoReport \notin BOOLEAN

VARIABLES
    mode,      (* --require-no-daemon, --require-daemon-lifecycle, neither *)
    elevated,  (* what the process token says                              *)
    enabled,   (* the daemon commands this build does not disable          *)
    defects,   (* "leaves_state": a refused command makes the state        *)
               (* directory; "auto_start": the default launch starts a     *)
               (* daemon; "unguarded": administrators can start one        *)
    pc,
    tries,     (* daemon commands not tried yet                            *)
    daemon,    (* the daemon of the disposable home at hand                *)
    report,    (* runtime-checks.json is there                             *)
    smoke,     (* no-daemon-checks.json: none, or its "ok"                 *)
    failure,   (* something failed and will be raised                      *)
    root,      (* the fixture's directory                                  *)
    terminal,  (* the interactive CLI                                      *)
    server,    (* the fixture's Responses server                           *)
    answered,  (* what the CLI showed: nothing, other output, the answer   *)
    due,       (* the deadline of the present wait is over                 *)
    stuck      (* history: a daemon stop failed                            *)

build == <<mode, elevated, enabled, defects>>
fixture == <<smoke, root, terminal, server, answered>>
checks == <<build, pc, tries, daemon, report, failure, fixture, due, stuck>>

Modes == {"no_daemon", "lifecycle", "either"}
AllDefects == {"leaves_state", "auto_start", "unguarded"}
Phases == {"token", "package", "disabled", "clean", "stopfirst", "start", "check", "stop", "report",
           "fixture", "refused", "untouched", "launch", "watch", "verify", "exit", "interrupt",
           "kill", "shut", "remove", "write", "passed", "failed"}

ChecksTypeOK ==
    /\ mode \in Modes /\ elevated \in BOOLEAN /\ enabled \subseteq Commands
    /\ defects \subseteq AllDefects /\ pc \in Phases /\ tries \subseteq Commands
    /\ daemon \in {"none", "state", "running"} /\ smoke \in {NoReport} \cup BOOLEAN
    /\ root \in {"none", "present", "removed"} /\ terminal \in {"none", "alive", "gone"}
    /\ answered \in {"nothing", "output", "answer"}
    /\ report \in BOOLEAN /\ failure \in BOOLEAN /\ server \in BOOLEAN
    /\ due \in BOOLEAN /\ stuck \in BOOLEAN

ChecksInit ==
    /\ mode \in Modes /\ elevated \in BOOLEAN /\ defects \in SUBSET AllDefects
    /\ enabled \in SUBSET Commands /\ (mode # "no_daemon" => enabled = Commands)
    /\ pc = "token" /\ tries = Commands /\ daemon = "none" /\ report = FALSE /\ smoke = NoReport
    /\ failure = FALSE /\ root = "none" /\ terminal = "none" /\ server = FALSE
    /\ answered = "nothing" /\ due = FALSE /\ stuck = FALSE

Go(phase) == pc' = phase /\ due' = FALSE
Fails == Go("failed")

-----------------------------------------------------------------------------
(* test-windows-cli-runtime.py: the token, then the package, its commands  *)
(* and the RPC session (RpcSession), then the daemon.                      *)
Token ==
    /\ pc = "token"
    /\ IF mode = "lifecycle" /\ elevated THEN Fails ELSE pc' \in {"package", "failed"} /\ due' = due
    /\ UNCHANGED <<build, tries, daemon, report, failure, fixture, stuck>>

Package ==
    /\ pc = "package"
    /\ \/ Go(IF mode = "no_daemon" THEN "disabled" ELSE "stopfirst")
       \/ Fails
    /\ UNCHANGED <<build, tries, daemon, report, failure, fixture, stuck>>

(* check_disabled_commands(), here and in the fixture: every command must  *)
(* be refused, and none may have left the daemon's state directory.        *)
Tries(phase, next, raise) ==
    /\ pc = phase
    /\ \/ /\ tries = {} /\ Go(next) /\ tries' = Commands /\ UNCHANGED <<daemon, failure>>
       \/ \E c \in tries :
            IF c \in enabled
            THEN /\ daemon' = (IF c \in Starters THEN "running" ELSE daemon)
                 /\ Go(raise) /\ failure' = TRUE /\ tries' = tries
            ELSE /\ tries' = tries \ {c} /\ UNCHANGED <<pc, due, failure>>
                 /\ daemon' = (IF "leaves_state" \in defects THEN "state" ELSE daemon)
    /\ UNCHANGED <<build, report, fixture, stuck>>

NoneRuns == daemon # "running"
NoState == daemon = "none"
Untouched(phase, next, raise) ==
    /\ pc = phase
    /\ IF NoState THEN Go(next) /\ failure' = failure ELSE Go(raise) /\ failure' = TRUE
    /\ UNCHANGED <<build, tries, daemon, report, fixture, stuck>>

(* check_isolated_daemon(): the first stop makes the state directory; the  *)
(* daemon is started, or refused to an administrator; the finally block    *)
(* stops it whatever happened.                                             *)
StopFirst ==
    /\ pc = "stopfirst"
    /\ \/ Go("start") /\ daemon' = "state"
       \/ Fails /\ daemon' = daemon
    /\ UNCHANGED <<build, tries, report, failure, fixture, stuck>>

RaisesUnstopped == failure' = TRUE /\ Fails
Raises == failure' = TRUE /\ Go("stop")

StartDaemon ==
    /\ pc = "start"
    /\ \/ ~elevated /\ Go("check") /\ daemon' = "running" /\ failure' = failure
       \/ elevated /\ "unguarded" \notin defects /\ Go("stop") /\ UNCHANGED <<daemon, failure>>
       \/ elevated /\ "unguarded" \in defects /\ daemon' = "running" /\ Raises
       \/ daemon' \in {"state", "running"} /\ Raises
    /\ UNCHANGED <<build, tries, report, fixture, stuck>>

CheckDaemon ==
    /\ pc = "check" /\ Go("stop") /\ failure' \in BOOLEAN
    /\ UNCHANGED <<build, tries, daemon, report, fixture, stuck>>

StopDaemon ==
    /\ pc = "stop"
    /\ \/ /\ daemon' = "state" /\ stuck' = stuck
          /\ IF failure \/ (elevated /\ daemon = "running") THEN Fails ELSE Go("report")
       \/ UNCHANGED daemon /\ stuck' = TRUE /\ Fails
    /\ UNCHANGED <<build, tries, report, failure, fixture>>

(* The report; the disposable home is gone with it, and the release goes   *)
(* on to the fixture.                                                      *)
Report ==
    /\ pc = "report" /\ report' = TRUE
    /\ Go(IF mode = "no_daemon" THEN "fixture" ELSE "passed") /\ daemon' = "none"
    /\ UNCHANGED <<build, tries, failure, fixture, stuck>>

-----------------------------------------------------------------------------
(* test-no-daemon-runtime.py: a new directory and server, the commands     *)
(* again, then the plain interactive CLI until it shows the answer.        *)
MakeFixture ==
    /\ pc = "fixture" /\ root' = "present" /\ server' = TRUE /\ tries' = Commands
    /\ Go("refused")
    /\ UNCHANGED <<build, daemon, report, failure, smoke, terminal, answered, stuck>>

Launch ==
    /\ pc = "launch" /\ terminal' = "alive" /\ Go("watch")
    /\ daemon' = IF "auto_start" \in defects THEN "running" ELSE daemon
    /\ UNCHANGED <<build, tries, report, failure, smoke, root, server, answered, stuck>>

(* The CLI shows something, for as long as it likes, or exits. *)
Shows ==
    /\ pc = "watch" /\ terminal = "alive" /\ answered = "nothing"
    /\ answered' \in {"output", "answer"}
    /\ UNCHANGED <<build, pc, tries, daemon, report, failure, smoke, root, terminal, server, due, stuck>>

Leaves ==
    /\ terminal = "alive" /\ terminal' = "gone"
    /\ UNCHANGED <<build, pc, tries, daemon, report, failure, smoke, root, server, answered, due, stuck>>

OutOfTimeInSilence == due /\ answered = "nothing"
OutOfTime == due

Reads ==
    /\ pc = "watch" /\ answered # "nothing"
    /\ answered' = "nothing"
    /\ IF OutOfTime THEN Go("exit") /\ failure' = TRUE
       ELSE IF answered = "answer" THEN Go("verify") /\ failure' = failure
       ELSE UNCHANGED <<pc, due, failure>>
    /\ UNCHANGED <<build, tries, daemon, report, smoke, root, terminal, server, stuck>>

Silent ==
    /\ pc = "watch" /\ answered = "nothing" /\ (due \/ terminal = "gone")
    /\ Go("exit") /\ failure' = TRUE
    /\ UNCHANGED <<build, tries, daemon, report, fixture, stuck>>

(* close(): /exit, two interrupts, then the process handle, each with its  *)
(* deadline; a process that survives that is an error too.  The server is  *)
(* shut down in any case.                                                  *)
Escalates(phase, next) ==
    /\ pc = phase /\ Go(IF terminal = "alive" THEN next ELSE "shut") /\ (terminal = "alive" => due)
    /\ UNCHANGED <<build, tries, daemon, report, failure, fixture, stuck>>

Kills ==
    /\ pc = "kill" /\ Go("shut")
    /\ \/ terminal # "none" /\ terminal' = "gone" /\ failure' = failure
       \/ terminal = "alive" /\ terminal' = terminal /\ failure' = TRUE
    /\ UNCHANGED <<build, tries, daemon, report, smoke, root, server, answered, stuck>>

Shut ==
    /\ pc = "shut" /\ server' = FALSE /\ Go("remove")
    /\ UNCHANGED <<build, tries, daemon, report, failure, smoke, root, terminal, answered, stuck>>

(* remove_fixture(): locked files are tried again until the deadline; a    *)
(* running process keeps the directory.  Then the report is written,       *)
(* unless an interrupt ends the cleanup itself.                            *)
InUse == daemon = "running" \/ terminal = "alive"

Remove ==
    /\ pc = "remove"
    /\ \/ ~InUse /\ root' = "removed" /\ Go("write") /\ failure' = failure
       \/ due /\ root' = root /\ Go("write") /\ failure' = TRUE
       \/ root' = root /\ failure' = TRUE /\ pc' \in {"write", "failed"} /\ due' = FALSE
    /\ UNCHANGED <<build, tries, daemon, report, smoke, terminal, server, answered, stuck>>

Write ==
    /\ pc = "write" /\ smoke' = ~failure /\ Go(IF failure THEN "failed" ELSE "passed")
    /\ UNCHANGED <<build, tries, daemon, report, failure, root, terminal, server, answered, stuck>>

(* The clock; only the waits that look at it. *)
Tick ==
    /\ pc \in {"watch", "exit", "interrupt", "kill", "remove"} /\ ~due /\ due' = TRUE
    /\ UNCHANGED <<build, pc, tries, daemon, report, failure, fixture, stuck>>

Disabled ==
    \/ Tries("disabled", "clean", "failed") \/ Untouched("clean", "report", "failed")
    \/ Tries("refused", "untouched", "exit") \/ Untouched("untouched", "launch", "exit")
Probe == Token \/ Package \/ Disabled \/ StopFirst \/ StartDaemon \/ CheckDaemon \/ StopDaemon \/ Report
Fixture ==
    \/ MakeFixture \/ Launch \/ Reads \/ Silent \/ Untouched("verify", "exit", "exit")
    \/ Escalates("exit", "interrupt") \/ Escalates("interrupt", "kill") \/ Kills
    \/ Shut \/ Remove \/ Write
ChecksNext == Probe \/ Fixture \/ Shows \/ Leaves \/ Tick

Checks == ChecksInit /\ [][ChecksNext]_checks

(* The checks go on and their clock runs; nothing is asked of the CLI.     *)
FairChecks == Checks /\ WF_checks(Probe) /\ WF_checks(Fixture) /\ WF_checks(Tick)

-----------------------------------------------------------------------------
(* A release whose checks passed, in the daemon-free mode, has no daemon   *)
(* command and starts no daemon by default, and the checks left neither a  *)
(* process nor a directory (test-no-daemon-runtime.py:264).                *)
ReportsMeanDaemonFree == mode = "no_daemon" /\ smoke = TRUE =>
    /\ report /\ enabled = {} /\ defects \subseteq {"unguarded"}
    /\ root = "removed" /\ ~server /\ terminal = "gone" /\ daemon = "none"

(* The reports are sound and everything the checks keep is well formed.    *)
SoundReports == ChecksTypeOK /\ ReportsMeanDaemonFree

(* The daemon checks leave no daemon running, whichever of them failed,    *)
(* unless stopping it failed (test-windows-cli-runtime.py:163).            *)
DaemonIsStopped ==
    mode # "no_daemon" /\ pc \in {"passed", "failed"} /\ daemon = "running" => stuck

(* Checks of a CLI that hangs, talks without end or does not exit end too  *)
(* (test-no-daemon-runtime.py:190).                                        *)
ChecksEnd == <>(pc \in {"passed", "failed"})
=============================================================================
