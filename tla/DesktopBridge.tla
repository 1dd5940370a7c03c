---------------------------- MODULE DesktopBridge ----------------------------
(***************************************************************************)
(* CodexDesktopBridge: the desktop starts a bridge per session; the bridge *)
(* starts an app server on a loopback WebSocket, records how to reach it,  *)
(* forwards the desktop's STDIN lines to it and, at the end, stops it and  *)
(* removes the record. codex-desktop reads the records of all bridges and  *)
(* attaches to the one live server that a desktop opened.                  *)
(*                                                                         *)
(* The input task of Serve is not awaited by its finally block, so the two *)
(* can work on the record's files at the same time. Process ids are used   *)
(* again once a process is gone.                                           *)
(***************************************************************************)
EXTENDS Integers, FiniteSets, Sequences

CONSTANTS
    Sessions,    (* desktop sessions, each with one bridge                   *)
    WithContext, (* those whose desktop handed down its browser context      *)
    Pids,        (* process ids                                              *)
    Lines,       (* what the desktop says on STDIN                           *)
    Instances,   (* the --instance values given to codex-desktop, or None    *)
    MaxFaults,   (* bound: killed bridges, servers that exit by themselves   *)
    None

Processes == {"bridge", "server"} \X Sessions

ASSUME BridgeAssumption ==
    /\ IsFiniteSet(Sessions) /\ WithContext \subseteq Sessions
    /\ Lines \in Seq({"initialize", "request"})
    /\ Instances \subseteq Pids \cup {None}
    /\ MaxFaults \in Nat
    /\ None \notin Pids \cup Sessions \cup Processes \cup [of : Sessions, named : BOOLEAN]
    /\ None \notin {"open", "whole", "unnamed", "named"}

VARIABLES
    occupant,  (* the process each process id belongs to now                 *)
    pidOf,     (* the process id each process has or had                     *)
    phase,     (* how far Serve is                                           *)
    input,     (* how far its input task is                                  *)
    said,      (* lines the desktop wrote                                    *)
    closed,    (* sessions whose desktop closed STDIN                        *)
    taken,     (* lines the input task read                                  *)
    received,  (* lines the server got                                       *)
    dir,       (* sessions whose instance directory exists                   *)
    tmp,       (* connection.json.tmp: None, "open" or "whole"               *)
    record,    (* connection.json: None, "unnamed" or "named"                *)
    cli,       (* how far codex-desktop is                                   *)
    wanted,    (* its --instance, or None                                    *)
    due, seen, (* instance directories it has yet to look at, has looked at   *)
    held,      (* the record it has just read                                *)
    found,     (* the connections it found                                   *)
    target     (* the session it attached to                                 *)

(* What happened so far; no action of the code reads these. *)
VARIABLES
    gone,      (* sessions not all alive when codex-desktop began            *)
    steady,    (* sessions it could have attached to then                    *)
    faults

server == <<occupant, pidOf>>
stdin == <<said, closed>>
task == <<input, taken, received>>
files == <<dir, tmp, record>>
client == <<cli, wanted, due, seen, held, found, target, gone, steady>>
vars == <<server, phase, stdin, task, files, client, faults>>

Alive(q) == pidOf[q] # None /\ occupant[pidOf[q]] = q
Bridge(s) == <<"bridge", s>>
Server(s) == <<"server", s>>
Live_ByPid(s) == \A kind \in {"bridge", "server"} :
    pidOf[<<kind, s>>] # None /\ occupant[pidOf[<<kind, s>>]] # None
        /\ occupant[pidOf[<<kind, s>>]][1] = kind

(* Both processes of a record: the ids are in use, by the programs started *)
(* when the record says.                                                   *)
Live(s) == Alive(Bridge(s)) /\ Alive(Server(s))

Phases == {"off", "starting", "writing", "moving", "serving", "stopping",
           "deleteRecord", "deleteTmp", "deleteDir", "ended", "killed"}
Inputs == {"off", "read", "record", "writing", "moving", "send", "eof", "faulted"}

TypeOK ==
    /\ occupant \in [Pids -> Processes \cup {None}]
    /\ pidOf \in [Processes -> Pids \cup {None}]
    /\ \A p \in Pids : occupant[p] # None => pidOf[occupant[p]] = p
    /\ closed \subseteq Sessions /\ dir \subseteq Sessions
    /\ phase \in [Sessions -> Phases]
    /\ input \in [Sessions -> Inputs]
    /\ \A s \in Sessions : 0 <= received[s] /\ received[s] <= taken[s]
                        /\ taken[s] <= said[s] /\ said[s] <= Len(Lines)
    /\ tmp \in [Sessions -> {None, "open", "whole"}]
    /\ record \in [Sessions -> {None, "unnamed", "named"}]
    /\ cli \in {"idle", "scanning", "attached", "refused"}
    /\ wanted \in Pids \cup {None}
    /\ due \subseteq Sessions /\ seen \subseteq Sessions /\ found \subseteq Sessions
    /\ held \in [of : Sessions, named : BOOLEAN] \cup {None}
    /\ target \in Sessions \cup {None}
    /\ gone \subseteq Sessions /\ steady \subseteq Sessions
    /\ faults \in 0..MaxFaults

Init ==
    /\ occupant = [p \in Pids |-> None]
    /\ pidOf = [q \in Processes |-> None]
    /\ phase = [s \in Sessions |-> "off"]
    /\ input = [s \in Sessions |-> "off"]
    /\ said = [s \in Sessions |-> 0]
    /\ closed = {}
    /\ taken = [s \in Sessions |-> 0]
    /\ received = [s \in Sessions |-> 0]
    /\ dir = {}
    /\ tmp = [s \in Sessions |-> None]
    /\ record = [s \in Sessions |-> None]
    /\ cli = "idle"
    /\ wanted = None
    /\ due = {} /\ seen = {} /\ found = {}
    /\ held = None /\ target = None
    /\ gone = {} /\ steady = {}
    /\ faults = 0
-----------------------------------------------------------------------------
(***************************************************************************)
(* Serve, up to the two tasks.                                             *)
(***************************************************************************)
To(s, p) == phase' = [phase EXCEPT ![s] = p]
Free == {p \in Pids : occupant[p] = None}

(* The desktop starts the bridge; it makes its directory and its server.   *)
Start(s) ==
    /\ phase[s] = "off"
    /\ \E p, q \in Free :
           /\ p # q
           /\ occupant' = [occupant EXCEPT ![p] = Bridge(s), ![q] = Server(s)]
           /\ pidOf' = [pidOf EXCEPT ![Bridge(s)] = p, ![Server(s)] = q]
    /\ dir' = dir \cup {s}
    /\ To(s, "starting")
    /\ UNCHANGED <<stdin, task, tmp, record, client, faults>>

(* The server exited, or gave no endpoint in 30 seconds, or refused the    *)
(* connection or took more than 10 seconds over it.                        *)
StartupFails(s) ==
    /\ phase[s] = "starting"
    /\ To(s, "stopping")
    /\ UNCHANGED <<server, stdin, task, files, client, faults>>

(* The server printed its endpoint and took the connection; WriteRecord    *)
(* opens the temporary file.                                               *)
Connects(s) ==
    /\ phase[s] = "starting"
    /\ Alive(Server(s))
    /\ tmp' = [tmp EXCEPT ![s] = "open"]
    /\ To(s, "writing")
    /\ UNCHANGED <<server, stdin, task, dir, record, client, faults>>

Written(s) ==
    /\ phase[s] = "writing"
    /\ tmp' = [tmp EXCEPT ![s] = "whole"]
    /\ To(s, "moving")
    /\ UNCHANGED <<server, stdin, task, dir, record, client, faults>>

Moved(s) ==
    /\ phase[s] = "moving"
    /\ tmp' = [tmp EXCEPT ![s] = None]
    /\ record' = [record EXCEPT ![s] = "unnamed"]
    /\ input' = [input EXCEPT ![s] = "read"]
    /\ To(s, "serving")
    /\ UNCHANGED <<server, stdin, taken, received, dir, client, faults>>
-----------------------------------------------------------------------------
(***************************************************************************)
(* The input task. It runs while the bridge process does, through the      *)
(* finally block; only its reads and sends see the cancellation.           *)
(***************************************************************************)
Running(s) == Alive(Bridge(s)) /\ phase[s] # "off"
Step(s, i) == input' = [input EXCEPT ![s] = i]

(* The line of the desktop's initialize goes on after its name is recorded. *)
InputReads(s) ==
    /\ input[s] = "read"
    /\ phase[s] = "serving"
    /\ taken[s] < said[s]
    /\ taken' = [taken EXCEPT ![s] = @ + 1]
    /\ Step(s, IF Lines[taken'[s]] = "initialize" /\ record[s] = "unnamed" THEN "record" ELSE "send")
    /\ UNCHANGED <<server, phase, stdin, received, files, client, faults>>

InputEof(s) ==
    /\ input[s] = "read"
    /\ phase[s] = "serving"
    /\ taken[s] = said[s] /\ s \in closed
    /\ Step(s, "eof")
    /\ UNCHANGED <<server, phase, stdin, taken, received, files, client, faults>>

(* WriteRecord: without the directory the file cannot be opened. *)
InputOpens(s) ==
    /\ Running(s)
    /\ input[s] = "record"
    /\ IF s \in dir THEN tmp' = [tmp EXCEPT ![s] = "open"] /\ Step(s, "writing")
       ELSE UNCHANGED tmp /\ Step(s, "faulted")
    /\ UNCHANGED <<server, phase, stdin, taken, received, dir, record, client, faults>>

InputWrites(s) ==
    /\ Running(s)
    /\ input[s] = "writing"
    /\ tmp' = [tmp EXCEPT ![s] = "whole"]
    /\ Step(s, "moving")
    /\ UNCHANGED <<server, phase, stdin, taken, received, dir, record, client, faults>>

(* WriteRecord: a temporary file that was deleted cannot be moved. *)
InputMoves(s) ==
    /\ Running(s)
    /\ input[s] = "moving"
    /\ IF tmp[s] = None THEN UNCHANGED <<tmp, record>> /\ Step(s, "faulted")
       ELSE /\ tmp' = [tmp EXCEPT ![s] = None]
            /\ record' = [record EXCEPT ![s] = "named"]
            /\ Step(s, "send")
    /\ UNCHANGED <<server, phase, stdin, taken, received, dir, client, faults>>

InputSends(s) ==
    /\ input[s] = "send"
    /\ phase[s] = "serving" /\ Alive(Server(s))
    /\ received' = [received EXCEPT ![s] = @ + 1]
    /\ Step(s, "read")
    /\ UNCHANGED <<server, phase, stdin, taken, files, client, faults>>

(* A read that is cancelled, a send to a server that is gone. *)
InputFaults(s) ==
    /\ Running(s)
    /\ \/ input[s] = "read" /\ phase[s] # "serving"
       \/ input[s] = "send" /\ (phase[s] # "serving" \/ ~Alive(Server(s)))
    /\ Step(s, "faulted")
    /\ UNCHANGED <<server, phase, stdin, taken, received, files, client, faults>>
-----------------------------------------------------------------------------
(***************************************************************************)
(* WhenAny(input, output, exited), and the finally block.                  *)
(***************************************************************************)
Completed_OnlyWithServer(s) ==
    /\ phase[s] = "serving"
    /\ ~Alive(Server(s))
    /\ To(s, "stopping")
    /\ UNCHANGED <<server, stdin, task, files, client, faults>>

Completed(s) ==
    /\ phase[s] = "serving"
    /\ input[s] \in {"eof", "faulted"} \/ ~Alive(Server(s))
    /\ To(s, "stopping")
    /\ UNCHANGED <<server, stdin, task, files, client, faults>>

Exits(q) == occupant' = [p \in Pids |-> IF occupant[p] = q THEN None ELSE occupant[p]]

StopServer_Leaves(s) ==
    /\ phase[s] = "stopping"
    /\ To(s, "deleteRecord")
    /\ UNCHANGED <<server, stdin, task, files, client, faults>>

(* Cancel, abort, kill the child if it still runs, and wait for its exit.  *)
StopServer(s) ==
    /\ phase[s] = "stopping"
    /\ Exits(Server(s))
    /\ To(s, "deleteRecord")
    /\ UNCHANGED <<pidOf, stdin, task, files, client, faults>>

DeleteRecord(s) ==
    /\ phase[s] = "deleteRecord"
    /\ record' = [record EXCEPT ![s] = None]
    /\ To(s, "deleteTmp")
    /\ UNCHANGED <<server, stdin, task, dir, tmp, client, faults>>

(* Main returns and the process ends, the input task with it. *)
End(s) == To(s, "ended") /\ Exits(Bridge(s)) /\ UNCHANGED pidOf

DeleteTmp(s) ==
    /\ phase[s] = "deleteTmp"
    /\ tmp[s] # "open"
    /\ tmp' = [tmp EXCEPT ![s] = None]
    /\ To(s, "deleteDir")
    /\ UNCHANGED <<server, stdin, task, dir, record, client, faults>>

(* The input task has the file open: File.Delete throws. *)
DeleteTmpFails(s) ==
    /\ phase[s] = "deleteTmp"
    /\ tmp[s] = "open"
    /\ End(s)
    /\ UNCHANGED <<stdin, task, files, client, faults>>

(* Nonrecursive: throws when the input task made a file meanwhile. *)
DeleteDir(s) ==
    /\ phase[s] = "deleteDir"
    /\ dir' = IF tmp[s] = None /\ record[s] = None THEN dir \ {s} ELSE dir
    /\ End(s)
    /\ UNCHANGED <<stdin, task, tmp, record, client, faults>>
-----------------------------------------------------------------------------
(***************************************************************************)
(* ConnectCli: look at one instance directory after another.               *)
(***************************************************************************)
Attachable(s) == record[s] = "named" /\ s \in WithContext /\ Live(s)

CliBegins ==
    /\ cli = "idle"
    /\ cli' = "scanning"
    /\ wanted' \in Instances
    /\ due' = dir
    /\ gone' = {s \in Sessions : phase[s] # "off" /\ ~(Alive(Bridge(s)) /\ Alive(Server(s)))}
    /\ steady' = {s \in Sessions : Attachable(s)}
    /\ UNCHANGED <<server, phase, stdin, task, files, seen, held, found, target, faults>>

(* A directory made since may be enumerated too; without a record it is    *)
(* passed over.                                                            *)
CliReads(s) ==
    /\ cli = "scanning" /\ held = None
    /\ s \in (due \cup dir) \ seen
    /\ seen' = seen \cup {s}
    /\ due' = due \ {s}
    /\ held' = IF record[s] = None THEN None ELSE [of |-> s, named |-> record[s] = "named"]
    /\ UNCHANGED <<server, phase, stdin, task, files, cli, wanted, found, target,
                   gone, steady, faults>>

(* The filter of ConnectCli: context, a client's name, the wanted instance. *)
Eligible(s, named) == named /\ s \in WithContext /\ (wanted = None \/ pidOf[Bridge(s)] = wanted)

CliChecks ==
    /\ cli = "scanning" /\ held # None
    /\ found' = IF Live(held.of) /\ Eligible(held.of, held.named) THEN found \cup {held.of} ELSE found
    /\ held' = None
    /\ UNCHANGED <<server, phase, stdin, task, files, cli, wanted, due, seen, target,
                   gone, steady, faults>>

Unambiguous_TakesFirst == found # {}

Unambiguous == Cardinality(found) = 1

CliDecides ==
    /\ cli = "scanning" /\ held = None
    /\ due = {}
    /\ IF Unambiguous THEN cli' = "attached" /\ target' \in found
       ELSE cli' = "refused" /\ UNCHANGED target
    /\ wanted' = None
    /\ due' = {} /\ seen' = {} /\ found' = {} /\ gone' = {} /\ steady' = {}
    /\ UNCHANGED <<server, phase, stdin, task, files, held, faults>>
-----------------------------------------------------------------------------
(* The desktop writes its lines, or closes STDIN, while somebody may read. *)
Says(s) ==
    /\ Running(s) /\ s \notin closed
    /\ said[s] < Len(Lines)
    /\ said' = [said EXCEPT ![s] = @ + 1]
    /\ UNCHANGED <<server, phase, closed, task, files, client, faults>>

Closes(s) ==
    /\ Running(s) /\ s \notin closed
    /\ closed' = closed \cup {s}
    /\ UNCHANGED <<server, phase, said, task, files, client, faults>>

ServerExits(s) ==
    /\ Alive(Server(s))
    /\ faults < MaxFaults
    /\ faults' = faults + 1
    /\ Exits(Server(s))
    /\ UNCHANGED <<pidOf, phase, stdin, task, files, client>>

(* Forced termination; the server is another process and goes on. *)
Killed(s) ==
    /\ Running(s)
    /\ faults < MaxFaults
    /\ faults' = faults + 1
    /\ Exits(Bridge(s))
    /\ To(s, "killed")
    /\ UNCHANGED <<pidOf, stdin, task, files, client>>

Serve(s) ==
    \/ StartupFails(s) \/ Connects(s) \/ Written(s) \/ Moved(s)
    \/ Completed(s) \/ StopServer(s) \/ DeleteRecord(s) \/ DeleteTmp(s) \/ DeleteTmpFails(s) \/ DeleteDir(s)

InputTask(s) ==
    \/ InputReads(s) \/ InputEof(s) \/ InputOpens(s) \/ InputWrites(s) \/ InputMoves(s)
    \/ InputSends(s) \/ InputFaults(s)

Next ==
    \/ \E s \in Sessions :
           \/ Start(s) \/ Serve(s) \/ InputTask(s) \/ CliReads(s)
           \/ Says(s) \/ Closes(s) \/ ServerExits(s) \/ Killed(s)
    \/ CliBegins \/ CliChecks \/ CliDecides

Spec == Init /\ [][Next]_vars

(* The two tasks of a bridge run as long as they can; nothing is assumed   *)
(* of the desktop, and of the server only that it takes what it is sent.   *)
FairSpec == Spec /\ \A s \in Sessions : WF_vars(Serve(s)) /\ WF_vars(InputTask(s))
-----------------------------------------------------------------------------
(***************************************************************************)
(* Properties.                                                             *)
(***************************************************************************)

(* The client's name is among the first n lines. *)
Initializes(n) == \E i \in 1..n : Lines[i] = "initialize"

(* codex-desktop attaches only to a server a desktop has initialized with  *)
(* its browser context, and never to what a record left behind names: the  *)
(* bridge and the server were both running after it began to look, even if *)
(* their process ids are in use again.                                     *)
Attaches == cli = "scanning" /\ cli' = "attached"
AttachesToLive ==
    [][Attaches => target' \in WithContext \ gone /\ Initializes(said[target'])]_vars

(* Without --instance it attaches only when there was no choice: no other  *)
(* session was attachable from the beginning of the search on.             *)
AttachIsUnambiguous ==
    [][Attaches /\ wanted = None =>
        \A s \in steady : Attachable(s) => s = target']_vars

(* When the server has been initialized, terminals can find the session by *)
(* its client's name: the record is complete before the line goes on.      *)
InitializedIsNamed ==
    \A s \in Sessions : phase[s] = "serving" /\ Initializes(received[s]) => record[s] = "named"

(* A bridge that ended by itself, however it failed, left no server behind. *)
NoServerOutlivesItsBridge ==
    \A s \in Sessions : phase[s] = "ended" => ~Alive(Server(s))

(* A bridge that read the end of STDIN removed the capability and its      *)
(* directory, whatever the server did meanwhile.                           *)
EofRemovesToken ==
    \A s \in Sessions : phase[s] = "ended" /\ input[s] = "eof" => s \notin dir /\ record[s] = None

(* What a bridge owes its terminals while it serves and everybody when it  *)
(* ends; a line reaches the server only after it was read.                 *)
SoundBridge == TypeOK /\ InitializedIsNamed /\ NoServerOutlivesItsBridge /\ EofRemovesToken

(* After the desktop closed STDIN, the bridge ends (or was killed).        *)
ClosingEnds ==
    \A s \in Sessions : s \in closed ~> phase[s] \in {"ended", "killed"}
=============================================================================
