------------------------- MODULE DesktopBridgeProofs -------------------------
(***************************************************************************)
(* Proofs about the desktop bridge and codex-desktop, for any sessions,    *)
(* process ids, lines and faults.                                          *)
(***************************************************************************)
EXTENDS DesktopBridge, FiniteSetTheorems, TLAPS

(* TypeOK in three parts: the processes, a bridge with its files and       *)
(* lines, codex-desktop.                                                   *)
ProcessType ==
    /\ occupant \in [Pids -> Processes \cup {None}]
    /\ pidOf \in [Processes -> Pids \cup {None}]
    /\ \A p \in Pids : occupant[p] # None => pidOf[occupant[p]] = p
BridgeType ==
    /\ closed \subseteq Sessions /\ dir \subseteq Sessions
    /\ phase \in [Sessions -> Phases]
    /\ input \in [Sessions -> Inputs]
    /\ tmp \in [Sessions -> {None, "open", "whole"}]
    /\ record \in [Sessions -> {None, "unnamed", "named"}]
    /\ faults \in 0..MaxFaults
LineType ==
    /\ said \in [Sessions -> 0..Len(Lines)]
    /\ taken \in [Sessions -> 0..Len(Lines)]
    /\ received \in [Sessions -> 0..Len(Lines)]
SearchType ==
    /\ cli \in {"idle", "scanning", "attached", "refused"}
    /\ wanted \in Pids \cup {None}
    /\ due \subseteq Sessions /\ seen \subseteq Sessions /\ found \subseteq Sessions
    /\ held \in [of : Sessions, named : BOOLEAN] \cup {None}
    /\ target \in Sessions \cup {None}
    /\ gone \subseteq Sessions /\ steady \subseteq Sessions

(* The processes that run, and the sessions all of whose processes do.     *)
Living == {q \in Processes : Alive(q)}
Lives == {s \in Sessions : Bridge(s) \in Living /\ Server(s) \in Living}

(* A session has its processes from its start on; StopServer ends the      *)
(* server, and nothing revives it.                                         *)
ProcessInv == \A s \in Sessions :
    /\ phase[s] = "off" <=> pidOf[Bridge(s)] = None
    /\ phase[s] = "off" <=> pidOf[Server(s)] = None
    /\ phase[s] \in {"deleteRecord", "deleteTmp", "deleteDir", "ended"} => Server(s) \notin Living

(* The input task makes files only between its read and its send: where it *)
(* saw the end of STDIN, the finally block has the files to itself.        *)
FileInv == \A s \in Sessions :
    /\ phase[s] \in {"off", "starting", "writing", "moving"} => input[s] = "off" /\ record[s] = None
    /\ phase[s] \in {"off", "starting"} => tmp[s] = None
    /\ phase[s] \notin {"off", "ended", "killed"} => s \in dir
    /\ tmp[s] # None \/ record[s] # None => s \in dir
    /\ input[s] \in {"read", "record", "send", "eof"} => tmp[s] = None
    /\ input[s] = "writing" => tmp[s] = "open"
    /\ phase[s] = "serving" => record[s] # None
    /\ input[s] = "eof" /\ phase[s] \in {"deleteTmp", "deleteDir", "ended"} => record[s] = None
    /\ input[s] = "eof" /\ phase[s] = "ended" => s \notin dir

(* At most one line was read and not yet sent. While it is the desktop's   *)
(* initialize, the record gets its name before the line goes on.           *)
LineInv == \A s \in Sessions :
    /\ received[s] <= taken[s] /\ taken[s] <= said[s]
    /\ input[s] = "off" => taken[s] = 0
    /\ input[s] \in {"read", "eof"} => taken[s] = received[s]
    /\ input[s] \in {"record", "writing", "moving", "send"} => taken[s] = received[s] + 1
    /\ input[s] \in {"record", "writing", "moving"} => Lines[taken[s]] = "initialize"
    /\ phase[s] = "serving" /\ input[s] = "send" /\ Lines[taken[s]] = "initialize" => record[s] = "named"
    /\ phase[s] = "serving" /\ (\E i \in 1..received[s] : Lines[i] = "initialize") => record[s] = "named"
    /\ record[s] = "named" => \E i \in 1..said[s] : Lines[i] = "initialize"

(* What codex-desktop has found was alive after it began to look and had a *)
(* client's name; a session that was attachable from the beginning on is   *)
(* still to be looked at, being looked at, or found.                       *)
SearchInv ==
    /\ held # None => cli = "scanning"
    /\ cli # "scanning" => found = {} /\ gone = {} /\ steady = {}
    /\ \A s \in gone : phase[s] # "off" /\ s \notin Lives
    /\ held # None /\ held.named => \E i \in 1..said[held.of] : Lines[i] = "initialize"
    /\ \A s \in found : s \in WithContext \ gone /\ \E i \in 1..said[s] : Lines[i] = "initialize"
    /\ \A s \in steady : phase[s] # "off" /\ s \in WithContext
    /\ \A s \in steady \cap Lives :
           /\ record[s] = "named"
           /\ wanted = None => s \in due \/ s \in found \/ held = [of |-> s, named |-> TRUE]

BridgeInv ==
    /\ ProcessType /\ BridgeType /\ LineType /\ SearchType
    /\ ProcessInv /\ FileInv /\ LineInv /\ SearchInv
-----------------------------------------------------------------------------
LEMMA Constants ==
    /\ None \notin Pids /\ None \notin Sessions /\ None \notin Processes
    /\ None \notin [of : Sessions, named : BOOLEAN]
    /\ None \notin {"open", "whole", "unnamed", "named"}
    /\ MaxFaults \in Nat /\ Len(Lines) \in Nat /\ WithContext \subseteq Sessions
    /\ Instances \subseteq Pids \cup {None} /\ IsFiniteSet(Sessions)
  BY BridgeAssumption

LEMMA TwoProcesses ==
    ASSUME NEW s \in Sessions
    PROVE  /\ Bridge(s) \in Processes /\ Server(s) \in Processes
           /\ \A t \in Sessions :
                  /\ Bridge(s) # Server(t)
                  /\ (Bridge(s) = Bridge(t) => s = t) /\ (Server(s) = Server(t) => s = t)
  BY DEF Bridge, Server, Processes

LEMMA BridgeInit == Init => BridgeInv
<1> SUFFICES ASSUME Init PROVE BridgeInv
  OBVIOUS
<1> USE DEF Init
<1>1. ProcessType
  BY Constants DEF ProcessType
<1>2. BridgeType
  BY Constants DEF BridgeType, Phases, Inputs
<1>3. LineType
  BY Constants DEF LineType
<1>4. SearchType
  BY Constants DEF SearchType
<1>5. ProcessInv
  BY TwoProcesses DEF ProcessInv
<1>6. FileInv
  BY Constants DEF FileInv
<1>7. LineInv
  BY Constants DEF LineInv
<1>8. SearchInv
  BY Constants DEF SearchInv
<1>9. QED
  BY <1>1, <1>2, <1>3, <1>4, <1>5, <1>6, <1>7, <1>8 DEF BridgeInv
-----------------------------------------------------------------------------
(* A process that exits is gone for good, and takes nobody with it.        *)
LEMMA ExitStep ==
    ASSUME ProcessType, NEW q \in Processes, Exits(q), UNCHANGED pidOf
    PROVE  ProcessType' /\ q \notin Living' /\ Living' \subseteq Living
<1> USE Constants DEF ProcessType, Exits
<1>1. ProcessType'
  OBVIOUS
<1>2. q \notin Living'
  BY DEF Living, Alive
<1>3. ASSUME NEW r \in Processes, Alive(r)' PROVE Alive(r)
  BY <1>3 DEF Alive
<1>4. QED
  BY <1>1, <1>2, <1>3 DEF Living

(* A start gives free ids to the two processes of its session.             *)
LEMMA StartStep ==
    ASSUME ProcessType, ProcessInv, NEW s \in Sessions, Start(s)
    PROVE  /\ ProcessType'
           /\ Living' \subseteq Living \cup {Bridge(s), Server(s)}
           /\ \A r \in Processes : r \notin {Bridge(s), Server(s)} => pidOf'[r] = pidOf[r]
           /\ pidOf'[Bridge(s)] # None /\ pidOf'[Server(s)] # None
<1>1. PICK p \in Free, q \in Free :
          /\ p # q
          /\ occupant' = [occupant EXCEPT ![p] = Bridge(s), ![q] = Server(s)]
          /\ pidOf' = [pidOf EXCEPT ![Bridge(s)] = p, ![Server(s)] = q]
  BY DEF Start
<1>2. p \in Pids /\ q \in Pids /\ occupant[p] = None /\ occupant[q] = None
  BY DEF Free
<1>3. pidOf[Bridge(s)] = None /\ pidOf[Server(s)] = None
  BY DEF ProcessInv, Start
<1>4. ProcessType'
  BY <1>1, <1>2, <1>3, Constants, TwoProcesses DEF ProcessType
<1>5. ASSUME NEW r \in Processes, r \notin {Bridge(s), Server(s)}, Alive(r)' PROVE Alive(r)
  BY <1>1, <1>2, <1>3, <1>5, Constants, TwoProcesses DEF ProcessType, Alive
<1>6. QED
  BY <1>1, <1>2, <1>4, <1>5, Constants, TwoProcesses DEF ProcessType, Living

(* Where no process starts or exits, those that live are the same. *)
LEMMA Unmoved == UNCHANGED server => Living' = Living
  BY DEF server, Living, Alive

(* What a step may do to the processes. *)
ProcessesKept == Living' \subseteq Living \cup {q \in Processes : pidOf[q] = None}

(* Only a start brings processes to life, and only those of its session. *)
LEMMA ProcessStep == BridgeInv /\ [Next]_vars => ProcessType' /\ ProcessInv' /\ ProcessesKept
<1> SUFFICES ASSUME BridgeInv, [Next]_vars PROVE ProcessType' /\ ProcessInv' /\ ProcessesKept
  OBVIOUS
<1>0. ProcessType /\ ProcessInv /\ BridgeType
  BY DEF BridgeInv
<1>1. ASSUME NEW s \in Sessions, Start(s) PROVE ProcessType' /\ ProcessInv' /\ ProcessesKept
  <2>1. ProcessType'
    BY <1>0, <1>1, StartStep
  <2>2. ASSUME NEW t \in Sessions, t # s
               PROVE  Bridge(t) \notin {Bridge(s), Server(s)} /\ Server(t) \notin {Bridge(s), Server(s)}
    BY <2>2 DEF Bridge, Server
  <2>3. phase[s] = "off" /\ phase' = [phase EXCEPT ![s] = "starting"]
    BY <1>1 DEF Start, To
  <2>4. ProcessInv'
    BY <1>0, <1>1, <2>2, <2>3, StartStep, TwoProcesses DEF ProcessInv, BridgeType
  <2>5. ProcessesKept
    BY <1>0, <1>1, <2>3, StartStep, TwoProcesses DEF ProcessInv, ProcessesKept
  <2>6. QED
    BY <2>1, <2>4, <2>5
<1>2. ASSUME NEW s \in Sessions, StartupFails(s) PROVE ProcessType' /\ ProcessInv' /\ ProcessesKept
  BY <1>0, <1>2, Unmoved DEF StartupFails, To, server, ProcessType, ProcessInv, ProcessesKept,
     BridgeType
<1>3. ASSUME NEW s \in Sessions, Connects(s) PROVE ProcessType' /\ ProcessInv' /\ ProcessesKept
  BY <1>0, <1>3, Unmoved DEF Connects, To, server, ProcessType, ProcessInv, ProcessesKept,
     BridgeType
<1>4. ASSUME NEW s \in Sessions, Written(s) PROVE ProcessType' /\ ProcessInv' /\ ProcessesKept
  BY <1>0, <1>4, Unmoved DEF Written, To, server, ProcessType, ProcessInv, ProcessesKept,
     BridgeType
<1>5. ASSUME NEW s \in Sessions, Moved(s) PROVE ProcessType' /\ ProcessInv' /\ ProcessesKept
  BY <1>0, <1>5, Unmoved DEF Moved, To, server, ProcessType, ProcessInv, ProcessesKept, BridgeType
<1>6. ASSUME NEW s \in Sessions, Completed(s) PROVE ProcessType' /\ ProcessInv' /\ ProcessesKept
  BY <1>0, <1>6, Unmoved DEF Completed, To, server, ProcessType, ProcessInv, ProcessesKept,
     BridgeType
<1>7. ASSUME NEW s \in Sessions, StopServer(s) PROVE ProcessType' /\ ProcessInv' /\ ProcessesKept
  <2>1. Exits(Server(s)) /\ UNCHANGED pidOf /\ Server(s) \in Processes
    BY <1>7, TwoProcesses DEF StopServer, To
  <2>2. QED
    BY <1>0, <1>7, <2>1, ExitStep, TwoProcesses DEF ProcessInv, ProcessesKept, BridgeType,
       StopServer, To
<1>8. ASSUME NEW s \in Sessions, DeleteRecord(s) PROVE ProcessType' /\ ProcessInv' /\ ProcessesKept
  BY <1>0, <1>8, Unmoved DEF DeleteRecord, To, server, ProcessType, ProcessInv, ProcessesKept,
     BridgeType
<1>9. ASSUME NEW s \in Sessions, DeleteTmp(s) PROVE ProcessType' /\ ProcessInv' /\ ProcessesKept
  BY <1>0, <1>9, Unmoved DEF DeleteTmp, To, server, ProcessType, ProcessInv, ProcessesKept,
     BridgeType
<1>10. ASSUME NEW s \in Sessions, DeleteTmpFails(s) PROVE ProcessType' /\ ProcessInv' /\ ProcessesKept
  <2>1. Exits(Bridge(s)) /\ UNCHANGED pidOf /\ Bridge(s) \in Processes
    BY <1>10, TwoProcesses DEF DeleteTmpFails, End, To
  <2>2. QED
    BY <1>0, <1>10, <2>1, ExitStep, TwoProcesses DEF ProcessInv, ProcessesKept, BridgeType,
       DeleteTmpFails, End, To
<1>11. ASSUME NEW s \in Sessions, DeleteDir(s) PROVE ProcessType' /\ ProcessInv' /\ ProcessesKept
  <2>1. Exits(Bridge(s)) /\ UNCHANGED pidOf /\ Bridge(s) \in Processes
    BY <1>11, TwoProcesses DEF DeleteDir, End, To
  <2>2. QED
    BY <1>0, <1>11, <2>1, ExitStep, TwoProcesses DEF ProcessInv, ProcessesKept, BridgeType,
       DeleteDir, End, To
<1>12. ASSUME NEW s \in Sessions, InputReads(s) PROVE ProcessType' /\ ProcessInv' /\ ProcessesKept
  BY <1>0, <1>12, Unmoved DEF InputReads, Step, server, ProcessType, ProcessInv, ProcessesKept,
     BridgeType
<1>13. ASSUME NEW s \in Sessions, InputEof(s) PROVE ProcessType' /\ ProcessInv' /\ ProcessesKept
  BY <1>0, <1>13, Unmoved DEF InputEof, Step, server, ProcessType, ProcessInv, ProcessesKept,
     BridgeType
<1>14. ASSUME NEW s \in Sessions, InputOpens(s) PROVE ProcessType' /\ ProcessInv' /\ ProcessesKept
  BY <1>0, <1>14, Unmoved DEF InputOpens, Step, server, ProcessType, ProcessInv, ProcessesKept,
     BridgeType
<1>15. ASSUME NEW s \in Sessions, InputWrites(s) PROVE ProcessType' /\ ProcessInv' /\ ProcessesKept
  BY <1>0, <1>15, Unmoved DEF InputWrites, Step, server, ProcessType, ProcessInv, ProcessesKept,
     BridgeType
<1>16. ASSUME NEW s \in Sessions, InputMoves(s) PROVE ProcessType' /\ ProcessInv' /\ ProcessesKept
  BY <1>0, <1>16, Unmoved DEF InputMoves, Step, server, ProcessType, ProcessInv, ProcessesKept,
     BridgeType
<1>17. ASSUME NEW s \in Sessions, InputSends(s) PROVE ProcessType' /\ ProcessInv' /\ ProcessesKept
  BY <1>0, <1>17, Unmoved DEF InputSends, Step, server, ProcessType, ProcessInv, ProcessesKept,
     BridgeType
<1>18. ASSUME NEW s \in Sessions, InputFaults(s) PROVE ProcessType' /\ ProcessInv' /\ ProcessesKept
  BY <1>0, <1>18, Unmoved DEF InputFaults, Step, server, ProcessType, ProcessInv, ProcessesKept,
     BridgeType
<1>19. ASSUME NEW s \in Sessions, CliReads(s) PROVE ProcessType' /\ ProcessInv' /\ ProcessesKept
  BY <1>0, <1>19, Unmoved DEF CliReads, server, ProcessType, ProcessInv, ProcessesKept, BridgeType
<1>20. ASSUME NEW s \in Sessions, Says(s) PROVE ProcessType' /\ ProcessInv' /\ ProcessesKept
  BY <1>0, <1>20, Unmoved DEF Says, server, ProcessType, ProcessInv, ProcessesKept, BridgeType
<1>21. ASSUME NEW s \in Sessions, Closes(s) PROVE ProcessType' /\ ProcessInv' /\ ProcessesKept
  BY <1>0, <1>21, Unmoved DEF Closes, server, ProcessType, ProcessInv, ProcessesKept, BridgeType
<1>22. ASSUME NEW s \in Sessions, ServerExits(s) PROVE ProcessType' /\ ProcessInv' /\ ProcessesKept
  <2>1. Exits(Server(s)) /\ UNCHANGED pidOf /\ Server(s) \in Processes
    BY <1>22, TwoProcesses DEF ServerExits
  <2>2. QED
    BY <1>0, <1>22, <2>1, ExitStep, TwoProcesses DEF ProcessInv, ProcessesKept, BridgeType,
       ServerExits
<1>23. ASSUME NEW s \in Sessions, Killed(s) PROVE ProcessType' /\ ProcessInv' /\ ProcessesKept
  <2>1. Exits(Bridge(s)) /\ UNCHANGED pidOf /\ Bridge(s) \in Processes
    BY <1>23, TwoProcesses DEF Killed, To, Running
  <2>2. QED
    BY <1>0, <1>23, <2>1, ExitStep, TwoProcesses DEF ProcessInv, ProcessesKept, BridgeType,
       Killed, To, Running
<1>24. CASE CliBegins
  BY <1>0, <1>24, Unmoved DEF CliBegins, server, ProcessType, ProcessInv, ProcessesKept,
     BridgeType
<1>25. CASE CliChecks
  BY <1>0, <1>25, Unmoved DEF CliChecks, server, ProcessType, ProcessInv, ProcessesKept,
     BridgeType
<1>26. CASE CliDecides
  BY <1>0, <1>26, Unmoved DEF CliDecides, server, ProcessType, ProcessInv, ProcessesKept,
     BridgeType
<1>27. CASE UNCHANGED vars
  BY <1>0, <1>27, Unmoved DEF vars, server, ProcessType, ProcessInv, ProcessesKept, BridgeType
<1>28. QED
  BY <1>1, <1>2, <1>3, <1>4, <1>5, <1>6, <1>7, <1>8, <1>9, <1>10, <1>11, <1>12, <1>13, <1>14,
     <1>15, <1>16, <1>17, <1>18, <1>19, <1>20, <1>21, <1>22, <1>23, <1>24, <1>25, <1>26, <1>27 DEF
     Next, Serve, InputTask

(* A bridge and its files keep their types. *)
LEMMA BridgeTypeStep == BridgeInv /\ [Next]_vars => BridgeType'
<1> SUFFICES ASSUME BridgeInv, [Next]_vars PROVE BridgeType'
  OBVIOUS
<1>0. BridgeType /\ MaxFaults \in Nat
  BY Constants DEF BridgeInv
<1> USE DEF BridgeType, Phases, Inputs, server, stdin, task, files, client
<1>1. ASSUME NEW s \in Sessions, Start(s) PROVE BridgeType'
  BY <1>0, <1>1 DEF Start, To
<1>2. ASSUME NEW s \in Sessions, StartupFails(s) PROVE BridgeType'
  BY <1>0, <1>2 DEF StartupFails, To
<1>3. ASSUME NEW s \in Sessions, Connects(s) PROVE BridgeType'
  BY <1>0, <1>3 DEF Connects, To
<1>4. ASSUME NEW s \in Sessions, Written(s) PROVE BridgeType'
  BY <1>0, <1>4 DEF Written, To
<1>5. ASSUME NEW s \in Sessions, Moved(s) PROVE BridgeType'
  BY <1>0, <1>5 DEF Moved, To
<1>6. ASSUME NEW s \in Sessions, Completed(s) PROVE BridgeType'
  BY <1>0, <1>6 DEF Completed, To
<1>7. ASSUME NEW s \in Sessions, StopServer(s) PROVE BridgeType'
  BY <1>0, <1>7 DEF StopServer, To
<1>8. ASSUME NEW s \in Sessions, DeleteRecord(s) PROVE BridgeType'
  BY <1>0, <1>8 DEF DeleteRecord, To
<1>9. ASSUME NEW s \in Sessions, DeleteTmp(s) PROVE BridgeType'
  BY <1>0, <1>9 DEF DeleteTmp, To
<1>10. ASSUME NEW s \in Sessions, DeleteTmpFails(s) PROVE BridgeType'
  BY <1>0, <1>10 DEF DeleteTmpFails, End, To
<1>11. ASSUME NEW s \in Sessions, DeleteDir(s) PROVE BridgeType'
  BY <1>0, <1>11 DEF DeleteDir, End, To
<1>12. ASSUME NEW s \in Sessions, InputReads(s) PROVE BridgeType'
  BY <1>0, <1>12 DEF InputReads, Step
<1>13. ASSUME NEW s \in Sessions, InputEof(s) PROVE BridgeType'
  BY <1>0, <1>13 DEF InputEof, Step
<1>14. ASSUME NEW s \in Sessions, InputOpens(s) PROVE BridgeType'
  BY <1>0, <1>14 DEF InputOpens, Step
<1>15. ASSUME NEW s \in Sessions, InputWrites(s) PROVE BridgeType'
  BY <1>0, <1>15 DEF InputWrites, Step
<1>16. ASSUME NEW s \in Sessions, InputMoves(s) PROVE BridgeType'
  BY <1>0, <1>16 DEF InputMoves, Step
<1>17. ASSUME NEW s \in Sessions, InputSends(s) PROVE BridgeType'
  BY <1>0, <1>17 DEF InputSends, Step
<1>18. ASSUME NEW s \in Sessions, InputFaults(s) PROVE BridgeType'
  BY <1>0, <1>18 DEF InputFaults, Step
<1>19. ASSUME NEW s \in Sessions, CliReads(s) PROVE BridgeType'
  BY <1>0, <1>19 DEF CliReads
<1>20. ASSUME NEW s \in Sessions, Says(s) PROVE BridgeType'
  BY <1>0, <1>20 DEF Says
<1>21. ASSUME NEW s \in Sessions, Closes(s) PROVE BridgeType'
  BY <1>0, <1>21 DEF Closes
<1>22. ASSUME NEW s \in Sessions, ServerExits(s) PROVE BridgeType'
  BY <1>0, <1>22 DEF ServerExits
<1>23. ASSUME NEW s \in Sessions, Killed(s) PROVE BridgeType'
  BY <1>0, <1>23 DEF Killed, To, Running
<1>24. CASE CliBegins
  BY <1>0, <1>24 DEF CliBegins
<1>25. CASE CliChecks
  BY <1>0, <1>25 DEF CliChecks
<1>26. CASE CliDecides
  BY <1>0, <1>26 DEF CliDecides
<1>27. CASE UNCHANGED vars
  BY <1>0, <1>27 DEF vars
<1>28. QED
  BY <1>1, <1>2, <1>3, <1>4, <1>5, <1>6, <1>7, <1>8, <1>9, <1>10, <1>11, <1>12, <1>13, <1>14,
     <1>15, <1>16, <1>17, <1>18, <1>19, <1>20, <1>21, <1>22, <1>23, <1>24, <1>25, <1>26, <1>27 DEF
     Next, Serve, InputTask

(* Lines are counted within what the desktop says. *)
LEMMA LineTypeStep == BridgeInv /\ [Next]_vars => LineType'
<1> SUFFICES ASSUME BridgeInv, [Next]_vars PROVE LineType'
  OBVIOUS
<1>0. LineType /\ LineInv /\ Len(Lines) \in Nat
  BY Constants DEF BridgeInv
<1> USE DEF LineType, LineInv, server, stdin, task, files, client
<1>1. ASSUME NEW s \in Sessions, Start(s) PROVE LineType'
  BY <1>0, <1>1 DEF Start, To
<1>2. ASSUME NEW s \in Sessions, StartupFails(s) PROVE LineType'
  BY <1>0, <1>2 DEF StartupFails, To
<1>3. ASSUME NEW s \in Sessions, Connects(s) PROVE LineType'
  BY <1>0, <1>3 DEF Connects, To
<1>4. ASSUME NEW s \in Sessions, Written(s) PROVE LineType'
  BY <1>0, <1>4 DEF Written, To
<1>5. ASSUME NEW s \in Sessions, Moved(s) PROVE LineType'
  BY <1>0, <1>5 DEF Moved, To
<1>6. ASSUME NEW s \in Sessions, Completed(s) PROVE LineType'
  BY <1>0, <1>6 DEF Completed, To
<1>7. ASSUME NEW s \in Sessions, StopServer(s) PROVE LineType'
  BY <1>0, <1>7 DEF StopServer, To
<1>8. ASSUME NEW s \in Sessions, DeleteRecord(s) PROVE LineType'
  BY <1>0, <1>8 DEF DeleteRecord, To
<1>9. ASSUME NEW s \in Sessions, DeleteTmp(s) PROVE LineType'
  BY <1>0, <1>9 DEF DeleteTmp, To
<1>10. ASSUME NEW s \in Sessions, DeleteTmpFails(s) PROVE LineType'
  BY <1>0, <1>10 DEF DeleteTmpFails, End, To
<1>11. ASSUME NEW s \in Sessions, DeleteDir(s) PROVE LineType'
  BY <1>0, <1>11 DEF DeleteDir, End, To
<1>12. ASSUME NEW s \in Sessions, InputReads(s) PROVE LineType'
  BY <1>0, <1>12 DEF InputReads, Step
<1>13. ASSUME NEW s \in Sessions, InputEof(s) PROVE LineType'
  BY <1>0, <1>13 DEF InputEof, Step
<1>14. ASSUME NEW s \in Sessions, InputOpens(s) PROVE LineType'
  BY <1>0, <1>14 DEF InputOpens, Step
<1>15. ASSUME NEW s \in Sessions, InputWrites(s) PROVE LineType'
  BY <1>0, <1>15 DEF InputWrites, Step
<1>16. ASSUME NEW s \in Sessions, InputMoves(s) PROVE LineType'
  BY <1>0, <1>16 DEF InputMoves, Step
<1>17. ASSUME NEW s \in Sessions, InputSends(s) PROVE LineType'
  BY <1>0, <1>17 DEF InputSends, Step
<1>18. ASSUME NEW s \in Sessions, InputFaults(s) PROVE LineType'
  BY <1>0, <1>18 DEF InputFaults, Step
<1>19. ASSUME NEW s \in Sessions, CliReads(s) PROVE LineType'
  BY <1>0, <1>19 DEF CliReads
<1>20. ASSUME NEW s \in Sessions, Says(s) PROVE LineType'
  BY <1>0, <1>20 DEF Says
<1>21. ASSUME NEW s \in Sessions, Closes(s) PROVE LineType'
  BY <1>0, <1>21 DEF Closes
<1>22. ASSUME NEW s \in Sessions, ServerExits(s) PROVE LineType'
  BY <1>0, <1>22 DEF ServerExits
<1>23. ASSUME NEW s \in Sessions, Killed(s) PROVE LineType'
  BY <1>0, <1>23 DEF Killed, To, Running
<1>24. CASE CliBegins
  BY <1>0, <1>24 DEF CliBegins
<1>25. CASE CliChecks
  BY <1>0, <1>25 DEF CliChecks
<1>26. CASE CliDecides
  BY <1>0, <1>26 DEF CliDecides
<1>27. CASE UNCHANGED vars
  BY <1>0, <1>27 DEF vars
<1>28. QED
  BY <1>1, <1>2, <1>3, <1>4, <1>5, <1>6, <1>7, <1>8, <1>9, <1>10, <1>11, <1>12, <1>13, <1>14,
     <1>15, <1>16, <1>17, <1>18, <1>19, <1>20, <1>21, <1>22, <1>23, <1>24, <1>25, <1>26, <1>27 DEF
     Next, Serve, InputTask

(* The search keeps its types. *)
LEMMA SearchTypeStep == BridgeInv /\ [Next]_vars => SearchType'
<1> SUFFICES ASSUME BridgeInv, [Next]_vars PROVE SearchType'
  OBVIOUS
<1>0. SearchType /\ BridgeType /\ Instances \subseteq Pids \cup {None}
  BY Constants DEF BridgeInv
<1> USE DEF SearchType, BridgeType, server, stdin, task, files, client
<1>1. ASSUME NEW s \in Sessions, Start(s) PROVE SearchType'
  BY <1>0, <1>1 DEF Start, To
<1>2. ASSUME NEW s \in Sessions, StartupFails(s) PROVE SearchType'
  BY <1>0, <1>2 DEF StartupFails, To
<1>3. ASSUME NEW s \in Sessions, Connects(s) PROVE SearchType'
  BY <1>0, <1>3 DEF Connects, To
<1>4. ASSUME NEW s \in Sessions, Written(s) PROVE SearchType'
  BY <1>0, <1>4 DEF Written, To
<1>5. ASSUME NEW s \in Sessions, Moved(s) PROVE SearchType'
  BY <1>0, <1>5 DEF Moved, To
<1>6. ASSUME NEW s \in Sessions, Completed(s) PROVE SearchType'
  BY <1>0, <1>6 DEF Completed, To
<1>7. ASSUME NEW s \in Sessions, StopServer(s) PROVE SearchType'
  BY <1>0, <1>7 DEF StopServer, To
<1>8. ASSUME NEW s \in Sessions, DeleteRecord(s) PROVE SearchType'
  BY <1>0, <1>8 DEF DeleteRecord, To
<1>9. ASSUME NEW s \in Sessions, DeleteTmp(s) PROVE SearchType'
  BY <1>0, <1>9 DEF DeleteTmp, To
<1>10. ASSUME NEW s \in Sessions, DeleteTmpFails(s) PROVE SearchType'
  BY <1>0, <1>10 DEF DeleteTmpFails, End, To
<1>11. ASSUME NEW s \in Sessions, DeleteDir(s) PROVE SearchType'
  BY <1>0, <1>11 DEF DeleteDir, End, To
<1>12. ASSUME NEW s \in Sessions, InputReads(s) PROVE SearchType'
  BY <1>0, <1>12 DEF InputReads, Step
<1>13. ASSUME NEW s \in Sessions, InputEof(s) PROVE SearchType'
  BY <1>0, <1>13 DEF InputEof, Step
<1>14. ASSUME NEW s \in Sessions, InputOpens(s) PROVE SearchType'
  BY <1>0, <1>14 DEF InputOpens, Step
<1>15. ASSUME NEW s \in Sessions, InputWrites(s) PROVE SearchType'
  BY <1>0, <1>15 DEF InputWrites, Step
<1>16. ASSUME NEW s \in Sessions, InputMoves(s) PROVE SearchType'
  BY <1>0, <1>16 DEF InputMoves, Step
<1>17. ASSUME NEW s \in Sessions, InputSends(s) PROVE SearchType'
  BY <1>0, <1>17 DEF InputSends, Step
<1>18. ASSUME NEW s \in Sessions, InputFaults(s) PROVE SearchType'
  BY <1>0, <1>18 DEF InputFaults, Step
<1>19. ASSUME NEW s \in Sessions, CliReads(s) PROVE SearchType'
  BY <1>0, <1>19 DEF CliReads
<1>20. ASSUME NEW s \in Sessions, Says(s) PROVE SearchType'
  BY <1>0, <1>20 DEF Says
<1>21. ASSUME NEW s \in Sessions, Closes(s) PROVE SearchType'
  BY <1>0, <1>21 DEF Closes
<1>22. ASSUME NEW s \in Sessions, ServerExits(s) PROVE SearchType'
  BY <1>0, <1>22 DEF ServerExits
<1>23. ASSUME NEW s \in Sessions, Killed(s) PROVE SearchType'
  BY <1>0, <1>23 DEF Killed, To, Running
<1>24. CASE CliBegins
  BY <1>0, <1>24 DEF CliBegins
<1>25. CASE CliChecks
  BY <1>0, <1>25 DEF CliChecks
<1>26. CASE CliDecides
  BY <1>0, <1>26 DEF CliDecides
<1>27. CASE UNCHANGED vars
  BY <1>0, <1>27 DEF vars
<1>28. QED
  BY <1>1, <1>2, <1>3, <1>4, <1>5, <1>6, <1>7, <1>8, <1>9, <1>10, <1>11, <1>12, <1>13, <1>14,
     <1>15, <1>16, <1>17, <1>18, <1>19, <1>20, <1>21, <1>22, <1>23, <1>24, <1>25, <1>26, <1>27 DEF
     Next, Serve, InputTask

(* The files of a bridge whose input task saw the end of STDIN are removed. *)
LEMMA FileStep == BridgeInv /\ [Next]_vars => FileInv'
<1> SUFFICES ASSUME BridgeInv, [Next]_vars PROVE FileInv'
  OBVIOUS
<1>0. BridgeType /\ FileInv
  BY DEF BridgeInv
<1> USE Constants
<1> USE DEF FileInv, BridgeType, Phases, Inputs, server, stdin, task, files, client
<1>1. ASSUME NEW s \in Sessions, Start(s) PROVE FileInv'
  BY <1>0, <1>1 DEF Start, To
<1>2. ASSUME NEW s \in Sessions, StartupFails(s) PROVE FileInv'
  BY <1>0, <1>2 DEF StartupFails, To
<1>3. ASSUME NEW s \in Sessions, Connects(s) PROVE FileInv'
  BY <1>0, <1>3 DEF Connects, To
<1>4. ASSUME NEW s \in Sessions, Written(s) PROVE FileInv'
  BY <1>0, <1>4 DEF Written, To
<1>5. ASSUME NEW s \in Sessions, Moved(s) PROVE FileInv'
  BY <1>0, <1>5 DEF Moved, To
<1>6. ASSUME NEW s \in Sessions, Completed(s) PROVE FileInv'
  BY <1>0, <1>6 DEF Completed, To
<1>7. ASSUME NEW s \in Sessions, StopServer(s) PROVE FileInv'
  BY <1>0, <1>7 DEF StopServer, To
<1>8. ASSUME NEW s \in Sessions, DeleteRecord(s) PROVE FileInv'
  BY <1>0, <1>8 DEF DeleteRecord, To
<1>9. ASSUME NEW s \in Sessions, DeleteTmp(s) PROVE FileInv'
  BY <1>0, <1>9 DEF DeleteTmp, To
<1>10. ASSUME NEW s \in Sessions, DeleteTmpFails(s) PROVE FileInv'
  BY <1>0, <1>10 DEF DeleteTmpFails, End, To
<1>11. ASSUME NEW s \in Sessions, DeleteDir(s) PROVE FileInv'
  BY <1>0, <1>11 DEF DeleteDir, End, To
<1>12. ASSUME NEW s \in Sessions, InputReads(s) PROVE FileInv'
  BY <1>0, <1>12 DEF InputReads, Step
<1>13. ASSUME NEW s \in Sessions, InputEof(s) PROVE FileInv'
  BY <1>0, <1>13 DEF InputEof, Step
<1>14. ASSUME NEW s \in Sessions, InputOpens(s) PROVE FileInv'
  BY <1>0, <1>14 DEF InputOpens, Step
<1>15. ASSUME NEW s \in Sessions, InputWrites(s) PROVE FileInv'
  BY <1>0, <1>15 DEF InputWrites, Step
<1>16. ASSUME NEW s \in Sessions, InputMoves(s) PROVE FileInv'
  BY <1>0, <1>16 DEF InputMoves, Step
<1>17. ASSUME NEW s \in Sessions, InputSends(s) PROVE FileInv'
  BY <1>0, <1>17 DEF InputSends, Step
<1>18. ASSUME NEW s \in Sessions, InputFaults(s) PROVE FileInv'
  BY <1>0, <1>18 DEF InputFaults, Step
<1>19. ASSUME NEW s \in Sessions, CliReads(s) PROVE FileInv'
  BY <1>0, <1>19 DEF CliReads
<1>20. ASSUME NEW s \in Sessions, Says(s) PROVE FileInv'
  BY <1>0, <1>20 DEF Says
<1>21. ASSUME NEW s \in Sessions, Closes(s) PROVE FileInv'
  BY <1>0, <1>21 DEF Closes
<1>22. ASSUME NEW s \in Sessions, ServerExits(s) PROVE FileInv'
  BY <1>0, <1>22 DEF ServerExits
<1>23. ASSUME NEW s \in Sessions, Killed(s) PROVE FileInv'
  BY <1>0, <1>23 DEF Killed, To, Running
<1>24. CASE CliBegins
  BY <1>0, <1>24 DEF CliBegins
<1>25. CASE CliChecks
  BY <1>0, <1>25 DEF CliChecks
<1>26. CASE CliDecides
  BY <1>0, <1>26 DEF CliDecides
<1>27. CASE UNCHANGED vars
  BY <1>0, <1>27 DEF vars
<1>28. QED
  BY <1>1, <1>2, <1>3, <1>4, <1>5, <1>6, <1>7, <1>8, <1>9, <1>10, <1>11, <1>12, <1>13, <1>14,
     <1>15, <1>16, <1>17, <1>18, <1>19, <1>20, <1>21, <1>22, <1>23, <1>24, <1>25, <1>26, <1>27 DEF
     Next, Serve, InputTask

(* A client's name is in the record before the server can know it. *)
LEMMA LineStep == BridgeInv /\ [Next]_vars => LineInv'
<1> SUFFICES ASSUME BridgeInv, [Next]_vars PROVE LineInv'
  OBVIOUS
<1>0. BridgeType /\ LineType /\ FileInv /\ LineInv /\ Len(Lines) \in Nat
  BY Constants DEF BridgeInv
<1> USE Constants
<1> USE DEF LineInv, LineType, FileInv, BridgeType, server, stdin, task, files, client
<1>1. ASSUME NEW s \in Sessions, Start(s) PROVE LineInv'
  BY <1>0, <1>1 DEF Start, To
<1>2. ASSUME NEW s \in Sessions, StartupFails(s) PROVE LineInv'
  BY <1>0, <1>2 DEF StartupFails, To
<1>3. ASSUME NEW s \in Sessions, Connects(s) PROVE LineInv'
  BY <1>0, <1>3 DEF Connects, To
<1>4. ASSUME NEW s \in Sessions, Written(s) PROVE LineInv'
  BY <1>0, <1>4 DEF Written, To
<1>5. ASSUME NEW s \in Sessions, Moved(s) PROVE LineInv'
  BY <1>0, <1>5 DEF Moved, To
<1>6. ASSUME NEW s \in Sessions, Completed(s) PROVE LineInv'
  BY <1>0, <1>6 DEF Completed, To
<1>7. ASSUME NEW s \in Sessions, StopServer(s) PROVE LineInv'
  BY <1>0, <1>7 DEF StopServer, To
<1>8. ASSUME NEW s \in Sessions, DeleteRecord(s) PROVE LineInv'
  BY <1>0, <1>8 DEF DeleteRecord, To
<1>9. ASSUME NEW s \in Sessions, DeleteTmp(s) PROVE LineInv'
  BY <1>0, <1>9 DEF DeleteTmp, To
<1>10. ASSUME NEW s \in Sessions, DeleteTmpFails(s) PROVE LineInv'
  BY <1>0, <1>10 DEF DeleteTmpFails, End, To
<1>11. ASSUME NEW s \in Sessions, DeleteDir(s) PROVE LineInv'
  BY <1>0, <1>11 DEF DeleteDir, End, To
<1>12. ASSUME NEW s \in Sessions, InputReads(s) PROVE LineInv'
  <2>1. CASE Lines[taken'[s]] = "initialize" /\ record[s] = "unnamed"
    <3>1. input' = [input EXCEPT ![s] = "record"]
      BY <1>12, <2>1 DEF InputReads, Step
    <3>2. QED
      BY <1>0, <1>12, <2>1, <3>1 DEF InputReads
  <2>2. CASE ~(Lines[taken'[s]] = "initialize" /\ record[s] = "unnamed")
    <3>1. input' = [input EXCEPT ![s] = "send"]
      BY <1>12, <2>2 DEF InputReads, Step
    <3>2. QED
      BY <1>0, <1>12, <2>2, <3>1 DEF InputReads
  <2>3. QED
    BY <2>1, <2>2
<1>13. ASSUME NEW s \in Sessions, InputEof(s) PROVE LineInv'
  BY <1>0, <1>13 DEF InputEof, Step
<1>14. ASSUME NEW s \in Sessions, InputOpens(s) PROVE LineInv'
  BY <1>0, <1>14 DEF InputOpens, Step
<1>15. ASSUME NEW s \in Sessions, InputWrites(s) PROVE LineInv'
  BY <1>0, <1>15 DEF InputWrites, Step
<1>16. ASSUME NEW s \in Sessions, InputMoves(s) PROVE LineInv'
  BY <1>0, <1>16 DEF InputMoves, Step
<1>17. ASSUME NEW s \in Sessions, InputSends(s) PROVE LineInv'
  BY <1>0, <1>17 DEF InputSends, Step
<1>18. ASSUME NEW s \in Sessions, InputFaults(s) PROVE LineInv'
  BY <1>0, <1>18 DEF InputFaults, Step
<1>19. ASSUME NEW s \in Sessions, CliReads(s) PROVE LineInv'
  BY <1>0, <1>19 DEF CliReads
<1>20. ASSUME NEW s \in Sessions, Says(s) PROVE LineInv'
  BY <1>0, <1>20 DEF Says
<1>21. ASSUME NEW s \in Sessions, Closes(s) PROVE LineInv'
  BY <1>0, <1>21 DEF Closes
<1>22. ASSUME NEW s \in Sessions, ServerExits(s) PROVE LineInv'
  BY <1>0, <1>22 DEF ServerExits
<1>23. ASSUME NEW s \in Sessions, Killed(s) PROVE LineInv'
  BY <1>0, <1>23 DEF Killed, To, Running
<1>24. CASE CliBegins
  BY <1>0, <1>24 DEF CliBegins
<1>25. CASE CliChecks
  BY <1>0, <1>25 DEF CliChecks
<1>26. CASE CliDecides
  BY <1>0, <1>26 DEF CliDecides
<1>27. CASE UNCHANGED vars
  BY <1>0, <1>27 DEF vars
<1>28. QED
  BY <1>1, <1>2, <1>3, <1>4, <1>5, <1>6, <1>7, <1>8, <1>9, <1>10, <1>11, <1>12, <1>13, <1>14,
     <1>15, <1>16, <1>17, <1>18, <1>19, <1>20, <1>21, <1>22, <1>23, <1>24, <1>25, <1>26, <1>27 DEF
     Next, Serve, InputTask

(* The search keeps what it knows. *)
LEMMA SearchStep == BridgeInv /\ [Next]_vars => SearchInv'
<1> SUFFICES ASSUME BridgeInv, [Next]_vars PROVE SearchInv'
  OBVIOUS
<1>0. BridgeInv /\ ProcessInv /\ Lives' \subseteq Lives \cup {s \in Sessions : phase[s] = "off"}
  BY ProcessStep, TwoProcesses DEF BridgeInv, ProcessInv, ProcessesKept, Lives
<1> USE Constants
<1> USE DEF SearchInv, LineInv, LineType, FileInv, BridgeType, BridgeInv, SearchType, server,
   stdin, task, files, client
<1>1. ASSUME NEW s \in Sessions, Start(s) PROVE SearchInv'
  BY <1>0, <1>1 DEF Start, To
<1>2. ASSUME NEW s \in Sessions, StartupFails(s) PROVE SearchInv'
  BY <1>0, <1>2 DEF StartupFails, To
<1>3. ASSUME NEW s \in Sessions, Connects(s) PROVE SearchInv'
  BY <1>0, <1>3 DEF Connects, To
<1>4. ASSUME NEW s \in Sessions, Written(s) PROVE SearchInv'
  BY <1>0, <1>4 DEF Written, To
<1>5. ASSUME NEW s \in Sessions, Moved(s) PROVE SearchInv'
  BY <1>0, <1>5 DEF Moved, To
<1>6. ASSUME NEW s \in Sessions, Completed(s) PROVE SearchInv'
  BY <1>0, <1>6 DEF Completed, To
<1>7. ASSUME NEW s \in Sessions, StopServer(s) PROVE SearchInv'
  BY <1>0, <1>7 DEF StopServer, To
<1>8. ASSUME NEW s \in Sessions, DeleteRecord(s) PROVE SearchInv'
  <2>1. s \notin Lives
    BY <1>0, <1>8 DEF DeleteRecord, ProcessInv, Lives
  <2>2. QED
    BY <1>0, <1>8, <2>1 DEF DeleteRecord, To
<1>9. ASSUME NEW s \in Sessions, DeleteTmp(s) PROVE SearchInv'
  BY <1>0, <1>9 DEF DeleteTmp, To
<1>10. ASSUME NEW s \in Sessions, DeleteTmpFails(s) PROVE SearchInv'
  BY <1>0, <1>10 DEF DeleteTmpFails, End, To
<1>11. ASSUME NEW s \in Sessions, DeleteDir(s) PROVE SearchInv'
  BY <1>0, <1>11 DEF DeleteDir, End, To
<1>12. ASSUME NEW s \in Sessions, InputReads(s) PROVE SearchInv'
  BY <1>0, <1>12 DEF InputReads, Step
<1>13. ASSUME NEW s \in Sessions, InputEof(s) PROVE SearchInv'
  BY <1>0, <1>13 DEF InputEof, Step
<1>14. ASSUME NEW s \in Sessions, InputOpens(s) PROVE SearchInv'
  BY <1>0, <1>14 DEF InputOpens, Step
<1>15. ASSUME NEW s \in Sessions, InputWrites(s) PROVE SearchInv'
  BY <1>0, <1>15 DEF InputWrites, Step
<1>16. ASSUME NEW s \in Sessions, InputMoves(s) PROVE SearchInv'
  BY <1>0, <1>16 DEF InputMoves, Step
<1>17. ASSUME NEW s \in Sessions, InputSends(s) PROVE SearchInv'
  BY <1>0, <1>17 DEF InputSends, Step
<1>18. ASSUME NEW s \in Sessions, InputFaults(s) PROVE SearchInv'
  BY <1>0, <1>18 DEF InputFaults, Step
<1>19. ASSUME NEW s \in Sessions, CliReads(s) PROVE SearchInv'
  <2>1. record[s] # None => [of |-> s, named |-> record[s] = "named"] \in [of : Sessions, named : BOOLEAN]
    OBVIOUS
  <2>2. PICK r : r = record[s]
    OBVIOUS
  <2>3. held = None /\ (held' = IF r = None THEN None ELSE [of |-> s, named |-> r = "named"])
    BY <1>19, <2>2 DEF CliReads
  <2>4. /\ UNCHANGED <<cli, found, gone, steady, said, record, phase, wanted>>
        /\ due' = due \ {s} /\ cli = "scanning"
    BY <1>19 DEF CliReads
  <2>5. held' # None => held'.of = s /\ (held'.named => r = "named")
    BY <2>3
  <2>6. ASSUME NEW t \in steady, t \in Lives', wanted = None
        PROVE  t \in due' \/ t \in found \/ held' = [of |-> t, named |-> TRUE]
    <3>1. t \in Lives /\ record[t] = "named" /\ (t \in due \/ t \in found \/ held = [of |-> t, named |-> TRUE])
      BY <1>0, <2>4, <2>6
    <3>2. t \in Sessions /\ [of |-> t, named |-> TRUE] \in [of : Sessions, named : BOOLEAN]
      BY <3>1 DEF Lives
    <3>3. t \in due \/ t \in found
      BY <2>3, <3>1, <3>2
    <3>4. CASE t = s
      BY <2>2, <2>3, <3>1, <3>4
    <3>5. CASE t # s
      BY <2>4, <3>3, <3>5
    <3>6. QED
      BY <3>4, <3>5
  <2>7. QED
    BY <1>0, <2>2, <2>4, <2>5, <2>6
<1>20. ASSUME NEW s \in Sessions, Says(s) PROVE SearchInv'
  BY <1>0, <1>20 DEF Says
<1>21. ASSUME NEW s \in Sessions, Closes(s) PROVE SearchInv'
  BY <1>0, <1>21 DEF Closes
<1>22. ASSUME NEW s \in Sessions, ServerExits(s) PROVE SearchInv'
  BY <1>0, <1>22 DEF ServerExits
<1>23. ASSUME NEW s \in Sessions, Killed(s) PROVE SearchInv'
  BY <1>0, <1>23 DEF Killed, To, Running
<1>24. CASE CliBegins
  <2>1. Lives' = Lives
    BY <1>24 DEF CliBegins, Lives, Living, Alive
  <2>2. \A s \in Sessions : Live(s) <=> s \in Lives
    BY TwoProcesses DEF Live, Lives, Living
  <2>3. gone' = {s \in Sessions : phase[s] # "off" /\ s \notin Lives}
    BY <1>24, <2>2 DEF CliBegins, Live
  <2>4. steady' = {s \in Sessions : record[s] = "named" /\ s \in WithContext /\ s \in Lives}
    BY <1>24, <2>2 DEF CliBegins, Attachable
  <2>5. cli' = "scanning" /\ cli = "idle" /\ due' = dir
    BY <1>24 DEF CliBegins
  <2>6. UNCHANGED <<found, held, said, record, phase>>
    BY <1>24 DEF CliBegins
  <2>7. \A s \in steady' : phase[s] # "off" /\ s \in dir
    BY <1>0, <2>4
  <2>8. QED
    BY <1>0, <2>1, <2>3, <2>4, <2>5, <2>6, <2>7
<1>25. CASE CliChecks
  <2>1. held # None /\ held' = None /\ held.of \in Sessions
    BY <1>0, <1>25 DEF CliChecks
  <2>2. Live(held.of) <=> held.of \in Lives
    BY <2>1, TwoProcesses DEF Live, Lives, Living
  <2>3. UNCHANGED <<cli, gone, steady, said, record, phase, wanted, due>> /\ cli = "scanning"
    BY <1>25 DEF CliChecks
  <2>4. found \subseteq found' /\ found' \subseteq found \cup {held.of}
    BY <1>25 DEF CliChecks
  <2>5. held.of \in found' \ found => held.named /\ held.of \in WithContext /\ held.of \in Lives
    BY <1>25, <2>2 DEF CliChecks, Eligible
  <2>6. held.of \in Lives /\ held.named /\ held.of \in WithContext /\ wanted = None => held.of \in found'
    BY <1>25, <2>2 DEF CliChecks, Eligible
  <2>7. ASSUME NEW t \in steady, t \in Lives', wanted = None
        PROVE  t \in due' \/ t \in found'
    <3>1. CASE held = [of |-> t, named |-> TRUE]
      BY <1>0, <2>6, <2>7, <3>1
    <3>2. CASE held # [of |-> t, named |-> TRUE]
      BY <1>0, <2>3, <2>4, <2>7, <3>2
    <3>3. QED
      BY <3>1, <3>2
  <2>8. ASSUME NEW t \in found' PROVE t \in WithContext \ gone /\ \E i \in 1..said[t] : Lines[i] = "initialize"
    BY <1>0, <2>1, <2>4, <2>5, <2>8
  <2>9. QED
    BY <1>0, <2>1, <2>3, <2>7, <2>8
<1>26. CASE CliDecides
  BY <1>0, <1>26 DEF CliDecides
<1>27. CASE UNCHANGED vars
  BY <1>0, <1>27 DEF vars
<1>28. QED
  BY <1>1, <1>2, <1>3, <1>4, <1>5, <1>6, <1>7, <1>8, <1>9, <1>10, <1>11, <1>12, <1>13, <1>14,
     <1>15, <1>16, <1>17, <1>18, <1>19, <1>20, <1>21, <1>22, <1>23, <1>24, <1>25, <1>26, <1>27 DEF
     Next, Serve, InputTask

LEMMA BridgeInvariant == Spec => []BridgeInv
<1>1. Init => BridgeInv
  BY BridgeInit
<1>2. BridgeInv /\ [Next]_vars => BridgeInv'
  <2> SUFFICES ASSUME BridgeInv, [Next]_vars PROVE BridgeInv'
    OBVIOUS
  <2>1. ProcessType' /\ ProcessInv'
    BY ProcessStep
  <2>2. BridgeType' /\ LineType' /\ SearchType'
    BY BridgeTypeStep, LineTypeStep, SearchTypeStep
  <2>3. FileInv' /\ LineInv' /\ SearchInv'
    BY FileStep, LineStep, SearchStep
  <2>4. QED
    BY <2>1, <2>2, <2>3 DEF BridgeInv
<1>3. QED
  BY <1>1, <1>2, PTL DEF Spec
-----------------------------------------------------------------------------
(* Nothing but CliDecides attaches. *)
LEMMA AttachesIsDecided == SearchType /\ Next /\ Attaches => CliDecides
  BY DEF Next, Attaches, Serve, InputTask, Start, StartupFails, Connects, Written, Moved,
     Completed, StopServer, DeleteRecord, DeleteTmp, DeleteTmpFails, DeleteDir, InputReads,
     InputEof, InputOpens, InputWrites, InputMoves, InputSends, InputFaults, CliReads, Says,
     Closes,
     ServerExits, Killed, CliBegins, CliChecks, client

(* A bridge keeps its types, gives a client's name before its line, and    *)
(* ends without leaving a server or, if it saw STDIN end, a token behind.  *)
THEOREM BridgesAreSound == Spec => []SoundBridge
<1>1. BridgeInv => SoundBridge
  <2> SUFFICES ASSUME BridgeInv PROVE SoundBridge
    OBVIOUS
  <2>1. TypeOK
    BY DEF BridgeInv, ProcessType, BridgeType, LineType, SearchType, LineInv, TypeOK
  <2>2. InitializedIsNamed
    BY DEF BridgeInv, LineInv, InitializedIsNamed, Initializes
  <2>3. NoServerOutlivesItsBridge
    BY TwoProcesses DEF BridgeInv, ProcessInv, NoServerOutlivesItsBridge, Living
  <2>4. EofRemovesToken
    BY DEF BridgeInv, FileInv, EofRemovesToken
  <2>5. QED
    BY <2>1, <2>2, <2>3, <2>4 DEF SoundBridge
<1>2. QED
  BY <1>1, BridgeInvariant, PTL

(* codex-desktop attaches only to a server that ran after it began to look *)
(* and that a desktop initialized with its browser context.                *)
THEOREM OnlyLiveTargets == Spec => AttachesToLive
<1>1. BridgeInv /\ [Next]_vars =>
          [Attaches => target' \in WithContext \ gone /\ Initializes(said[target'])]_vars
  <2> SUFFICES ASSUME BridgeInv, Next, Attaches
               PROVE  target' \in WithContext \ gone /\ Initializes(said[target'])
    OBVIOUS
  <2>1. CliDecides
    BY AttachesIsDecided DEF BridgeInv
  <2>2. target' \in found
    BY <2>1 DEF CliDecides, Attaches
  <2>3. QED
    BY <2>2 DEF BridgeInv, SearchInv, Initializes
<1>2. QED
  BY <1>1, BridgeInvariant, PTL DEF Spec, AttachesToLive

(* Without --instance it attaches only where there was no choice. *)
THEOREM OnlyOneTarget == Spec => AttachIsUnambiguous
<1>1. BridgeInv /\ [Next]_vars =>
          [Attaches /\ wanted = None => \A s \in steady : Attachable(s) => s = target']_vars
  <2> SUFFICES ASSUME BridgeInv, Next, Attaches, wanted = None, NEW s \in steady, Attachable(s)
               PROVE  s = target'
    OBVIOUS
  <2>1. CliDecides
    BY AttachesIsDecided DEF BridgeInv
  <2>2. found \subseteq Sessions /\ Cardinality(found) = 1 /\ target' \in found /\ due = {} /\ held = None
    BY <2>1 DEF CliDecides, Attaches, Unambiguous, BridgeInv, SearchType
  <2>3. s \in Lives
    BY TwoProcesses DEF BridgeInv, SearchType, Attachable, Live, Lives, Living
  <2>c. [of |-> s, named |-> TRUE] \in [of : Sessions, named : BOOLEAN]
    BY <2>3 DEF Lives
  <2>4. s \in found
    BY <2>2, <2>3, <2>c, Constants DEF BridgeInv, SearchInv
  <2>5. \E t \in found : found = {t}
    BY <2>2, Constants, FS_Subset, FS_Singleton
  <2>6. QED
    BY <2>2, <2>4, <2>5
<1>2. QED
  BY <1>1, BridgeInvariant, PTL DEF Spec, AttachIsUnambiguous
=============================================================================
