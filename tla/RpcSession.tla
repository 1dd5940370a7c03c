----------------------------- MODULE RpcSession -----------------------------
(***************************************************************************)
(* The JSON-RPC clients of the release checks, each with a server process  *)
(* of its own on private STDIO:                                            *)
(*                                                                         *)
(*   probe   AppServer of test-windows-cli-runtime.py, which the trials    *)
(*           also use to trust their hooks: a reader thread fills a queue, *)
(*           a request has one deadline                                    *)
(*   edge    call() of test-codex-edge-runtime.py: each line has a         *)
(*           timeout, requests of the server are answered                  *)
(*   bridge  read_until() of test-desktop-bridge.py: each line has a       *)
(*           timeout, at most so many lines are read                       *)
(*                                                                         *)
(* The server answers, reports errors, notifies, asks with ids of its own, *)
(* prints what is not JSON, exits, hangs, and may ignore a closed stdin.   *)
(***************************************************************************)
EXTENDS Integers, Sequences

CONSTANTS
    Script,   (* each client's calls: "result" or "error" is expected      *)
    MaxInbox, (* bound: messages under way to the client                   *)
    MaxReads, (* lines read_until() reads                                  *)
    None

Clients == {"probe", "edge", "bridge"}

ASSUME RpcAssumption ==
    /\ Script \in [Clients -> Seq({"result", "error"})] /\ MaxInbox \in Nat \ {0} /\ MaxReads \in Nat \ {0}
    /\ None \notin Nat

VARIABLES
    client,
    pc,      (* the client                                                 *)
    serial,  (* the id of its last request                                 *)
    due,     (* its deadline is over                                       *)
    reads,   (* lines read for this request                                *)
    failed,  (* the session raised                                         *)
    server,  (* the server process                                         *)
    stdin,   (* its stdin is open                                          *)
    asked,   (* the request it has not answered, or None                   *)
    inbox,   (* messages under way to the client                           *)
    broken   (* nothing more comes through: not JSON, or end of file       *)

VARIABLE answers   (* history: how the server answered each request        *)

session == <<pc, serial, due, reads, failed>>
process == <<server, stdin, asked, broken, answers>>
vars == <<client, session, process, inbox>>

Calls == Script[client]
Ids == 1..Len(Calls) + 1
Message == [kind : {"result", "error", "notify", "request", "roots", "bad", "eof"}, id : Ids]
Msg(kind, id) == [kind |-> kind, id |-> id]

TypeOK ==
    /\ client \in Clients
    /\ pc \in {"send", "wait", "close", "waitexit", "ended"}
    /\ serial \in 0..Len(Calls) /\ reads \in 0..MaxReads
    /\ due \in BOOLEAN /\ failed \in BOOLEAN /\ stdin \in BOOLEAN /\ broken \in BOOLEAN
    /\ server \in {"running", "exited", "killed"} /\ asked \in {None} \cup 1..Len(Calls)
    /\ inbox \in Seq(Message) /\ Len(inbox) <= MaxInbox + 2
    /\ answers \in Seq({"result", "error"}) /\ Len(answers) <= serial

Init ==
    /\ client \in Clients
    /\ pc = "send" /\ serial = 0 /\ due = FALSE /\ reads = 0 /\ failed = FALSE
    /\ server = "running" /\ stdin = TRUE /\ asked = None /\ broken = FALSE
    /\ inbox = <<>> /\ answers = <<>>

-----------------------------------------------------------------------------
(* The server.  Once a line is not JSON the probe's reader gives up: it    *)
(* puts the error and then the end of file (_read); the others read on     *)
(* their own and fail on the line itself.                                  *)
Emits(m) ==
    inbox' = IF broken \/ Len(inbox) >= MaxInbox THEN inbox ELSE Append(inbox, m)

Reply(kind) ==
    /\ server = "running" /\ asked # None /\ Len(inbox) < MaxInbox
    /\ Emits(Msg(kind, asked)) /\ asked' = None /\ answers' = Append(answers, kind)
    /\ UNCHANGED <<client, session, server, stdin, broken>>

Chatter ==
    /\ server = "running" /\ Len(inbox) < MaxInbox
    /\ \/ Emits(Msg("notify", 1))
       \/ \E id \in Ids : Emits(Msg("request", id)) \/ Emits(Msg("roots", id))
    /\ UNCHANGED <<client, session, process>>

Garbage ==
    /\ server = "running" /\ ~broken /\ Len(inbox) < MaxInbox
    /\ broken' = (client = "probe")
    /\ inbox' = inbox \o (IF client = "probe" THEN <<Msg("bad", 1), Msg("eof", 1)>> ELSE <<Msg("bad", 1)>>)
    /\ UNCHANGED <<client, session, server, stdin, asked, answers>>

Closes == inbox' = IF broken THEN inbox ELSE Append(inbox, Msg("eof", 1))

Exit ==
    /\ server = "running" /\ server' = "exited" /\ broken' = TRUE /\ Closes
    /\ UNCHANGED <<client, session, stdin, asked, answers>>

-----------------------------------------------------------------------------
(* The client. *)
Raise == failed' = TRUE /\ pc' = "close"
Take == inbox' = Tail(inbox)

Send ==
    /\ pc = "send" /\ serial < Len(Calls)
    /\ IF server = "running"
       THEN /\ serial' = serial + 1 /\ asked' = serial + 1 /\ due' = FALSE /\ reads' = 0
            /\ pc' = "wait" /\ failed' = failed
       ELSE Raise /\ UNCHANGED <<serial, asked, due, reads>>
    /\ UNCHANGED <<client, server, stdin, broken, answers, inbox>>

Finish ==
    /\ pc = "send" /\ serial = Len(Calls) /\ pc' = "close"
    /\ UNCHANGED <<client, serial, due, reads, failed, process, inbox>>

(* What a message is to the request that waits: its answer, something the  *)
(* client handles or passes over, or a reason to raise.  To the probe a     *)
(* request of the server with the same id is a reason; the bridge's ids    *)
(* are names the server does not use, and Edge's client answers roots/list.*)
Replies == {"result", "error"}
AnyWithItsId(m) == m.id = serial /\ m.kind \in {Calls[serial], "request"}
IsAnswer(m) == m.id = serial /\ m.kind = Calls[serial]
Wrong(m) ==
    \/ m.kind \in {"bad", "eof"}
    \/ m.kind \in Replies /\ m.id = serial /\ ~IsAnswer(m)
    \/ client = "probe" /\ m.kind \in {"request", "roots"} /\ m.id = serial
    \/ client = "edge" /\ m.kind = "request"

(* The probe's deadline is not moved by a message that is passed over; a   *)
(* line's timeout starts again with every line, and read_until() counts.   *)
GivesUpInSilence == client = "bridge" /\ reads + 1 >= MaxReads
GivesUp == \/ client = "probe" /\ due
           \/ client = "bridge" /\ reads + 1 >= MaxReads

Receive ==
    /\ pc = "wait" /\ inbox # <<>> /\ Take
    /\ LET m == Head(inbox) IN
       IF IsAnswer(m) THEN pc' = "send" /\ UNCHANGED <<failed, due, reads>>
       ELSE IF Wrong(m) \/ GivesUp THEN Raise /\ UNCHANGED <<due, reads>>
       ELSE /\ due' = (client = "probe" /\ due)
            /\ reads' = IF client = "bridge" THEN reads + 1 ELSE reads
            /\ UNCHANGED <<pc, failed>>
    /\ UNCHANGED <<client, serial, process>>

(* Time passes; a line's timeout runs only while no line is there. *)
Tick ==
    /\ pc = "wait" /\ ~due /\ (client = "probe" \/ inbox = <<>>)
    /\ due' = TRUE
    /\ UNCHANGED <<client, pc, serial, reads, failed, process, inbox>>

TimesOut ==
    /\ pc = "wait" /\ due /\ inbox = <<>> /\ Raise
    /\ UNCHANGED <<client, serial, due, reads, process, inbox>>

(* close(): stdin is closed and the process awaited; the probe kills one   *)
(* that stays, Edge's check kills it and raises, the bridge's only raises; *)
(* these two also want its exit code to be zero.                           *)
Close ==
    /\ pc = "close" /\ stdin' = FALSE /\ pc' = "waitexit"
    /\ UNCHANGED <<client, serial, due, reads, failed, server, asked, broken, answers, inbox>>

Exited ==
    /\ pc = "waitexit" /\ server # "running" /\ pc' = "ended"
    /\ failed' \in {failed, failed \/ client # "probe"}
    /\ UNCHANGED <<client, serial, due, reads, process, inbox>>

KillsEdge == client = "edge"
Kills == client # "bridge"

Lingers ==
    /\ pc = "waitexit" /\ server = "running" /\ pc' = "ended"
    /\ server' = IF Kills THEN "killed" ELSE server
    /\ failed' = (failed \/ client # "probe")
    /\ UNCHANGED <<client, serial, due, reads, stdin, asked, broken, answers, inbox>>

ClientStep == Send \/ Finish \/ Receive \/ TimesOut \/ Close \/ Exited \/ Lingers
Next == Reply("result") \/ Reply("error") \/ Chatter \/ Garbage \/ Exit \/ Tick \/ ClientStep

Spec == Init /\ [][Next]_vars

(* The client goes on and its clock runs; nothing is asked of the server.  *)
FairSpec == Spec /\ WF_vars(ClientStep) /\ WF_vars(Tick)

-----------------------------------------------------------------------------
(* A session that does not raise had every one of its requests answered by *)
(* the server in the way the script expects, whatever else came meanwhile  *)
(* with the same ids (test-windows-cli-runtime.py:52).                     *)
AnswersAreOwn == pc \in {"close", "waitexit", "ended"} /\ ~failed => answers = Calls

(* However long the server talks without answering, a session of the probe *)
(* or of the bridge's check ends (test-windows-cli-runtime.py:46); each    *)
(* line starts the timeout of Edge's again.                                *)
SessionsEnd == client # "edge" => <>(pc = "ended")

(* No client leaves its server behind, but for the bridge's check, which   *)
(* then fails (test-windows-cli-runtime.py:64).                            *)
NoServerLeft == pc = "ended" /\ server = "running" => client = "bridge" /\ failed

(* Sessions stay well formed and hold what AnswersAreOwn says              *)
(* (test-windows-cli-runtime.py:41).                                       *)
SoundSession == TypeOK /\ AnswersAreOwn
=============================================================================
