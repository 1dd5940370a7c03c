-------------------------- MODULE RpcSessionProofs --------------------------
(***************************************************************************)
(* Proofs about the RPC clients, for any script of calls and any number of *)
(* messages under way.                                                     *)
(***************************************************************************)
EXTENDS RpcSession, TLAPS

(* TypeOK in two parts: what is true or false, and everything else. *)
Flags == due \in BOOLEAN /\ failed \in BOOLEAN /\ stdin \in BOOLEAN /\ broken \in BOOLEAN
Plain ==
    /\ client \in Clients /\ pc \in {"send", "wait", "close", "waitexit", "ended"}
    /\ serial \in 0..Len(Calls) /\ reads \in 0..MaxReads
    /\ server \in {"running", "exited", "killed"} /\ asked \in {None} \cup 1..Len(Calls)
    /\ inbox \in Seq(Message) /\ answers \in Seq({"result", "error"})

(* Only what ends the stream may exceed the bound. *)
Room == Len(inbox) <= MaxInbox + 2 /\ (~broken => Len(inbox) <= MaxInbox)

(* The server answers each request once, the last one perhaps not yet. *)
Answered ==
    /\ asked = None => Len(answers) = serial
    /\ asked # None => asked = serial /\ Len(answers) = serial - 1

(* Every reply under way is the answer the server gave to that request. *)
RepliesAreTrue == \A i \in 1..Len(inbox) : inbox[i].kind \in Replies =>
    inbox[i].id \in 1..Len(answers) /\ answers[inbox[i].id] = inbox[i].kind

(* What the client went past was answered as expected. *)
AsExpected(n) == \A i \in 1..n : answers[i] = Calls[i]
Progress ==
    /\ pc = "send" => asked = None /\ AsExpected(serial)
    /\ pc = "wait" => serial # 0 /\ AsExpected(serial - 1)
    /\ pc \in {"close", "waitexit", "ended"} /\ ~failed =>
           serial = Len(Calls) /\ asked = None /\ AsExpected(serial)

SessionInv == Flags /\ Plain /\ Room /\ Answered /\ RepliesAreTrue /\ Progress /\ NoServerLeft
-----------------------------------------------------------------------------
LEMMA AppendFacts ==
    ASSUME NEW S, NEW s \in Seq(S), NEW e \in S
    PROVE  /\ Append(s, e) \in Seq(S) /\ Len(Append(s, e)) = Len(s) + 1
           /\ \A i \in 1..Len(s) : Append(s, e)[i] = s[i]
           /\ Append(s, e)[Len(s) + 1] = e
  OBVIOUS

LEMMA TwoMore ==
    ASSUME NEW S, NEW s \in Seq(S), NEW d \in S, NEW e \in S
    PROVE  /\ s \o <<d, e>> \in Seq(S) /\ Len(s \o <<d, e>>) = Len(s) + 2
           /\ \A i \in 1..Len(s) : (s \o <<d, e>>)[i] = s[i]
           /\ (s \o <<d, e>>)[Len(s) + 1] = d /\ (s \o <<d, e>>)[Len(s) + 2] = e
  OBVIOUS

LEMMA OneMore ==
    ASSUME NEW S, NEW s \in Seq(S), NEW e \in S
    PROVE  /\ s \o <<e>> \in Seq(S) /\ Len(s \o <<e>>) = Len(s) + 1
           /\ \A i \in 1..Len(s) : (s \o <<e>>)[i] = s[i]
           /\ (s \o <<e>>)[Len(s) + 1] = e
  OBVIOUS

LEMMA TailFacts ==
    ASSUME NEW S, NEW s \in Seq(S), s # <<>>
    PROVE  /\ Head(s) \in S /\ Head(s) = s[1] /\ Len(s) # 0
           /\ Tail(s) \in Seq(S) /\ Len(Tail(s)) = Len(s) - 1
           /\ \A i \in 1..Len(Tail(s)) : Tail(s)[i] = s[i + 1]
  OBVIOUS

LEMMA SameSequence ==
    ASSUME NEW S, NEW s \in Seq(S), NEW t \in Seq(S), Len(s) = Len(t), \A i \in 1..Len(s) : s[i] = t[i]
    PROVE  s = t
  OBVIOUS

LEMMA CallsType == Plain => Calls \in Seq({"result", "error"}) /\ Len(Calls) \in Nat
  BY RpcAssumption DEF Plain, Calls

LEMMA MsgType ==
    ASSUME NEW kind \in {"result", "error", "notify", "request", "roots", "bad", "eof"}, NEW id \in Ids
    PROVE  /\ Msg(kind, id) \in Message /\ Msg(kind, id).kind = kind /\ Msg(kind, id).id = id
  BY DEF Msg, Message

LEMMA IdsFacts == Plain => 1 \in Ids /\ (asked # None => asked \in Ids)
  BY CallsType DEF Plain, Ids

LEMMA SessionInit == Init => SessionInv
<1> SUFFICES ASSUME Init PROVE SessionInv
  OBVIOUS
<1>1. Flags
  BY ZenonT(30) DEF Init, Flags
<1>2. Plain
  BY RpcAssumption DEF Init, Plain, Calls
<1>3. Room /\ Answered /\ RepliesAreTrue /\ Progress /\ NoServerLeft
  BY RpcAssumption DEF Init, Room, Answered, RepliesAreTrue, Progress, AsExpected, NoServerLeft
<1>4. QED
  BY <1>1, <1>2, <1>3 DEF SessionInv

LEMMA FlagsStep == SessionInv /\ [Next]_vars => Flags'
<1> SUFFICES ASSUME SessionInv, [Next]_vars PROVE Flags'
  OBVIOUS
<1>0. Flags
  BY DEF SessionInv
<1> USE DEF vars, session, process, Flags
<1>1. CASE Reply("result")
  BY <1>0, <1>1, Zenon DEF Reply, Emits
<1>2. CASE Reply("error")
  BY <1>0, <1>2, Zenon DEF Reply, Emits
<1>3. CASE Chatter
  BY <1>0, <1>3, Zenon DEF Chatter, Emits
<1>4. CASE Garbage
  BY <1>0, <1>4, Zenon DEF Garbage
<1>5. CASE Exit
  BY <1>0, <1>5, Zenon DEF Exit, Closes
<1>6. CASE Tick
  BY <1>0, <1>6, Zenon DEF Tick
<1>7. CASE Send
  BY <1>0, <1>7, Zenon DEF Send, Raise
<1>8. CASE Finish
  BY <1>0, <1>8, Zenon DEF Finish
<1>9. CASE Receive
  BY <1>0, <1>9, Zenon DEF Receive, Raise, Take
<1>10. CASE TimesOut
  BY <1>0, <1>10, Zenon DEF TimesOut, Raise
<1>11. CASE Close
  BY <1>0, <1>11, Zenon DEF Close
<1>12. CASE Exited
  BY <1>0, <1>12, Zenon DEF Exited
<1>13. CASE Lingers
  BY <1>0, <1>13, Zenon DEF Lingers, Kills
<1>14. CASE UNCHANGED vars
  BY <1>0, <1>14, Zenon
<1>15. QED
  BY <1>1, <1>2, <1>3, <1>4, <1>5, <1>6, <1>7, <1>8, <1>9, <1>10, <1>11, <1>12, <1>13, <1>14
     DEF Next, ClientStep

(* What a step does to the messages under way: at most two more at the     *)
(* end, replies only as the answer just given, or one fewer in front.      *)
More(k) ==
    /\ inbox' \in Seq(Message) /\ Len(inbox') = Len(inbox) + k
    /\ \A i \in 1..Len(inbox) : inbox'[i] = inbox[i]

LEMMA Emitted ==
    ASSUME Plain, NEW m \in Message, Emits(m)
    PROVE  \/ inbox' = inbox
           \/ More(1) /\ ~broken /\ Len(inbox) < MaxInbox /\ inbox'[Len(inbox) + 1] = m
  BY AppendFacts, RpcAssumption DEF Plain, Emits, More

(* Which calls there are never changes. *)
LEMMA SameCalls == [Next]_vars => Calls' = Calls /\ Ids' = Ids /\ Message' = Message
<1>1. [Next]_vars => client' = client
  BY DEF Next, ClientStep, vars, session, process, Reply, Chatter, Garbage, Exit, Tick, Send,
     Finish,
         Receive, TimesOut, Close, Exited, Lingers
<1>2. QED
  BY <1>1 DEF Calls, Ids, Message

LEMMA Closed ==
    ASSUME Plain, Closes
    PROVE  \/ broken /\ inbox' = inbox
           \/ ~broken /\ More(1) /\ inbox'[Len(inbox) + 1] = Msg("eof", 1)
<1>1. Msg("eof", 1) \in Message
  BY IdsFacts, MsgType
<1>2. QED
  BY <1>1, AppendFacts DEF Plain, Closes, More

LEMMA PlainStep == SessionInv /\ [Next]_vars => Plain'
<1> SUFFICES ASSUME SessionInv, [Next]_vars PROVE Plain'
  OBVIOUS
<1>0. Plain
  BY DEF SessionInv
<1>S. Calls' = Calls /\ Message' = Message
  BY SameCalls
<1> USE DEF vars, session, process, Plain
<1>1. CASE Reply("result")
  <2>1. Msg("result", asked) \in Message /\ Emits(Msg("result", asked))
    BY <1>0, <1>S, <1>1, IdsFacts, MsgType DEF Reply
  <2>2. inbox' \in Seq(Message)
    BY <1>0, <1>S, <2>1, Emitted DEF Plain, More
  <2>3. answers' \in Seq({"result", "error"})
    BY <1>0, <1>S, <1>1, AppendFacts DEF Plain, Reply
  <2>4. QED
    BY <1>0, <1>S, <1>1, <2>2, <2>3 DEF Plain, Reply
<1>2. CASE Reply("error")
  <2>1. Msg("error", asked) \in Message /\ Emits(Msg("error", asked))
    BY <1>0, <1>S, <1>2, IdsFacts, MsgType DEF Reply
  <2>2. inbox' \in Seq(Message)
    BY <1>0, <1>S, <2>1, Emitted DEF Plain, More
  <2>3. answers' \in Seq({"result", "error"})
    BY <1>0, <1>S, <1>2, AppendFacts DEF Plain, Reply
  <2>4. QED
    BY <1>0, <1>S, <1>2, <2>2, <2>3 DEF Plain, Reply
<1>3. CASE Chatter
  <2>1. \E m \in Message : Emits(m)
    BY <1>0, <1>S, <1>3, IdsFacts, MsgType DEF Chatter
  <2>2. inbox' \in Seq(Message)
    BY <1>0, <1>S, <2>1, Emitted DEF Plain, More
  <2>3. QED
    BY <1>0, <1>S, <1>3, <2>2 DEF Plain, Chatter
<1>4. CASE Garbage
  <2>1. Msg("bad", 1) \in Message /\ Msg("eof", 1) \in Message
    BY <1>0, IdsFacts, MsgType
  <2>2. inbox' \in Seq(Message)
    BY <1>0, <1>S, <1>4, <2>1, OneMore, TwoMore DEF Plain, Garbage
  <2>3. QED
    BY <1>0, <1>S, <1>4, <2>2 DEF Plain, Garbage
<1>5. CASE Exit
  <2>1. inbox' \in Seq(Message)
    BY <1>0, <1>S, <1>5, Closed DEF Plain, Exit, More
  <2>2. QED
    BY <1>0, <1>S, <1>5, <2>1 DEF Plain, Exit
<1>6. CASE Tick
  BY <1>0, <1>S, <1>6 DEF Tick
<1>7. CASE Send
  BY <1>0, <1>S, <1>7, CallsType, RpcAssumption DEF Plain, Send, Raise
<1>8. CASE Finish
  BY <1>0, <1>S, <1>8 DEF Finish
<1>9. CASE Receive
  <2>1. inbox' \in Seq(Message)
    BY <1>0, <1>S, <1>9, TailFacts DEF Plain, Receive, Take
  <2>2. reads' \in 0..MaxReads
    BY <1>0, <1>S, <1>9, RpcAssumption DEF Plain, Receive, GivesUp
  <2>3. pc' \in {"send", "wait", "close"}
    BY <1>0, <1>S, <1>9 DEF Receive, Raise
  <2>4. QED
    BY <1>0, <1>S, <1>9, <2>1, <2>2, <2>3 DEF Plain, Receive
<1>10. CASE TimesOut
  BY <1>0, <1>S, <1>10 DEF TimesOut, Raise
<1>11. CASE Close
  BY <1>0, <1>S, <1>11 DEF Close
<1>12. CASE Exited
  BY <1>0, <1>S, <1>12 DEF Exited
<1>13. CASE Lingers
  BY <1>0, <1>S, <1>13 DEF Lingers, Kills
<1>14. CASE UNCHANGED vars
  BY <1>0, <1>S, <1>14
<1>15. QED
  BY <1>1, <1>2, <1>3, <1>4, <1>5, <1>6, <1>7, <1>8, <1>9, <1>10, <1>11, <1>12, <1>13, <1>14
     DEF Next, ClientStep

LEMMA RoomStep == SessionInv /\ [Next]_vars => Room'
<1> SUFFICES ASSUME SessionInv, [Next]_vars PROVE Room'
  OBVIOUS
<1>0. Plain /\ Room
  BY DEF SessionInv
<1> USE DEF vars, session, process, Room
<1>1. CASE Reply("result")
  <2>1. Msg("result", asked) \in Message /\ Emits(Msg("result", asked))
    BY <1>0, <1>1, IdsFacts, MsgType DEF Reply
  <2>2. QED
    BY <1>0, <1>1, <2>1, Emitted, RpcAssumption DEF Room, Reply, Plain, More
<1>2. CASE Reply("error")
  <2>1. Msg("error", asked) \in Message /\ Emits(Msg("error", asked))
    BY <1>0, <1>2, IdsFacts, MsgType DEF Reply
  <2>2. QED
    BY <1>0, <1>2, <2>1, Emitted, RpcAssumption DEF Room, Reply, Plain, More
<1>3. CASE Chatter
  <2>1. \E m \in Message : Emits(m)
    BY <1>0, <1>3, IdsFacts, MsgType DEF Chatter
  <2>2. QED
    BY <1>0, <1>3, <2>1, Emitted, RpcAssumption DEF Room, Chatter, Plain, More
<1>4. CASE Garbage
  <2>1. Msg("bad", 1) \in Message /\ Msg("eof", 1) \in Message
    BY <1>0, IdsFacts, MsgType
  <2>2. Len(inbox') <= Len(inbox) + 2 /\ (client # "probe" => Len(inbox') = Len(inbox) + 1)
    BY <1>0, <1>4, <2>1, OneMore, TwoMore DEF Plain, Garbage
  <2>3. Len(inbox') \in Nat
    BY <1>0, <1>4, <2>1, OneMore, TwoMore DEF Plain, Garbage
  <2>4. ~broken /\ Len(inbox) <= MaxInbox /\ Len(inbox) < MaxInbox
    BY <1>0, <1>4 DEF Room, Garbage
  <2>5. CASE client = "probe"
    <3>1. broken'
      BY <1>4, <2>5 DEF Garbage
    <3>2. QED
      BY <1>0, <3>1, <2>2, <2>3, <2>4, RpcAssumption DEF Room, Plain
  <2>6. CASE client # "probe"
    BY <1>0, <2>6, <2>2, <2>3, <2>4, RpcAssumption DEF Room, Plain
  <2>7. QED
    BY <2>5, <2>6
<1>5. CASE Exit
  BY <1>0, <1>5, Closed, RpcAssumption DEF Room, Exit, Plain, More
<1>6. CASE Tick
  BY <1>0, <1>6 DEF Tick
<1>7. CASE Send
  BY <1>0, <1>7 DEF Send, Raise
<1>8. CASE Finish
  BY <1>0, <1>8 DEF Finish
<1>9. CASE Receive
  BY <1>0, <1>9, TailFacts, RpcAssumption DEF Room, Receive, Take, Plain
<1>10. CASE TimesOut
  BY <1>0, <1>10 DEF TimesOut, Raise
<1>11. CASE Close
  BY <1>0, <1>11 DEF Close
<1>12. CASE Exited
  BY <1>0, <1>12 DEF Exited
<1>13. CASE Lingers
  BY <1>0, <1>13 DEF Lingers, Kills
<1>14. CASE UNCHANGED vars
  BY <1>0, <1>14
<1>15. QED
  BY <1>1, <1>2, <1>3, <1>4, <1>5, <1>6, <1>7, <1>8, <1>9, <1>10, <1>11, <1>12, <1>13, <1>14
     DEF Next, ClientStep

LEMMA AnsweredStep == SessionInv /\ [Next]_vars => Answered'
<1> SUFFICES ASSUME SessionInv, [Next]_vars PROVE Answered'
  OBVIOUS
<1>0. Plain /\ Answered /\ Progress
  BY DEF SessionInv
<1> USE DEF vars, session, process, Plain, Answered
<1>1. CASE Reply("result")
  BY <1>0, <1>1, AppendFacts, CallsType DEF Reply
<1>2. CASE Reply("error")
  BY <1>0, <1>2, AppendFacts, CallsType DEF Reply
<1>3. CASE Chatter
  BY <1>0, <1>3 DEF Chatter, Emits
<1>4. CASE Garbage
  BY <1>0, <1>4 DEF Garbage
<1>5. CASE Exit
  BY <1>0, <1>5 DEF Exit, Closes
<1>6. CASE Tick
  BY <1>0, <1>6 DEF Tick
<1>7. CASE Send
  BY <1>0, <1>7, CallsType, RpcAssumption DEF Send, Progress, Raise
<1>8. CASE Finish
  BY <1>0, <1>8 DEF Finish
<1>9. CASE Receive
  BY <1>0, <1>9 DEF Receive, Raise, Take
<1>10. CASE TimesOut
  BY <1>0, <1>10 DEF TimesOut, Raise
<1>11. CASE Close
  BY <1>0, <1>11 DEF Close
<1>12. CASE Exited
  BY <1>0, <1>12 DEF Exited
<1>13. CASE Lingers
  BY <1>0, <1>13 DEF Lingers, Kills
<1>14. CASE UNCHANGED vars
  BY <1>0, <1>14
<1>15. QED
  BY <1>1, <1>2, <1>3, <1>4, <1>5, <1>6, <1>7, <1>8, <1>9, <1>10, <1>11, <1>12, <1>13, <1>14
     DEF Next, ClientStep

LEMMA RepliesStep == SessionInv /\ [Next]_vars => RepliesAreTrue'
<1> SUFFICES ASSUME SessionInv, [Next]_vars PROVE RepliesAreTrue'
  OBVIOUS
<1>0. Plain /\ Answered /\ RepliesAreTrue
  BY DEF SessionInv
<1>1. CASE Reply("result")
  <2>1. Msg("result", asked) \in Message /\ Emits(Msg("result", asked)) /\ Msg("result", asked).id = asked
    BY <1>0, <1>1, IdsFacts, MsgType DEF Reply
  <2>2. /\ Len(answers') = Len(answers) + 1 /\ answers'[Len(answers) + 1] = "result"
        /\ \A i \in 1..Len(answers) : answers'[i] = answers[i]
    BY <1>0, <1>1, AppendFacts DEF Plain, Reply
  <2>3. asked = Len(answers) + 1 /\ Len(answers) \in Nat
    BY <1>0, <1>1 DEF Plain, Answered, Reply
  <2>4. Msg("result", asked).kind = "result"
    BY DEF Msg
  <2>5. \A i \in 1..Len(inbox') : inbox'[i] = Msg("result", asked) \/ (i \in 1..Len(inbox) /\ inbox'[i] = inbox[i])
    BY <1>0, <2>1, Emitted DEF Plain, More
  <2>6. ASSUME NEW i \in 1..Len(inbox'), inbox'[i].kind \in Replies
        PROVE  inbox'[i].id \in 1..Len(answers') /\ answers'[inbox'[i].id] = inbox'[i].kind
    <3>1. CASE inbox'[i] = Msg("result", asked)
      BY <2>1, <2>2, <2>3, <2>4, <3>1
    <3>2. CASE i \in 1..Len(inbox) /\ inbox'[i] = inbox[i]
      BY <1>0, <2>2, <2>3, <2>6, <3>2 DEF RepliesAreTrue
    <3>3. QED
      BY <2>5, <3>1, <3>2
  <2>7. QED
    BY <2>6 DEF RepliesAreTrue
<1>2. CASE Reply("error")
  <2>1. Msg("error", asked) \in Message /\ Emits(Msg("error", asked)) /\ Msg("error", asked).id = asked
    BY <1>0, <1>2, IdsFacts, MsgType DEF Reply
  <2>2. /\ Len(answers') = Len(answers) + 1 /\ answers'[Len(answers) + 1] = "error"
        /\ \A i \in 1..Len(answers) : answers'[i] = answers[i]
    BY <1>0, <1>2, AppendFacts DEF Plain, Reply
  <2>3. asked = Len(answers) + 1 /\ Len(answers) \in Nat
    BY <1>0, <1>2 DEF Plain, Answered, Reply
  <2>4. Msg("error", asked).kind = "error"
    BY DEF Msg
  <2>5. \A i \in 1..Len(inbox') : inbox'[i] = Msg("error", asked) \/ (i \in 1..Len(inbox) /\ inbox'[i] = inbox[i])
    BY <1>0, <2>1, Emitted DEF Plain, More
  <2>6. ASSUME NEW i \in 1..Len(inbox'), inbox'[i].kind \in Replies
        PROVE  inbox'[i].id \in 1..Len(answers') /\ answers'[inbox'[i].id] = inbox'[i].kind
    <3>1. CASE inbox'[i] = Msg("error", asked)
      BY <2>1, <2>2, <2>3, <2>4, <3>1
    <3>2. CASE i \in 1..Len(inbox) /\ inbox'[i] = inbox[i]
      BY <1>0, <2>2, <2>3, <2>6, <3>2 DEF RepliesAreTrue
    <3>3. QED
      BY <2>5, <3>1, <3>2
  <2>7. QED
    BY <2>6 DEF RepliesAreTrue
<1>3. CASE Chatter
  <2>1. \E m \in Message : Emits(m) /\ m.kind \notin Replies
    BY <1>0, <1>3, IdsFacts, MsgType DEF Chatter, Replies
  <2>2. answers' = answers
    BY <1>3 DEF Chatter, process
  <2>3. QED
    BY <1>0, <2>1, <2>2, Emitted DEF Plain, RepliesAreTrue, More
<1>4. CASE Garbage
  <2>1. /\ Msg("bad", 1) \in Message /\ Msg("eof", 1) \in Message
        /\ Msg("bad", 1).kind \notin Replies /\ Msg("eof", 1).kind \notin Replies
    BY <1>0, IdsFacts, MsgType DEF Replies
  <2>2. answers' = answers
    BY <1>4 DEF Garbage
  <2>3. CASE client = "probe"
    BY <1>0, <1>4, <2>1, <2>2, <2>3, TwoMore DEF Plain, RepliesAreTrue, Garbage
  <2>4. CASE client # "probe"
    BY <1>0, <1>4, <2>1, <2>2, <2>4, OneMore DEF Plain, RepliesAreTrue, Garbage
  <2>5. QED
    BY <2>3, <2>4
<1>5. CASE Exit
  <2>1. Msg("eof", 1).kind \notin Replies
    BY <1>0, IdsFacts, MsgType DEF Replies
  <2>2. answers' = answers
    BY <1>5 DEF Exit
  <2>3. QED
    BY <1>0, <1>5, <2>1, <2>2, Closed DEF Plain, RepliesAreTrue, Exit, More
<1>6. CASE Tick
  BY <1>0, <1>6 DEF Tick, process, RepliesAreTrue
<1>7. CASE Send
  BY <1>0, <1>7 DEF Send, process, RepliesAreTrue
<1>8. CASE Finish
  BY <1>0, <1>8 DEF Finish, process, RepliesAreTrue
<1>9. CASE Receive
  BY <1>0, <1>9, TailFacts DEF Plain, RepliesAreTrue, Receive, Take, process
<1>10. CASE TimesOut
  BY <1>0, <1>10 DEF TimesOut, process, RepliesAreTrue
<1>11. CASE Close
  BY <1>0, <1>11 DEF Close, process, RepliesAreTrue
<1>12. CASE Exited
  BY <1>0, <1>12 DEF Exited, process, RepliesAreTrue
<1>13. CASE Lingers
  BY <1>0, <1>13 DEF Lingers, process, RepliesAreTrue
<1>14. CASE UNCHANGED vars
  BY <1>0, <1>14 DEF vars, process, RepliesAreTrue
<1>15. QED
  BY <1>1, <1>2, <1>3, <1>4, <1>5, <1>6, <1>7, <1>8, <1>9, <1>10, <1>11, <1>12, <1>13, <1>14
     DEF Next, ClientStep

LEMMA ProgressStep == SessionInv /\ [Next]_vars => Progress'
<1> SUFFICES ASSUME SessionInv, [Next]_vars PROVE Progress'
  OBVIOUS
<1>0. Plain /\ Answered /\ RepliesAreTrue /\ Progress
  BY DEF SessionInv
<1> USE DEF vars, session, process, Progress, AsExpected, Calls
<1>1. CASE Reply("result")
  <2>1. /\ Len(answers') = Len(answers) + 1 /\ \A i \in 1..Len(answers) : answers'[i] = answers[i]
    BY <1>0, <1>1, AppendFacts DEF Plain, Reply
  <2>2. asked # None /\ asked = serial /\ Len(answers) = serial - 1 /\ serial \in Nat
    BY <1>0, <1>1 DEF Plain, Answered, Reply
  <2>3. pc' = pc /\ failed' = failed /\ serial' = serial /\ Calls' = Calls
    BY <1>1 DEF Reply, session, Calls
  <2>4. QED
    BY <1>0, <2>1, <2>2, <2>3 DEF Plain, Progress, AsExpected
<1>2. CASE Reply("error")
  <2>1. /\ Len(answers') = Len(answers) + 1 /\ \A i \in 1..Len(answers) : answers'[i] = answers[i]
    BY <1>0, <1>2, AppendFacts DEF Plain, Reply
  <2>2. asked # None /\ asked = serial /\ Len(answers) = serial - 1 /\ serial \in Nat
    BY <1>0, <1>2 DEF Plain, Answered, Reply
  <2>3. pc' = pc /\ failed' = failed /\ serial' = serial /\ Calls' = Calls
    BY <1>2 DEF Reply, session, Calls
  <2>4. QED
    BY <1>0, <2>1, <2>2, <2>3 DEF Plain, Progress, AsExpected
<1>3. CASE Chatter
  BY <1>0, <1>3 DEF Chatter, Emits
<1>4. CASE Garbage
  BY <1>0, <1>4 DEF Garbage
<1>5. CASE Exit
  BY <1>0, <1>5 DEF Exit, Closes
<1>6. CASE Tick
  BY <1>0, <1>6 DEF Tick
<1>7. CASE Send
  BY <1>0, <1>7, CallsType DEF Plain, Progress, AsExpected, Calls, Send, Raise
<1>8. CASE Finish
  BY <1>0, <1>8, CallsType DEF Plain, Progress, AsExpected, Calls, Finish, process
<1>9. CASE Receive
  <2>1. CASE IsAnswer(Head(inbox))
    <3>1. /\ Head(inbox) = inbox[1] /\ 1 \in 1..Len(inbox) /\ pc = "wait"
      BY <1>0, <1>9, TailFacts DEF Plain, Receive
    <3>2. serial # 0 /\ serial \in 1..Len(Calls) /\ AsExpected(serial - 1)
      BY <1>0, <3>1, CallsType DEF Plain, Progress
    <3>3. Calls[serial] \in Replies
      BY <1>0, <3>2, CallsType DEF Replies
    <3>4. serial \in 1..Len(answers) /\ answers[serial] = Calls[serial]
      BY <1>0, <2>1, <3>1, <3>3 DEF RepliesAreTrue, IsAnswer
    <3>5. asked = None
      BY <1>0, <3>2, <3>4 DEF Plain, Answered
    <3>6. AsExpected(serial)
      BY <3>2, <3>4, CallsType DEF AsExpected
    <3>7. pc' = "send" /\ serial' = serial /\ asked' = asked /\ answers' = answers /\ Calls' = Calls
      BY <1>9, <2>1 DEF Receive, process, Calls
    <3>8. QED
      BY <3>5, <3>6, <3>7 DEF Progress, AsExpected
  <2>2. CASE ~IsAnswer(Head(inbox))
    <3>1. /\ (pc' = "close" /\ failed' = TRUE) \/ (pc' = pc /\ failed' = failed)
          /\ serial' = serial /\ asked' = asked /\ answers' = answers /\ Calls' = Calls
      BY <1>9, <2>2 DEF Receive, Raise, process, Calls
    <3>2. QED
      BY <1>0, <3>1 DEF Progress, AsExpected
  <2>3. QED
    BY <2>1, <2>2
<1>10. CASE TimesOut
  BY <1>0, <1>10 DEF TimesOut, Raise
<1>11. CASE Close
  BY <1>0, <1>11 DEF Close
<1>12. CASE Exited
  BY <1>0, <1>12 DEF Exited
<1>13. CASE Lingers
  BY <1>0, <1>13 DEF Lingers, Kills
<1>14. CASE UNCHANGED vars
  BY <1>0, <1>14
<1>15. QED
  BY <1>1, <1>2, <1>3, <1>4, <1>5, <1>6, <1>7, <1>8, <1>9, <1>10, <1>11, <1>12, <1>13, <1>14
     DEF Next, ClientStep

LEMMA ServerStep == SessionInv /\ [Next]_vars => NoServerLeft'
<1> SUFFICES ASSUME SessionInv, [Next]_vars PROVE NoServerLeft'
  OBVIOUS
<1>0. Plain /\ NoServerLeft
  BY DEF SessionInv
<1> USE DEF vars, session, process, NoServerLeft
<1>1. CASE Reply("result")
  BY <1>0, <1>1 DEF Reply, Emits
<1>2. CASE Reply("error")
  BY <1>0, <1>2 DEF Reply, Emits
<1>3. CASE Chatter
  BY <1>0, <1>3 DEF Chatter, Emits
<1>4. CASE Garbage
  BY <1>0, <1>4 DEF Garbage
<1>5. CASE Exit
  BY <1>0, <1>5 DEF Exit, Closes
<1>6. CASE Tick
  BY <1>0, <1>6 DEF Tick
<1>7. CASE Send
  BY <1>0, <1>7 DEF Send, Raise
<1>8. CASE Finish
  BY <1>0, <1>8 DEF Finish
<1>9. CASE Receive
  BY <1>0, <1>9 DEF Receive, Raise, Take
<1>10. CASE TimesOut
  BY <1>0, <1>10 DEF TimesOut, Raise
<1>11. CASE Close
  BY <1>0, <1>11 DEF Close
<1>12. CASE Exited
  BY <1>0, <1>12 DEF Exited
<1>13. CASE Lingers
  BY <1>0, <1>13 DEF Lingers, Kills
<1>14. CASE UNCHANGED vars
  BY <1>0, <1>14
<1>15. QED
  BY <1>1, <1>2, <1>3, <1>4, <1>5, <1>6, <1>7, <1>8, <1>9, <1>10, <1>11, <1>12, <1>13, <1>14
     DEF Next, ClientStep

(* Every reachable state satisfies the invariant. *)
THEOREM SessionAlways == Spec => []SessionInv
<1>1. SessionInv /\ [Next]_vars => SessionInv'
  BY FlagsStep, PlainStep, RoomStep, AnsweredStep, RepliesStep, ProgressStep, ServerStep
     DEF SessionInv
<1>2. QED
  BY SessionInit, <1>1, PTL DEF Spec

(* A session that does not raise had each of its requests answered by the  *)
(* server as the script expects: SoundSession, for every script.           *)
THEOREM SessionSafety == Spec => []SoundSession
<1>1. SessionInv => SoundSession
  <2> SUFFICES ASSUME SessionInv PROVE SoundSession
    OBVIOUS
  <2>1. Plain /\ Room /\ Answered /\ Progress
    BY DEF SessionInv
  <2>2. AnswersAreOwn
    <3> SUFFICES ASSUME pc \in {"close", "waitexit", "ended"}, ~failed PROVE answers = Calls
      BY DEF AnswersAreOwn
    <3>1. Len(answers) = Len(Calls) /\ \A i \in 1..Len(answers) : answers[i] = Calls[i]
      BY <2>1 DEF Progress, Answered, AsExpected
    <3>2. QED
      BY <2>1, <3>1, CallsType, SameSequence DEF Plain
  <2>3. Len(answers) <= serial
    BY <2>1, CallsType DEF Plain, Answered
  <2>4. /\ Flags
    BY DEF SessionInv
  <2>5. TypeOK
    <3>1. due \in BOOLEAN /\ failed \in BOOLEAN /\ stdin \in BOOLEAN /\ broken \in BOOLEAN
      BY <2>4 DEF Flags
    <3>2. QED
      BY <2>1, <2>3, <3>1, Zenon DEF Plain, Room, TypeOK
  <2>6. QED
    BY <2>2, <2>5 DEF SoundSession
<1>2. QED
  BY <1>1, SessionAlways, PTL

(* Only the bridge's check can leave its server running, and then fails:   *)
(* the close of every client, whatever the server does.                    *)
THEOREM ServersEnd == Spec => []NoServerLeft
<1>1. SessionInv => NoServerLeft
  BY DEF SessionInv
<1>2. QED
  BY <1>1, SessionAlways, PTL
=============================================================================
