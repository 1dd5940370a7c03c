---------------------------- MODULE CliRunProofs ----------------------------
(***************************************************************************)
(* Proofs about one packaged CLI under the evaluation, for any kinds of    *)
(* runs, number of requests and number of faults.                          *)
(***************************************************************************)
EXTENDS CliRun, TLAPS

(* TypeOK in two parts: what is true or false, and everything else. *)
Flags ==
    /\ server \in BOOLEAN /\ auth \in BOOLEAN /\ second \in BOOLEAN /\ message \in BOOLEAN
    /\ unwritten \in BOOLEAN /\ included \in BOOLEAN
Plain ==
    /\ kind \in Kinds /\ defect \in {None} \cup Defects
    /\ pc \in {"setup", "trust", "grant", "spawn", "wait", "late", "finally", "unlink",
               "check"} \cup Ended
    /\ status \in {None, "running", "completed", "timed_out"}
    /\ child \in {"none", "alive", "killed", "dead"} /\ code \in {None, 0, 1}
    /\ at \in {"think", "asked", "plan", "first", "command", "message", "error", "done"}
    /\ requests \in 0..MaxRequests /\ native \in 0..2 * MaxRequests
    /\ pre \in 0..requests /\ post \in 0..pre + MaxFaults /\ usage \in 0..post
    /\ told \in 0..requests /\ turn \in {None} \cup 0..MaxRequests /\ faults \in 0..MaxFaults

(* Which packages a kind is run on. *)
Chosen == kind \notin {"baseline", "metering", "trial"} => included

(* An answer not yet handled leaves room for what handling it records, and *)
(* each row that is missing was a fault.                                   *)
Counting ==
    /\ at \in {"asked", "plan", "command", "message", "error"} =>
           post < requests /\ native + 2 <= 2 * requests
    /\ at = "first" => native + 1 <= 2 * requests
    /\ post <= requests /\ native <= 2 * requests
    /\ at = "asked" => told < requests
    /\ Metered => requests <= pre + faults
    /\ ~Metered => pre = 0 /\ post = 0 /\ usage = 0

(* Where the runner stands tells what it still has to clean up. *)
Owned ==
    /\ child = "alive" => pc = "wait" \/ unwritten
    /\ auth => Trial /\ (pc \in {"spawn", "wait", "late", "finally", "unlink"} \/ unwritten)
    /\ status \in {"completed", "timed_out"} => child = "dead"
    /\ Trial => ~server
    /\ pc \in {"grant", "unlink"} => Trial
    /\ pc = "check" => ~Trial /\ ~server /\ status = "completed"
    /\ pc \in {"setup", "trust", "grant", "spawn"} => child = "none" /\ status = None
    /\ pc = "returned" => child = "dead" /\ ~server

(* The turn is reported once, at the end, with all that was told. *)
Reported == turn # None => turn = told /\ child = "dead"

(* What the mock server's answers make of a CLI, by its defect: one that   *)
(* offers the wrong tools gets no further than the first request, one that *)
(* goes on after a plan's first command has run the second, and one that   *)
(* asks too often asks as often as it can.                                 *)
Misoffers == \/ defect = "always_on" /\ ~Compiled
             \/ defect = "never_on" /\ Compiled
Refused ==
    ~Trial /\ Misoffers =>
        /\ ~message /\ at \in {"think", "asked", "error", "done"}
        /\ at = "think" => requests = 0
        /\ at = "asked" => requests = 1
RunsOn ==
    ~Trial /\ Compiled /\ Continues /\ ~Misoffers =>
        second \/ requests = 0 \/ (requests = 1 /\ at \in {"asked", "plan", "first"})
AsksOn == message => at = "done" /\ (defect = "extra_request" => requests = MaxRequests)

CliInv ==
    /\ Flags /\ Plain /\ Chosen /\ Counting /\ Owned /\ Reported
    /\ Refused /\ RunsOn /\ AsksOn /\ CaseCatchesDefects
-----------------------------------------------------------------------------
LEMMA NoneIsNoString ==
    /\ None \notin {"running", "completed", "timed_out"} /\ None \notin Defects /\ None \notin Kinds
    /\ None \notin Nat /\ MaxRequests \in Nat /\ MaxRequests > 3 /\ MaxFaults \in Nat
  BY CliRunAssumption

(* The first answer refuses a CLI that offers the wrong tools. *)
LEMMA MockFacts ==
    ASSUME Flags
    PROVE  /\ MockAnswer \in {"error", "plan", "command", "message"}
           /\ requests = 1 /\ Misoffers => MockAnswer = "error"
           /\ requests = 1 /\ ~Misoffers /\ Compiled => MockAnswer = "plan"
<1>1. Compiled \in BOOLEAN
  BY Zenon DEF Flags, Compiled
<1>2. (Offered # Compiled) <=> Misoffers
  <2>1. CASE defect = "always_on"
    <3>1. Offered = TRUE /\ (Misoffers <=> ~Compiled)
      BY <2>1 DEF Offered, Misoffers
    <3>2. QED
      BY <1>1, <3>1, Zenon
  <2>2. CASE defect = "never_on"
    <3>1. Offered = FALSE /\ (Misoffers <=> Compiled)
      BY <2>2 DEF Offered, Misoffers
    <3>2. QED
      BY <1>1, <3>1, Zenon
  <2>3. CASE defect \notin {"always_on", "never_on"}
    <3>1. (Offered = Compiled) /\ ~Misoffers
      BY <2>3 DEF Offered, Misoffers
    <3>2. QED
      BY <3>1, Zenon
  <2>4. QED
    BY <2>1, <2>2, <2>3
<1>3. requests = 1 /\ Misoffers => MockAnswer = "error"
  BY <1>2 DEF MockAnswer
<1>4. requests = 1 /\ ~Misoffers /\ Compiled => MockAnswer = "plan"
  BY <1>2 DEF MockAnswer
<1>5. MockAnswer \in {"error", "plan", "command", "message"}
  BY DEF MockAnswer
<1>6. QED
  BY <1>3, <1>4, <1>5

LEMMA CliInit == Init => CliInv
<1> SUFFICES ASSUME Init PROVE CliInv
  OBVIOUS
<1>1. Flags
  BY Zenon DEF Init, Flags
<1>2. Plain
  BY NoneIsNoString DEF Init, Plain
<1>3. Chosen /\ Counting /\ Owned /\ Reported
  BY NoneIsNoString DEF Init, Chosen, Counting, Owned, Reported, Metered, Trial
<1>4. Refused /\ RunsOn /\ AsksOn /\ CaseCatchesDefects
  BY DEF Init, Refused, RunsOn, AsksOn, CaseCatchesDefects
<1>5. QED
  BY <1>1, <1>2, <1>3, <1>4 DEF CliInv

(* What is run does not change. *)
LEMMA ChosenStep == CliInv /\ [Next]_vars => UNCHANGED chosen /\ Chosen'
<1> SUFFICES ASSUME CliInv, [Next]_vars PROVE UNCHANGED chosen /\ Chosen'
  OBVIOUS
<1>1. UNCHANGED chosen
  BY DEF Next, Child, Runner, vars, Ask, Answer, Plan, Successor, Command, Message, Error,
     Dies, Setup, Trust, Grant, Spawn, Reaped, Timeout, LateReaped, Finally, Unlink, Check
<1>2. QED
  BY <1>1 DEF CliInv, Chosen, chosen

(* True or false stays so. *)
LEMMA FlagsStep == CliInv /\ [Next]_vars => Flags'
<1> SUFFICES ASSUME CliInv, [Next]_vars PROVE Flags'
  OBVIOUS
<1>0. Flags
  BY DEF CliInv
<1> USE DEF vars, chosen, runner, trace, Flags
<1>1. CASE Ask
  BY <1>0, <1>1, Zenon DEF Ask, Appends, Fault
<1>2. CASE Answer
  BY <1>0, <1>2, Zenon DEF Answer, ProviderAnswers, Fault
<1>3. CASE Plan
  BY <1>0, <1>3, Zenon DEF Plan, Records, Fault
<1>4. CASE Successor
  BY <1>0, <1>4, Zenon DEF Successor
<1>5. CASE Command
  BY <1>0, <1>5, Zenon DEF Command, Records, Fault
<1>6. CASE Message
  BY <1>0, <1>6, Zenon DEF Message, Records, Fault
<1>7. CASE Error
  BY <1>0, <1>7, Zenon DEF Error, Records, Fault
<1>8. CASE Dies
  BY <1>0, <1>8, Zenon DEF Dies
<1>9. CASE Setup
  BY <1>0, <1>9, Zenon DEF Setup
<1>10. CASE Trust
  BY <1>0, <1>10, Zenon DEF Trust, Fault
<1>11. CASE Grant
  BY <1>0, <1>11, Zenon DEF Grant
<1>12. CASE Spawn
  BY <1>0, <1>12, Zenon DEF Spawn, Fault
<1>13. CASE Reaped
  BY <1>0, <1>13, Zenon DEF Reaped
<1>14. CASE Timeout
  BY <1>0, <1>14, Zenon DEF Timeout, Expires
<1>15. CASE LateReaped
  BY <1>0, <1>15, Zenon DEF LateReaped
<1>16. CASE Finally
  BY <1>0, <1>16, Zenon DEF Finally, Fault
<1>17. CASE Unlink
  BY <1>0, <1>17, Zenon DEF Unlink, Left
<1>18. CASE Check
  BY <1>0, <1>18, Zenon DEF Check
<1>19. CASE UNCHANGED vars
  BY <1>0, <1>19, Zenon
<1>20. QED
  BY <1>1, <1>2, <1>3, <1>4, <1>5, <1>6, <1>7, <1>8, <1>9, <1>10, <1>11, <1>12, <1>13, <1>14,
     <1>15, <1>16, <1>17, <1>18, <1>19 DEF Next, Child, Runner

(* Everything else keeps its type. *)
LEMMA PlainStep == CliInv /\ [Next]_vars => Plain'
<1> SUFFICES ASSUME CliInv, [Next]_vars PROVE Plain'
  OBVIOUS
<1>k. UNCHANGED chosen
  BY ChosenStep
<1>0. Plain /\ Flags /\ Counting
  BY DEF CliInv
<1> USE DEF vars, chosen, runner, trace, Plain, Counting, Metered, Trial, Ended
<1>1. CASE Ask
  BY NoneIsNoString, <1>k, <1>0, <1>1 DEF Ask, Appends, Fault
<1>2. CASE Answer
  BY NoneIsNoString, MockFacts, <1>k, <1>0, <1>2 DEF Answer, ProviderAnswers, Fault
<1>3. CASE Plan
  BY NoneIsNoString, <1>k, <1>0, <1>3 DEF Plan, Records, Fault
<1>4. CASE Successor
  BY NoneIsNoString, <1>k, <1>0, <1>4 DEF Successor
<1>5. CASE Command
  BY NoneIsNoString, <1>k, <1>0, <1>5 DEF Command, Records, Fault
<1>6. CASE Message
  BY NoneIsNoString, <1>k, <1>0, <1>6 DEF Message, Records, Fault
<1>7. CASE Error
  BY NoneIsNoString, <1>k, <1>0, <1>7 DEF Error, Records, Fault
<1>8. CASE Dies
  BY NoneIsNoString, <1>k, <1>0, <1>8 DEF Dies
<1>9. CASE Setup
  BY NoneIsNoString, <1>k, <1>0, <1>9 DEF Setup
<1>10. CASE Trust
  BY NoneIsNoString, <1>k, <1>0, <1>10 DEF Trust, Fault
<1>11. CASE Grant
  BY NoneIsNoString, <1>k, <1>0, <1>11 DEF Grant
<1>12. CASE Spawn
  BY NoneIsNoString, <1>k, <1>0, <1>12 DEF Spawn, Fault
<1>13. CASE Reaped
  BY NoneIsNoString, <1>k, <1>0, <1>13 DEF Reaped
<1>14. CASE Timeout
  BY NoneIsNoString, <1>k, <1>0, <1>14 DEF Timeout, Expires
<1>15. CASE LateReaped
  BY NoneIsNoString, <1>k, <1>0, <1>15 DEF LateReaped
<1>16. CASE Finally
  BY NoneIsNoString, <1>k, <1>0, <1>16 DEF Finally, Fault
<1>17. CASE Unlink
  BY NoneIsNoString, <1>k, <1>0, <1>17 DEF Unlink, Left
<1>18. CASE Check
  BY NoneIsNoString, <1>k, <1>0, <1>18 DEF Check
<1>19. CASE UNCHANGED vars
  BY NoneIsNoString, <1>k, <1>0, <1>19
<1>20. QED
  BY <1>1, <1>2, <1>3, <1>4, <1>5, <1>6, <1>7, <1>8, <1>9, <1>10, <1>11, <1>12, <1>13, <1>14,
     <1>15, <1>16, <1>17, <1>18, <1>19 DEF Next, Child, Runner

(* Rows are counted with the requests they are about. *)
LEMMA CountingStep == CliInv /\ [Next]_vars => Counting'
<1> SUFFICES ASSUME CliInv, [Next]_vars PROVE Counting'
  OBVIOUS
<1>k. UNCHANGED chosen
  BY ChosenStep
<1>0. Plain /\ Flags /\ Counting
  BY DEF CliInv
<1> USE DEF vars, chosen, runner, trace, Plain, Counting, Metered, Trial
<1>1. CASE Ask
  BY NoneIsNoString, <1>k, <1>0, <1>1 DEF Ask, Appends, Fault
<1>2. CASE Answer
  BY NoneIsNoString, MockFacts, <1>k, <1>0, <1>2 DEF Answer, ProviderAnswers, Fault
<1>3. CASE Plan
  BY NoneIsNoString, <1>k, <1>0, <1>3 DEF Plan, Records, Fault
<1>4. CASE Successor
  BY NoneIsNoString, <1>k, <1>0, <1>4 DEF Successor
<1>5. CASE Command
  BY NoneIsNoString, <1>k, <1>0, <1>5 DEF Command, Records, Fault
<1>6. CASE Message
  BY NoneIsNoString, <1>k, <1>0, <1>6 DEF Message, Records, Fault
<1>7. CASE Error
  BY NoneIsNoString, <1>k, <1>0, <1>7 DEF Error, Records, Fault
<1>8. CASE Dies
  BY NoneIsNoString, <1>k, <1>0, <1>8 DEF Dies
<1>9. CASE Setup
  BY NoneIsNoString, <1>k, <1>0, <1>9 DEF Setup
<1>10. CASE Trust
  BY NoneIsNoString, <1>k, <1>0, <1>10 DEF Trust, Fault
<1>11. CASE Grant
  BY NoneIsNoString, <1>k, <1>0, <1>11 DEF Grant
<1>12. CASE Spawn
  BY NoneIsNoString, <1>k, <1>0, <1>12 DEF Spawn, Fault
<1>13. CASE Reaped
  BY NoneIsNoString, <1>k, <1>0, <1>13 DEF Reaped
<1>14. CASE Timeout
  BY NoneIsNoString, <1>k, <1>0, <1>14 DEF Timeout, Expires
<1>15. CASE LateReaped
  BY NoneIsNoString, <1>k, <1>0, <1>15 DEF LateReaped
<1>16. CASE Finally
  BY NoneIsNoString, <1>k, <1>0, <1>16 DEF Finally, Fault
<1>17. CASE Unlink
  BY NoneIsNoString, <1>k, <1>0, <1>17 DEF Unlink, Left
<1>18. CASE Check
  BY NoneIsNoString, <1>k, <1>0, <1>18 DEF Check
<1>19. CASE UNCHANGED vars
  BY NoneIsNoString, <1>k, <1>0, <1>19
<1>20. QED
  BY <1>1, <1>2, <1>3, <1>4, <1>5, <1>6, <1>7, <1>8, <1>9, <1>10, <1>11, <1>12, <1>13, <1>14,
     <1>15, <1>16, <1>17, <1>18, <1>19 DEF Next, Child, Runner

(* The runner knows what it still has to clean up. *)
LEMMA OwnedStep == CliInv /\ [Next]_vars => Owned'
<1> SUFFICES ASSUME CliInv, [Next]_vars PROVE Owned'
  OBVIOUS
<1>k. UNCHANGED chosen
  BY ChosenStep
<1>0. Plain /\ Flags /\ Owned
  BY DEF CliInv
<1> USE DEF vars, chosen, runner, trace, Plain, Flags, Owned, Trial, Ended
<1>1. CASE Ask
  BY NoneIsNoString, <1>k, <1>0, <1>1 DEF Ask, Appends, Fault
<1>2. CASE Answer
  BY NoneIsNoString, MockFacts, <1>k, <1>0, <1>2 DEF Answer, ProviderAnswers, Fault
<1>3. CASE Plan
  BY NoneIsNoString, <1>k, <1>0, <1>3 DEF Plan, Records, Fault
<1>4. CASE Successor
  BY NoneIsNoString, <1>k, <1>0, <1>4 DEF Successor
<1>5. CASE Command
  BY NoneIsNoString, <1>k, <1>0, <1>5 DEF Command, Records, Fault
<1>6. CASE Message
  BY NoneIsNoString, <1>k, <1>0, <1>6 DEF Message, Records, Fault
<1>7. CASE Error
  BY NoneIsNoString, <1>k, <1>0, <1>7 DEF Error, Records, Fault
<1>8. CASE Dies
  BY NoneIsNoString, <1>k, <1>0, <1>8 DEF Dies
<1>9. CASE Setup
  BY NoneIsNoString, <1>k, <1>0, <1>9 DEF Setup
<1>10. CASE Trust
  BY NoneIsNoString, <1>k, <1>0, <1>10 DEF Trust, Fault
<1>11. CASE Grant
  BY NoneIsNoString, <1>k, <1>0, <1>11 DEF Grant
<1>12. CASE Spawn
  BY NoneIsNoString, <1>k, <1>0, <1>12 DEF Spawn, Fault
<1>13. CASE Reaped
  BY NoneIsNoString, <1>k, <1>0, <1>13 DEF Reaped
<1>14. CASE Timeout
  BY NoneIsNoString, <1>k, <1>0, <1>14 DEF Timeout, Expires
<1>15. CASE LateReaped
  BY NoneIsNoString, <1>k, <1>0, <1>15 DEF LateReaped
<1>16. CASE Finally
  BY NoneIsNoString, <1>k, <1>0, <1>16 DEF Finally, Fault
<1>17. CASE Unlink
  BY NoneIsNoString, <1>k, <1>0, <1>17 DEF Unlink, Left
<1>18. CASE Check
  BY NoneIsNoString, <1>k, <1>0, <1>18 DEF Check
<1>19. CASE UNCHANGED vars
  BY NoneIsNoString, <1>k, <1>0, <1>19
<1>20. QED
  BY <1>1, <1>2, <1>3, <1>4, <1>5, <1>6, <1>7, <1>8, <1>9, <1>10, <1>11, <1>12, <1>13, <1>14,
     <1>15, <1>16, <1>17, <1>18, <1>19 DEF Next, Child, Runner

(* What a finished turn reports is final. *)
LEMMA ReportedStep == CliInv /\ [Next]_vars => Reported'
<1> SUFFICES ASSUME CliInv, [Next]_vars PROVE Reported'
  OBVIOUS
<1>k. UNCHANGED chosen
  BY ChosenStep
<1>0. Plain /\ Flags /\ Owned /\ Reported
  BY DEF CliInv
<1> USE DEF vars, chosen, runner, trace, Plain, Owned, Reported
<1>1. CASE Ask
  BY NoneIsNoString, <1>k, <1>0, <1>1 DEF Ask, Appends, Fault
<1>2. CASE Answer
  BY NoneIsNoString, MockFacts, <1>k, <1>0, <1>2 DEF Answer, ProviderAnswers, Fault
<1>3. CASE Plan
  BY NoneIsNoString, <1>k, <1>0, <1>3 DEF Plan, Records, Fault
<1>4. CASE Successor
  BY NoneIsNoString, <1>k, <1>0, <1>4 DEF Successor
<1>5. CASE Command
  BY NoneIsNoString, <1>k, <1>0, <1>5 DEF Command, Records, Fault
<1>6. CASE Message
  BY NoneIsNoString, <1>k, <1>0, <1>6 DEF Message, Records, Fault
<1>7. CASE Error
  BY NoneIsNoString, <1>k, <1>0, <1>7 DEF Error, Records, Fault
<1>8. CASE Dies
  BY NoneIsNoString, <1>k, <1>0, <1>8 DEF Dies
<1>9. CASE Setup
  BY NoneIsNoString, <1>k, <1>0, <1>9 DEF Setup
<1>10. CASE Trust
  BY NoneIsNoString, <1>k, <1>0, <1>10 DEF Trust, Fault
<1>11. CASE Grant
  BY NoneIsNoString, <1>k, <1>0, <1>11 DEF Grant
<1>12. CASE Spawn
  BY NoneIsNoString, <1>k, <1>0, <1>12 DEF Spawn, Fault
<1>13. CASE Reaped
  BY NoneIsNoString, <1>k, <1>0, <1>13 DEF Reaped
<1>14. CASE Timeout
  BY NoneIsNoString, <1>k, <1>0, <1>14 DEF Timeout, Expires
<1>15. CASE LateReaped
  BY NoneIsNoString, <1>k, <1>0, <1>15 DEF LateReaped
<1>16. CASE Finally
  BY NoneIsNoString, <1>k, <1>0, <1>16 DEF Finally, Fault
<1>17. CASE Unlink
  BY NoneIsNoString, <1>k, <1>0, <1>17 DEF Unlink, Left
<1>18. CASE Check
  BY NoneIsNoString, <1>k, <1>0, <1>18 DEF Check
<1>19. CASE UNCHANGED vars
  BY NoneIsNoString, <1>k, <1>0, <1>19
<1>20. QED
  BY <1>1, <1>2, <1>3, <1>4, <1>5, <1>6, <1>7, <1>8, <1>9, <1>10, <1>11, <1>12, <1>13, <1>14,
     <1>15, <1>16, <1>17, <1>18, <1>19 DEF Next, Child, Runner

(* A CLI that offers the wrong tools is refused. *)
LEMMA RefusedStep == CliInv /\ [Next]_vars => Refused'
<1> SUFFICES ASSUME CliInv, [Next]_vars PROVE Refused'
  OBVIOUS
<1>k. UNCHANGED chosen
  BY ChosenStep
<1>0. Plain /\ Flags /\ Refused
  BY DEF CliInv
<1> USE DEF vars, chosen, runner, trace, Plain, Refused, Trial, Compiled, Misoffers
<1>1. CASE Ask
  BY NoneIsNoString, <1>k, <1>0, <1>1 DEF Ask, Appends, Fault
<1>2. CASE Answer
  BY NoneIsNoString, MockFacts, <1>k, <1>0, <1>2 DEF Answer, ProviderAnswers, Fault
<1>3. CASE Plan
  BY NoneIsNoString, <1>k, <1>0, <1>3 DEF Plan, Records, Fault
<1>4. CASE Successor
  BY NoneIsNoString, <1>k, <1>0, <1>4 DEF Successor
<1>5. CASE Command
  BY NoneIsNoString, <1>k, <1>0, <1>5 DEF Command, Records, Fault
<1>6. CASE Message
  BY NoneIsNoString, <1>k, <1>0, <1>6 DEF Message, Records, Fault
<1>7. CASE Error
  BY NoneIsNoString, <1>k, <1>0, <1>7 DEF Error, Records, Fault
<1>8. CASE Dies
  BY NoneIsNoString, <1>k, <1>0, <1>8 DEF Dies
<1>9. CASE Setup
  BY NoneIsNoString, <1>k, <1>0, <1>9 DEF Setup
<1>10. CASE Trust
  BY NoneIsNoString, <1>k, <1>0, <1>10 DEF Trust, Fault
<1>11. CASE Grant
  BY NoneIsNoString, <1>k, <1>0, <1>11 DEF Grant
<1>12. CASE Spawn
  BY NoneIsNoString, <1>k, <1>0, <1>12 DEF Spawn, Fault
<1>13. CASE Reaped
  BY NoneIsNoString, <1>k, <1>0, <1>13 DEF Reaped
<1>14. CASE Timeout
  BY NoneIsNoString, <1>k, <1>0, <1>14 DEF Timeout, Expires
<1>15. CASE LateReaped
  BY NoneIsNoString, <1>k, <1>0, <1>15 DEF LateReaped
<1>16. CASE Finally
  BY NoneIsNoString, <1>k, <1>0, <1>16 DEF Finally, Fault
<1>17. CASE Unlink
  BY NoneIsNoString, <1>k, <1>0, <1>17 DEF Unlink, Left
<1>18. CASE Check
  BY NoneIsNoString, <1>k, <1>0, <1>18 DEF Check
<1>19. CASE UNCHANGED vars
  BY NoneIsNoString, <1>k, <1>0, <1>19
<1>20. QED
  BY <1>1, <1>2, <1>3, <1>4, <1>5, <1>6, <1>7, <1>8, <1>9, <1>10, <1>11, <1>12, <1>13, <1>14,
     <1>15, <1>16, <1>17, <1>18, <1>19 DEF Next, Child, Runner

(* A CLI that goes on has run the second command. *)
LEMMA RunsOnStep == CliInv /\ [Next]_vars => RunsOn'
<1> SUFFICES ASSUME CliInv, [Next]_vars PROVE RunsOn'
  OBVIOUS
<1>k. UNCHANGED chosen
  BY ChosenStep
<1>0. Plain /\ Flags /\ Counting /\ Refused /\ RunsOn
  BY DEF CliInv
<1> USE DEF vars, chosen, runner, trace, Plain, Counting, RunsOn, Trial, Compiled, Misoffers, Continues
<1>1. CASE Ask
  BY NoneIsNoString, <1>k, <1>0, <1>1 DEF Ask, Appends, Fault
<1>2. CASE Answer
  BY NoneIsNoString, MockFacts, <1>k, <1>0, <1>2 DEF Answer, ProviderAnswers, Fault
<1>3. CASE Plan
  BY NoneIsNoString, <1>k, <1>0, <1>3 DEF Plan, Records, Fault
<1>4. CASE Successor
  BY NoneIsNoString, <1>k, <1>0, <1>4 DEF Successor
<1>5. CASE Command
  <2>1. UNCHANGED <<requests, kind, included, defect>>
    BY <1>k, <1>5 DEF Command
  <2>2. second => second'
    BY NoneIsNoString, <1>k, <1>0, <1>5, Zenon DEF Command, Flags
  <2>3. at = "command" /\ requests # 0
    BY NoneIsNoString, <1>0, <1>5 DEF Command
  <2>4. QED
    BY NoneIsNoString, <1>k, <1>0, <2>1, <2>2, <2>3
<1>6. CASE Message
  BY NoneIsNoString, <1>k, <1>0, <1>6 DEF Message, Records, Fault
<1>7. CASE Error
  BY NoneIsNoString, <1>k, <1>0, <1>7 DEF Error, Records, Fault
<1>8. CASE Dies
  BY NoneIsNoString, <1>k, <1>0, <1>8 DEF Dies
<1>9. CASE Setup
  BY NoneIsNoString, <1>k, <1>0, <1>9 DEF Setup
<1>10. CASE Trust
  BY NoneIsNoString, <1>k, <1>0, <1>10 DEF Trust, Fault
<1>11. CASE Grant
  BY NoneIsNoString, <1>k, <1>0, <1>11 DEF Grant
<1>12. CASE Spawn
  BY NoneIsNoString, <1>k, <1>0, <1>12 DEF Spawn, Fault
<1>13. CASE Reaped
  BY NoneIsNoString, <1>k, <1>0, <1>13 DEF Reaped
<1>14. CASE Timeout
  BY NoneIsNoString, <1>k, <1>0, <1>14 DEF Timeout, Expires
<1>15. CASE LateReaped
  BY NoneIsNoString, <1>k, <1>0, <1>15 DEF LateReaped
<1>16. CASE Finally
  BY NoneIsNoString, <1>k, <1>0, <1>16 DEF Finally, Fault
<1>17. CASE Unlink
  BY NoneIsNoString, <1>k, <1>0, <1>17 DEF Unlink, Left
<1>18. CASE Check
  BY NoneIsNoString, <1>k, <1>0, <1>18 DEF Check
<1>19. CASE UNCHANGED vars
  BY NoneIsNoString, <1>k, <1>0, <1>19
<1>20. QED
  BY <1>1, <1>2, <1>3, <1>4, <1>5, <1>6, <1>7, <1>8, <1>9, <1>10, <1>11, <1>12, <1>13, <1>14,
     <1>15, <1>16, <1>17, <1>18, <1>19 DEF Next, Child, Runner

(* A CLI that asks too often asks as often as it can. *)
LEMMA AsksOnStep == CliInv /\ [Next]_vars => AsksOn'
<1> SUFFICES ASSUME CliInv, [Next]_vars PROVE AsksOn'
  OBVIOUS
<1>k. UNCHANGED chosen
  BY ChosenStep
<1>0. Plain /\ Flags /\ AsksOn /\ Owned
  BY DEF CliInv
<1> USE DEF vars, chosen, runner, trace, Plain, AsksOn, Owned
<1>1. CASE Ask
  BY NoneIsNoString, <1>k, <1>0, <1>1 DEF Ask, Appends, Fault
<1>2. CASE Answer
  BY NoneIsNoString, MockFacts, <1>k, <1>0, <1>2 DEF Answer, ProviderAnswers, Fault
<1>3. CASE Plan
  BY NoneIsNoString, <1>k, <1>0, <1>3 DEF Plan, Records, Fault
<1>4. CASE Successor
  BY NoneIsNoString, <1>k, <1>0, <1>4 DEF Successor
<1>5. CASE Command
  BY NoneIsNoString, <1>k, <1>0, <1>5 DEF Command, Records, Fault
<1>6. CASE Message
  <2>1. CASE defect = "extra_request" /\ requests < MaxRequests
    <3>1. UNCHANGED message
      BY <1>6, <2>1 DEF Message
    <3>2. ~message
      BY NoneIsNoString, <1>k, <1>0, <1>6 DEF Message
    <3>3. QED
      BY <3>1, <3>2
  <2>2. CASE ~(defect = "extra_request" /\ requests < MaxRequests)
    <3>1. at' = "done" /\ requests' = requests /\ defect' = defect
      BY <1>k, <1>6, <2>2 DEF Message
    <3>2. defect = "extra_request" => requests = MaxRequests
      BY NoneIsNoString, <1>0, <2>2
    <3>3. QED
      BY <3>1, <3>2
  <2>3. QED
    BY <2>1, <2>2
<1>7. CASE Error
  BY NoneIsNoString, <1>k, <1>0, <1>7 DEF Error, Records, Fault
<1>8. CASE Dies
  BY NoneIsNoString, <1>k, <1>0, <1>8 DEF Dies
<1>9. CASE Setup
  BY NoneIsNoString, <1>k, <1>0, <1>9 DEF Setup
<1>10. CASE Trust
  BY NoneIsNoString, <1>k, <1>0, <1>10 DEF Trust, Fault
<1>11. CASE Grant
  BY NoneIsNoString, <1>k, <1>0, <1>11 DEF Grant
<1>12. CASE Spawn
  BY NoneIsNoString, <1>k, <1>0, <1>12 DEF Spawn, Fault
<1>13. CASE Reaped
  BY NoneIsNoString, <1>k, <1>0, <1>13 DEF Reaped
<1>14. CASE Timeout
  BY NoneIsNoString, <1>k, <1>0, <1>14 DEF Timeout, Expires
<1>15. CASE LateReaped
  BY NoneIsNoString, <1>k, <1>0, <1>15 DEF LateReaped
<1>16. CASE Finally
  BY NoneIsNoString, <1>k, <1>0, <1>16 DEF Finally, Fault
<1>17. CASE Unlink
  BY NoneIsNoString, <1>k, <1>0, <1>17 DEF Unlink, Left
<1>18. CASE Check
  BY NoneIsNoString, <1>k, <1>0, <1>18 DEF Check
<1>19. CASE UNCHANGED vars
  BY NoneIsNoString, <1>k, <1>0, <1>19
<1>20. QED
  BY <1>1, <1>2, <1>3, <1>4, <1>5, <1>6, <1>7, <1>8, <1>9, <1>10, <1>11, <1>12, <1>13, <1>14,
     <1>15, <1>16, <1>17, <1>18, <1>19 DEF Next, Child, Runner

(* A case that passes is about a CLI without the defect the case is for. *)
LEMMA PassedCase ==
    ASSUME CliInv, ~Trial, message, SuccessorRight, RequestsRight
    PROVE  /\ defect # kind /\ defect # "extra_request"
           /\ defect = "never_on" => ~Compiled
           /\ defect = "always_on" => Compiled
<1>0. Plain /\ Chosen /\ Refused /\ RunsOn /\ AsksOn
  BY DEF CliInv
<1>1. requests \in {2, 3}
  BY DEF RequestsRight, ExpectedRequests
<1>2. ~Misoffers
  BY <1>0 DEF Refused
<1>3. defect # "extra_request"
  BY <1>0, <1>1, NoneIsNoString DEF AsksOn
<1>4. defect = "never_on" => ~Compiled
  BY <1>2 DEF Misoffers
<1>5. defect = "always_on" => Compiled
  BY <1>2 DEF Misoffers
<1>6. defect # kind
  <2> SUFFICES ASSUME defect = kind PROVE FALSE
    OBVIOUS
  <2>1. kind \in Stopping
    BY <1>0, CliRunAssumption DEF Plain, Defects, Stopping
  <2>2. Compiled /\ Continues
    BY <1>0, <2>1 DEF Chosen, Compiled, Continues, Stopping
  <2>3. second
    BY <1>0, <1>1, <1>2, <2>2 DEF RunsOn
  <2>4. QED
    BY <2>1, <2>3 DEF SuccessorRight
<1>7. QED
  BY <1>3, <1>4, <1>5, <1>6

LEMMA CatchesStep == CliInv /\ [Next]_vars => CaseCatchesDefects'
<1> SUFFICES ASSUME CliInv, [Next]_vars PROVE CaseCatchesDefects'
  OBVIOUS
<1>1. UNCHANGED chosen
  BY ChosenStep
<1>2. CASE pc' # "returned"
  BY <1>2 DEF CaseCatchesDefects
<1>3. CASE Trial
  BY <1>1, <1>3 DEF CaseCatchesDefects, chosen, Trial
<1>4. CASE Check /\ ~Trial /\ pc' = "returned"
  <2>1. message /\ SuccessorRight /\ RequestsRight
    BY <1>4 DEF Check
  <2>2. QED
    BY <1>1, <1>4, <2>1, PassedCase DEF CaseCatchesDefects, chosen, Compiled
<1>5. CASE pc = "returned"
  BY <1>1, <1>5 DEF CliInv, CaseCatchesDefects, chosen, Trial, Compiled
<1>6. ~Trial /\ ~Check /\ pc' = "returned" => pc = "returned"
  BY DEF Next, Child, Runner, vars, runner, Trial, CliInv, Owned, Ask, Answer, Plan, Successor,
     Command, Message, Error, Dies, Setup, Trust, Grant, Spawn, Reaped, Timeout, LateReaped,
     Finally, Unlink
<1>7. QED
  BY <1>2, <1>3, <1>4, <1>5, <1>6

LEMMA CliStep == CliInv /\ [Next]_vars => CliInv'
  BY ChosenStep, FlagsStep, PlainStep, CountingStep, OwnedStep, ReportedStep, RefusedStep,
     RunsOnStep, AsksOnStep, CatchesStep DEF CliInv

LEMMA CliAlways == Spec => []CliInv
  BY CliInit, CliStep, PTL DEF Spec

(* However a run ends, the access grant and the child are gone, unless a   *)
(* write of status.json failed; the server of a passed case is closed      *)
(* (run_trials.py, the finally block; native_smoke.py, run_case).          *)
THEOREM RunsCleanUp == Spec => []CleanedUp
<1>1. CliInv => CleanedUp
  BY DEF CliInv, Plain, Owned, CleanedUp, Ended
<1>2. QED
  BY <1>1, CliAlways, PTL

(* Every variable keeps its type, and the usage that the analysis calls    *)
(* complete is what the provider told (analyze_traces.py, analyze).        *)
THEOREM UsageIsTrue == Spec => []SoundUsage
<1>1. CliInv => TypeOK
  BY DEF CliInv, Flags, Plain, TypeOK
<1>2. CliInv => KnownUsageIsTrue
  BY DEF CliInv, Reported, KnownUsageIsTrue, CompleteUsageKnown, Reconciles
<1>3. QED
  BY <1>1, <1>2, CliAlways, PTL DEF SoundUsage

(* A smoke case that passes had a CLI without the defects the case is for  *)
(* (native_smoke.py, the checks at the end of run_case).                   *)
THEOREM CasesCatch == Spec => []CaseCatchesDefects
<1>1. CliInv => CaseCatchesDefects
  BY DEF CliInv
<1>2. QED
  BY <1>1, CliAlways, PTL
=============================================================================
