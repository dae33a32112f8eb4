-------------------------- MODULE IngestCommand_proofs --------------------------
(***************************************************************************)
(* Proofs about IngestTool, for every set of export requests and payload   *)
(* sizes, both receivers and every command; then about IngestCommand: with *)
(* every sender, with and without a receiver, for an input file of any     *)
(* length and connections that break whenever they like.                   *)
(***************************************************************************)
EXTENDS IngestCommand, SequenceTheorems, FiniteSetTheorems, TLAPS

--------------------------------------------------------------------------------
(* The tool, seen from its receiver.                                       *)

(* A handler that has the file open finds a file.                          *)
Opened == \A r \in Requests : handler[r] = "opened" => file \in Seq(Requests)

LEMMA OverwrittenType ==
    ASSUME NEW old \in Seq(Requests), NEW r \in Requests
    PROVE  /\ Overwritten(old, r) \in Seq(Requests)
           /\ Len(Overwritten(old, r)) \in {Len(old), Size[r]}
<1> DEFINE n == Longer(Len(old), Size[r])
<1>1. Len(old) \in Nat /\ Size[r] \in Nat
    BY RequestsAssumption
<1>2. n \in Nat
    BY <1>1 DEF Longer
<1>3. \A i \in 1 .. n : (IF i <= Size[r] THEN r ELSE old[i]) \in Requests
    <2> TAKE i \in 1 .. n
    <2>1. CASE i <= Size[r]
        BY <2>1
    <2>2. CASE ~(i <= Size[r])
        <3>1. i \in 1 .. Len(old)
            BY <1>1, <2>2 DEF Longer
        <3>2. old[i] \in Requests
            BY <3>1
        <3>3. QED
            BY <2>2, <3>2
    <2>3. QED
        BY <2>1, <2>2
<1>4. Overwritten(old, r) = [i \in 1 .. n |-> IF i <= Size[r] THEN r ELSE old[i]]
    BY DEF Overwritten
<1>5. Overwritten(old, r) \in Seq(Requests) /\ Len(Overwritten(old, r)) = n
    BY <1>2, <1>3, <1>4
<1>6. QED
    BY <1>5 DEF Longer

LEMMA TypeInit == Init => TypeOK /\ Opened
    BY DEF Init, TypeOK, Opened, MainPc, HandlerPc

LEMMA TypeStep == TypeOK /\ Opened /\ [Next]_vars => TypeOK' /\ Opened'
<1> SUFFICES ASSUME TypeOK, Opened, [Next]_vars PROVE TypeOK' /\ Opened'
    OBVIOUS
<1> USE DEF flags, outcome, storage, TypeOK, Opened, MainPc, HandlerPc
<1>1. CASE Start
    BY <1>1 DEF Start
<1>2. CASE StartFails
    BY <1>2 DEF StartFails
<1>3. CASE SendReturns
    BY <1>3 DEF SendReturns
<1>4. CASE SendFails
    BY <1>4 DEF SendFails
<1>5. CASE ListenEnds
    BY <1>5 DEF ListenEnds
<1>6. CASE StopTimeout
    BY <1>6 DEF StopTimeout, AfterWait
<1>7. ASSUME NEW r \in Requests, StopReceives(r) PROVE TypeOK' /\ Opened'
    BY <1>7 DEF StopReceives, AfterWait, Answered
<1>8. CASE Drained
    BY <1>8 DEF Drained
<1>9. CASE Exit
    BY <1>9 DEF Exit
<1>10. ASSUME NEW r \in Requests, Request(r) PROVE TypeOK' /\ Opened'
    BY <1>10 DEF Request
<1>11. ASSUME NEW r \in Requests, GiveUp(r) PROVE TypeOK' /\ Opened'
    BY <1>11 DEF GiveUp
<1>12. ASSUME NEW r \in Requests, ExportRejects(r) PROVE TypeOK' /\ Opened'
    BY <1>12 DEF ExportRejects, Answered
<1>13. ASSUME NEW r \in Requests, HandleRejects(r) PROVE TypeOK' /\ Opened'
    BY <1>13 DEF HandleRejects
<1>14. ASSUME NEW r \in Requests, OpenFile(r) PROVE TypeOK' /\ Opened'
    <2>1. file' = <<>> /\ Len(file') <= Size[r]
        <3>1. Size[r] \in Nat /\ Len(<<>>) = 0
            BY RequestsAssumption
        <3>2. QED
            BY <1>14, <3>1 DEF OpenFile
    <2>2. QED
        BY <1>14, <2>1 DEF OpenFile
<1>15. ASSUME NEW r \in Requests, WriteFails(r) PROVE TypeOK' /\ Opened'
    BY <1>15 DEF WriteFails, AfterWrite
<1>16. ASSUME NEW r \in Requests, WriteData(r) PROVE TypeOK' /\ Opened'
    <2>1. file \in Seq(Requests) /\ file # None
        BY <1>16, RequestsAssumption DEF WriteData
    <2>2. file' \in Seq(Requests) /\ Len(file') \in {Len(file), Size[r]}
        BY <1>16, <2>1, OverwrittenType DEF WriteData
    <2>3. \E s \in Requests : Len(file') <= Size[s]
        <3>1. CASE Len(file') = Len(file)
            BY <2>1, <3>1
        <3>2. CASE Len(file') = Size[r]
            BY <3>2, RequestsAssumption
        <3>3. QED
            BY <2>2, <3>1, <3>2
    <2>4. QED
        BY <1>16, <2>2, <2>3 DEF WriteData, AfterWrite
<1>17. ASSUME NEW r \in Requests, Respond(r) PROVE TypeOK' /\ Opened'
    BY <1>17 DEF Respond, Answered
<1>18. ASSUME NEW r \in Requests, RespondError(r) PROVE TypeOK' /\ Opened'
    BY <1>18 DEF RespondError, Answered
<1>19. ASSUME NEW r \in Requests, RespondFails(r) PROVE TypeOK' /\ Opened'
    BY <1>19 DEF RespondFails
<1>20. CASE UNCHANGED vars
    BY <1>20 DEF vars
<1>21. QED
    BY <1>1, <1>2, <1>3, <1>4, <1>5, <1>6, <1>7, <1>8, <1>9, <1>10, <1>11, <1>12,
       <1>13, <1>14, <1>15, <1>16, <1>17, <1>18, <1>19, <1>20
    DEF Next, Main, Stop, Handler

(* Every variable keeps its type.                                          *)
THEOREM TypeCorrect == Spec => []TypeOK
<1>1. Spec => [](TypeOK /\ Opened)
    BY TypeInit, TypeStep, PTL DEF Spec
<1>2. QED
    BY <1>1, PTL

--------------------------------------------------------------------------------
(* What a step can do to one request s: the handler of s moves forward     *)
(* only, its data is written before it goes on, and it is answered in one  *)
(* of four ways.                                                           *)
HandlerMove(s) ==
    \/ handler'[s] = handler[s] /\ disk'[s] = disk[s]
    \/ handler[s] = "idle" /\ handler'[s] = "running" /\ disk'[s] = disk[s] /\ Accepting
    \/ handler[s] = "running" /\ handler'[s] = "opened" /\ disk'[s] = disk[s]
       /\ file' = <<>> /\ s \notin Invalid
    \/ handler[s] = "opened" /\ handler'[s] = AfterWrite /\ disk'[s] = "stored"
       /\ file' = Overwritten(file, s)
    \/ handler[s] \in {"running", "opened"} /\ handler'[s] = AfterWrite
       /\ disk'[s] = "failed" /\ s \notin Invalid
    \/ handler[s] = "answering" /\ handler'[s] \in {"signalling", "finished"}
       /\ disk'[s] = disk[s]
    \/ handler[s] = "running" /\ handler'[s] = "finished" /\ disk'[s] = disk[s]
       /\ s \in Invalid
    \/ handler[s] = "signalling" /\ handler'[s] = "finished" /\ disk'[s] = disk[s]

AnswerMove(s) ==
    \/ answer'[s] = answer[s]
    \/ answer'[s] \in {"error", "timeout"}
    \/ handler[s] \in {"answering", "signalling"}
    \/ receiverType = "grpc" /\ s \in Invalid

LEMMA Moves ==
    ASSUME TypeOK, [Next]_vars, NEW s \in Requests
    PROVE  HandlerMove(s) /\ AnswerMove(s)
<1> USE DEF flags, outcome, storage, TypeOK, HandlerMove, AnswerMove
<1>1. CASE Start \/ StartFails \/ SendReturns \/ SendFails \/ ListenEnds
    BY <1>1 DEF Start, StartFails, SendReturns, SendFails, ListenEnds
<1>2. CASE StopTimeout \/ Drained \/ Exit
    BY <1>2 DEF StopTimeout, Drained, Exit
<1>3. ASSUME NEW r \in Requests, StopReceives(r) PROVE HandlerMove(s) /\ AnswerMove(s)
    BY <1>3 DEF StopReceives, Answered
<1>4. ASSUME NEW r \in Requests, Request(r) \/ GiveUp(r)
      PROVE HandlerMove(s) /\ AnswerMove(s)
    BY <1>4 DEF Request, GiveUp
<1>5. ASSUME NEW r \in Requests, ExportRejects(r) \/ HandleRejects(r)
      PROVE HandlerMove(s) /\ AnswerMove(s)
    BY <1>5 DEF ExportRejects, HandleRejects, Answered
<1>6. ASSUME NEW r \in Requests, OpenFile(r) PROVE HandlerMove(s) /\ AnswerMove(s)
    BY <1>6 DEF OpenFile
<1>7. ASSUME NEW r \in Requests, WriteFails(r) PROVE HandlerMove(s) /\ AnswerMove(s)
    BY <1>7 DEF WriteFails
<1>8. ASSUME NEW r \in Requests, WriteData(r) PROVE HandlerMove(s) /\ AnswerMove(s)
    BY <1>8 DEF WriteData
<1>9. ASSUME NEW r \in Requests, Respond(r) \/ RespondError(r) \/ RespondFails(r)
      PROVE HandlerMove(s) /\ AnswerMove(s)
    BY <1>9 DEF Respond, RespondError, RespondFails, Answered
<1>10. CASE UNCHANGED vars
    BY <1>10 DEF vars
<1>11. QED
    BY <1>1, <1>2, <1>3, <1>4, <1>5, <1>6, <1>7, <1>8, <1>9, <1>10
    DEF Next, Main, Stop, Handler

(* What a step can do to the main goroutine, to the token and to the file. *)
MainMove ==
    /\ receiverType' = receiverType
    /\ \/ main' = main
       \/ main' \in {"sending", "waiting", "draining", "died"}
       \/ main' = "exited" /\ main \in {"starting", "leaving"} /\ UNCHANGED handler
       \/ main' = "leaving" /\ receiverType # "grpc"
       \/ /\ main' = "leaving" /\ UNCHANGED handler
          /\ \A r \in Requests : ~Handling(r)
    /\ main = "starting" /\ main' = "starting" => UNCHANGED handler

FileMove ==
    \/ UNCHANGED file
    \/ \E r \in Requests : OpenFile(r) \/ WriteData(r)

TokenMove ==
    \/ UNCHANGED token
    \/ token' \in Requests /\ handler[token'] = "signalling"

LEMMA OtherMoves ==
    ASSUME TypeOK, [Next]_vars
    PROVE  MainMove /\ FileMove /\ TokenMove
<1> USE DEF flags, outcome, storage, TypeOK, MainMove, FileMove, TokenMove
<1>1. CASE Start \/ StartFails \/ SendReturns \/ SendFails \/ ListenEnds
    BY <1>1 DEF Start, StartFails, SendReturns, SendFails, ListenEnds
<1>2. CASE StopTimeout \/ Drained \/ Exit
    BY <1>2 DEF StopTimeout, Drained, Exit, AfterWait
<1>3. ASSUME NEW r \in Requests, StopReceives(r) PROVE MainMove /\ FileMove /\ TokenMove
    BY <1>3 DEF StopReceives, AfterWait
<1>4. ASSUME NEW r \in Requests, Request(r) \/ GiveUp(r)
      PROVE MainMove /\ FileMove /\ TokenMove
    BY <1>4 DEF Request, GiveUp, Accepting
<1>5. ASSUME NEW r \in Requests, ExportRejects(r) \/ HandleRejects(r)
      PROVE MainMove /\ FileMove /\ TokenMove
    BY <1>5 DEF ExportRejects, HandleRejects, Serving
<1>6. ASSUME NEW r \in Requests, OpenFile(r) \/ WriteFails(r) \/ WriteData(r)
      PROVE MainMove /\ FileMove /\ TokenMove
  <2>1. MainMove /\ TokenMove
    BY <1>6 DEF OpenFile, WriteFails, WriteData, Serving
  <2>2. FileMove
    BY <1>6 DEF WriteFails
  <2>3. QED
    BY <2>1, <2>2
<1>7. ASSUME NEW r \in Requests, Respond(r) \/ RespondError(r) \/ RespondFails(r)
      PROVE MainMove /\ FileMove /\ TokenMove
    BY <1>7 DEF Respond, RespondError, RespondFails, Serving
<1>8. CASE UNCHANGED vars
    BY <1>8 DEF vars
<1>9. QED
    BY <1>1, <1>2, <1>3, <1>4, <1>5, <1>6, <1>7, <1>8
    DEF Next, Main, Stop, Handler

--------------------------------------------------------------------------------
(* The state of a handler tells what has become of its data.               *)
InOrder ==
    /\ \A r \in Requests :
         /\ handler[r] \in {"idle", "running", "opened"} => disk[r] = "none"
         /\ handler[r] \in {"answering", "signalling"} => disk[r] # "none"
         /\ handler[r] \in {"opened", "answering", "signalling"} => r \notin Invalid
    /\ token # None => token \in Requests /\ disk[token] # "none"

LEMMA InOrderInit == Init => InOrder
  BY DEF Init, InOrder

LEMMA InOrderStep == TypeOK /\ InOrder /\ [Next]_vars => InOrder'
<1> SUFFICES ASSUME TypeOK, InOrder, [Next]_vars PROVE InOrder'
    OBVIOUS
<1>1. \A s \in Requests : HandlerMove(s)
    BY Moves
<1>2. ASSUME NEW r \in Requests
      PROVE  /\ handler'[r] \in {"idle", "running", "opened"} => disk'[r] = "none"
             /\ handler'[r] \in {"answering", "signalling"} => disk'[r] # "none"
             /\ handler'[r] \in {"opened", "answering", "signalling"} => r \notin Invalid
             /\ disk[r] # "none" => disk'[r] # "none"
    BY <1>1 DEF HandlerMove, InOrder, AfterWrite
<1>3. token' # None => token' \in Requests /\ disk'[token'] # "none"
    <2>1. TokenMove
        BY OtherMoves
    <2>2. CASE UNCHANGED token
        BY <1>2, <2>2 DEF InOrder
    <2>3. CASE token' \in Requests /\ handler[token'] = "signalling"
        BY <1>2, <2>3 DEF InOrder
    <2>4. QED
        BY <2>1, <2>2, <2>3 DEF TokenMove
<1>4. QED
    BY <1>2, <1>3 DEF InOrder

LEMMA AnsweredStep ==
    TypeOK /\ InOrder /\ AnsweredIsOnDisk /\ [Next]_vars => AnsweredIsOnDisk'
<1> SUFFICES ASSUME TypeOK, InOrder, AnsweredIsOnDisk, [Next]_vars,
                    NEW r \in Requests, answer'[r] = "ok"
             PROVE  disk'[r] # "none" \/ (receiverType' = "grpc" /\ r \in Invalid)
    BY DEF AnsweredIsOnDisk
<1>1. HandlerMove(r) /\ AnswerMove(r)
    BY Moves
<1>2. receiverType' = receiverType
    BY OtherMoves DEF MainMove
<1>3. disk[r] # "none" \/ (receiverType = "grpc" /\ r \in Invalid)
    BY <1>1 DEF AnswerMove, InOrder, AnsweredIsOnDisk
<1>4. disk[r] # "none" => disk'[r] # "none"
    BY <1>1 DEF HandlerMove, InOrder
<1>5. QED
    BY <1>2, <1>3, <1>4

(* An export is answered with success only after its data was handled.     *)
THEOREM AnswersFollowWrites == Spec => []AnsweredIsOnDisk
<1>1. Init => AnsweredIsOnDisk
    BY DEF Init, AnsweredIsOnDisk
<1>2. QED
    BY <1>1, AnsweredStep, InOrderInit, InOrderStep, TypeCorrect, PTL DEF Spec

--------------------------------------------------------------------------------
(* Before Start nothing is handled; after GracefulStop nothing is either.  *)
Quiet ==
    /\ main = "starting" => \A r \in Requests : handler[r] = "idle"
    /\ receiverType = "grpc" /\ main \in {"leaving", "exited"} =>
         \A r \in Requests : ~Handling(r)

LEMMA QuietStep == TypeOK /\ Quiet /\ [Next]_vars => Quiet'
<1> SUFFICES ASSUME TypeOK, Quiet, [Next]_vars PROVE Quiet'
    OBVIOUS
<1>1. MainMove
    BY OtherMoves
<1>2. \A s \in Requests : HandlerMove(s)
    BY Moves
<1>3. main' = "starting" => \A r \in Requests : handler'[r] = "idle"
    BY <1>1 DEF MainMove, Quiet
<1>4. ASSUME receiverType' = "grpc", main' \in {"leaving", "exited"}, NEW r \in Requests
      PROVE  ~Handling(r)'
    <2>1. CASE main' = main
        <3>1. ~Handling(r) /\ ~Accepting
            BY <1>1, <1>4, <2>1 DEF MainMove, Quiet, Accepting
        <3>2. QED
            BY <1>2, <3>1 DEF HandlerMove, Handling
    <2>2. CASE main' # main
        BY <1>1, <1>4, <2>2 DEF MainMove, Quiet, Handling
    <2>3. QED
        BY <2>1, <2>2
<1>5. QED
    BY <1>3, <1>4 DEF Quiet

(* The gRPC receiver never leaves a file truncated but not yet written.    *)
THEOREM GracefulStopWaitsForWrites == Spec => []GracefulFile
<1>1. Init => Quiet
    BY DEF Init, Quiet
<1>2. Quiet => GracefulFile
    BY DEF Quiet, GracefulFile, Handling
<1>3. QED
    BY <1>1, <1>2, QuietStep, TypeCorrect, PTL DEF Spec

--------------------------------------------------------------------------------
(* Nobody but t has touched the output file.                               *)
Sole(t) == \A r \in Requests \ {t} : Idle(r)

(* Then the file follows the handler of t.                                 *)
FileOfSole ==
    \A t \in Requests : Sole(t) =>
        /\ handler[t] = "opened" => file = <<>>
        /\ disk[t] = "stored" => file = Payload(t)

LEMMA OverwrittenEmpty ==
    ASSUME NEW r \in Requests
    PROVE  Overwritten(<<>>, r) = Payload(r)
<1>1. Size[r] \in Nat /\ Len(<<>>) = 0
    BY RequestsAssumption
<1>2. Longer(Len(<<>>), Size[r]) = Size[r]
    BY <1>1 DEF Longer
<1>3. QED
    BY <1>1, <1>2 DEF Overwritten, Payload

LEMMA FileOfSoleStep ==
    TypeOK /\ InOrder /\ FileOfSole /\ [Next]_vars => FileOfSole'
<1> SUFFICES ASSUME TypeOK, InOrder, FileOfSole, [Next]_vars,
                    NEW t \in Requests, Sole(t)'
             PROVE  /\ handler'[t] = "opened" => file' = <<>>
                    /\ disk'[t] = "stored" => file' = Payload(t)
    BY DEF FileOfSole
<1>1. \A s \in Requests : HandlerMove(s)
    BY Moves
<1>2. ASSUME NEW r \in Requests \ {t} PROVE Idle(r)
    <2>1. Idle(r)'
        BY DEF Sole
    <2>2. HandlerMove(r)
        BY <1>1
    <2>3. QED
        BY <2>1, <2>2 DEF Idle, HandlerMove, AfterWrite
<1>3. Sole(t)
    BY <1>2 DEF Sole
<1>4. FileMove
    BY OtherMoves
<1>5. CASE UNCHANGED file
    <2>1. HandlerMove(t)
        BY <1>1
    <2>2. CASE handler'[t] = handler[t] /\ disk'[t] = disk[t]
        BY <1>3, <1>5, <2>2 DEF FileOfSole
    <2>3. CASE handler[t] = "opened" /\ file' = Overwritten(file, t)
               /\ disk'[t] = "stored" /\ handler'[t] = AfterWrite
        BY <1>3, <2>3, OverwrittenEmpty DEF FileOfSole, AfterWrite
    <2>4. CASE handler[t] = "running" /\ handler'[t] = "opened" /\ disk'[t] = disk[t]
               /\ file' = <<>>
        BY <2>4 DEF InOrder
    <2>5. CASE handler'[t] # "opened" /\ disk'[t] \in {disk[t], "failed"}
        BY <1>3, <1>5, <2>5 DEF FileOfSole
    <2>6. QED
        BY <2>1, <2>2, <2>3, <2>4, <2>5 DEF HandlerMove, AfterWrite
<1>6. ASSUME NEW r \in Requests, OpenFile(r)
      PROVE  /\ handler'[t] = "opened" => file' = <<>>
             /\ disk'[t] = "stored" => file' = Payload(t)
    <2>1. r = t
        <3>1. handler'[r] = "opened" /\ r \notin Invalid
            BY <1>6 DEF OpenFile, TypeOK
        <3>2. QED
            BY <3>1 DEF Sole, Idle
    <2>2. disk'[t] = "none" /\ file' = <<>>
        BY <1>6, <2>1 DEF OpenFile, InOrder, storage
    <2>3. QED
        BY <2>2
<1>7. ASSUME NEW r \in Requests, WriteData(r)
      PROVE  /\ handler'[t] = "opened" => file' = <<>>
             /\ disk'[t] = "stored" => file' = Payload(t)
    <2>1. r = t
        BY <1>2, <1>7 DEF WriteData, Idle, InOrder
    <2>2. file = <<>> /\ handler'[t] # "opened"
        BY <1>3, <1>7, <2>1 DEF WriteData, FileOfSole, TypeOK, AfterWrite
    <2>3. file' = Payload(t)
        BY <1>7, <2>1, <2>2, OverwrittenEmpty DEF WriteData
    <2>4. QED
        BY <2>2, <2>3
<1>8. QED
    BY <1>4, <1>5, <1>6, <1>7 DEF FileMove

(* Data that ended the wait of Stop is in the file if nothing else came.   *)
THEOREM DeliveredDataIsStored == Spec => []SoleDelivery
<1>1. Init => FileOfSole
    BY DEF Init, FileOfSole
<1>2. TypeOK /\ InOrder /\ FileOfSole => SoleDelivery
    BY DEF TypeOK, InOrder, FileOfSole, Sole, SoleDelivery
<1>3. QED
    BY <1>1, <1>2, FileOfSoleStep, InOrderInit, InOrderStep, TypeCorrect, PTL
    DEF Spec

--------------------------------------------------------------------------------
(* A whole run of the command.                                             *)

(* What a run of the command does that the receiver does not see: it       *)
(* leaves everything but the main goroutine and its error as they are.     *)
SideStep ==
    /\ main \in {"starting", "sending"}
    /\ main' \in {"sending", "waiting", "exited"}
    /\ main' = "waiting" => receives
    /\ main' = "exited" => main = "starting" \/ ~receives
    /\ failed' \in BOOLEAN
    /\ UNCHANGED <<command, receiverType, token, handler, disk, file, answer, receives>>

(* A step that is none of those is one of the tool's, or stutters there.   *)
ToolStep ==
    /\ [Next]_vars
    /\ receives' = receives
    /\ receives \/ UNCHANGED vars

LEMMA CommandStep ==
    ASSUME [CommandNext]_commandVars, failed \in BOOLEAN
    PROVE  ToolStep \/ SideStep
<1> USE DEF flags, outcome, storage, request, transfer
<1>1. CASE NewSucceeds \/ Dial \/ Break
    BY <1>1 DEF NewSucceeds, Dial, Break, ToolStep
<1>2. CASE NewFails
    BY <1>2 DEF NewFails, SideStep
<1>3. CASE StartReceiver
    BY <1>3 DEF StartReceiver, ToolStep, Next, Main
<1>4. CASE StartAlone
    BY <1>4 DEF StartAlone, SideStep
<1>5. CASE ScrapeEnds
    BY <1>5 DEF ScrapeEnds, SendOver, SideStep
<1>6. CASE InputFails \/ CallReturns \/ CallFails \/ DialFails
    BY <1>6 DEF InputFails, CallReturns, CallFails, DialFails, Dialling, Sending,
                SendOver, SideStep
<1>7. CASE WriteReturns
    BY <1>7 DEF WriteReturns, Writing, Sending, SendOver, SideStep
<1>8. CASE WriteError
    <2>1. CASE Retries
        BY <1>8, <2>1 DEF WriteError, ToolStep, vars
    <2>2. CASE ~Retries
        BY <1>8, <2>2 DEF WriteError, Writing, Sending, SendOver, SideStep
    <2>3. QED
        BY <2>1, <2>2
<1>9. CASE ReceiverSide
    BY <1>9 DEF ReceiverSide, ToolStep, Next, Main
<1>10. CASE UNCHANGED commandVars
    BY <1>10 DEF commandVars, ToolStep
<1>11. QED
    BY <1>1, <1>2, <1>3, <1>4, <1>5, <1>6, <1>7, <1>8, <1>9, <1>10
    DEF CommandNext, Write

LEMMA CommandTypeStep ==
    TypeOK /\ Opened /\ [CommandNext]_commandVars => TypeOK' /\ Opened'
<1> SUFFICES ASSUME TypeOK, Opened, [CommandNext]_commandVars
             PROVE  TypeOK' /\ Opened'
    OBVIOUS
<1>1. CASE ToolStep
    BY <1>1, TypeStep DEF ToolStep
<1>2. CASE SideStep
    BY <1>2 DEF SideStep, TypeOK, Opened, MainPc
<1>3. QED
    BY <1>1, <1>2, CommandStep DEF TypeOK

(* Every variable of the receiver keeps its type in a run of the command.  *)
THEOREM CommandTypeCorrect == CommandSpec => []TypeOK
<1>1. CommandInit => TypeOK /\ Opened
    BY TypeInit DEF CommandInit
<1>2. CommandSpec => [](TypeOK /\ Opened)
    BY <1>1, CommandTypeStep, PTL DEF CommandSpec
<1>3. QED
    BY <1>2, PTL

--------------------------------------------------------------------------------
(* The invariants of the receiver, with the command around it.             *)

(* No request comes in before the receiver is started, or if there is      *)
(* none; and none is handled any more after GracefulStop.                  *)
CommandQuiet ==
    /\ receives \in BOOLEAN
    /\ ~receives => main \in {"starting", "sending", "exited"}
    /\ ~receives => \A r \in Requests : handler[r] = "idle"
    /\ Quiet

LEMMA CommandQuietStep ==
    TypeOK /\ CommandQuiet /\ [CommandNext]_commandVars => CommandQuiet'
<1> SUFFICES ASSUME TypeOK, CommandQuiet, [CommandNext]_commandVars
             PROVE  CommandQuiet'
    OBVIOUS
<1>1. CASE ToolStep
    <2>1. Quiet'
        BY <1>1, QuietStep DEF ToolStep, CommandQuiet
    <2>2. QED
        BY <1>1, <2>1 DEF ToolStep, CommandQuiet, vars
<1>2. CASE SideStep
    <2>1. main' = "exited" => \A r \in Requests : handler[r] = "idle"
        BY <1>2 DEF SideStep, CommandQuiet, Quiet
    <2>2. QED
        BY <1>2, <2>1 DEF SideStep, CommandQuiet, Quiet, Handling
<1>3. QED
    BY <1>1, <1>2, CommandStep DEF TypeOK

(* With a receiver or without, GracefulStop has waited for every handler   *)
(* by the time the command leaves Do: no file is cut off by the exit.      *)
THEOREM CommandStopsGracefully == CommandSpec => []GracefulFile
<1>1. CommandInit => CommandQuiet
    BY DEF CommandInit, Init, CommandQuiet, Quiet
<1>2. CommandQuiet => GracefulFile
    BY DEF CommandQuiet, Quiet, GracefulFile, Handling
<1>3. QED
    BY <1>1, <1>2, CommandQuietStep, CommandTypeCorrect, PTL DEF CommandSpec

(* What the handlers have done to the file and to their answers does not   *)
(* depend on what the sender does meanwhile.                               *)
Stored == InOrder /\ AnsweredIsOnDisk /\ FileOfSole

LEMMA StoredStep ==
    TypeOK /\ Stored /\ [CommandNext]_commandVars => Stored'
<1> SUFFICES ASSUME TypeOK, Stored, [CommandNext]_commandVars PROVE Stored'
    OBVIOUS
<1>1. CASE ToolStep
    BY <1>1, InOrderStep, AnsweredStep, FileOfSoleStep DEF ToolStep, Stored
<1>2. CASE SideStep
    BY <1>2 DEF SideStep, Stored, InOrder, AnsweredIsOnDisk, FileOfSole, Sole, Idle
<1>3. QED
    BY <1>1, <1>2, CommandStep DEF TypeOK

LEMMA StoredInvariant == CommandSpec => [](TypeOK /\ Stored)
<1>1. CommandInit => Stored
    BY InOrderInit DEF CommandInit, Init, Stored, AnsweredIsOnDisk, FileOfSole
<1>2. QED
    BY <1>1, StoredStep, CommandTypeCorrect, PTL DEF CommandSpec

(* The collector is told of a success only after the write, whatever the   *)
(* sender of the same command is at.                                       *)
THEOREM CommandAnswersFollowWrites == CommandSpec => []AnsweredIsOnDisk
<1>1. Stored => AnsweredIsOnDisk
    BY DEF Stored
<1>2. QED
    BY <1>1, StoredInvariant, PTL

(* A command that was ended by data has it in its file, byte for byte, if  *)
(* it is the only data that came and the write has succeeded.              *)
THEOREM CommandStoresDelivery == CommandSpec => []SoleDelivery
<1>1. TypeOK /\ Stored => SoleDelivery
    BY DEF TypeOK, Stored, InOrder, FileOfSole, Sole, SoleDelivery
<1>2. QED
    BY <1>1, StoredInvariant, PTL

--------------------------------------------------------------------------------
(* The writes of the senders.                                              *)

Writes == [from : {1}, accepted : 0 .. Lines, arrived : 0 .. Lines, ok : BOOLEAN]

(* Where the sender is in its attempts: none before it starts, and fewer   *)
(* than it may make as long as it goes on; a success is the last of them,  *)
(* is of the whole file, and ends the sending.                             *)
Attempted ==
    /\ sender \in AllSenders
    /\ command # "send" => sender = "call"
    /\ wire \in Seq(Writes)
    /\ main = "starting" \/ sender = "call" => wire = <<>>
    /\ sender = "call" => conn = "none"
    /\ sender # "call" => Len(wire) <= Attempts
    /\ sender # "call" /\ main \in {"starting", "sending"} =>
         /\ Len(wire) < Attempts
         /\ \A i \in 1 .. Len(wire) : ~wire[i].ok
    /\ main \in {"starting", "sending"} => ~failed
    /\ \A i \in 1 .. Len(wire) : wire[i].ok =>
         i = Len(wire) /\ wire[i].accepted = Lines
    /\ sender # "call" /\ main \notin {"starting", "sending", "died"} /\ ~failed =>
         wire # <<>> /\ wire[Len(wire)].ok

LEMMA AttemptsType == Attempts \in Nat \ {0}
<1>1. Attempts \in {FluentAttempts, 2, 1}
    BY DEF Attempts
<1>2. FluentAttempts \in Nat \ {0}
    BY SendersAssumption
<1>3. QED
    BY <1>1, <1>2

LEMMA WriteTypes ==
    /\ \A w \in Accepted(LinesLeft) : w \in Writes /\ w.ok /\ w.accepted = Lines
    /\ \A w \in Rejected(LinesLeft) : w \in Writes /\ ~w.ok
<1>1. Lines \in Nat \ {0} /\ LinesLeft = Lines /\ FirstLine = 1
    BY SendersAssumption DEF LinesLeft, FirstLine
<1>2. ASSUME NEW w \in Accepted(LinesLeft)
      PROVE  w \in Writes /\ w.ok /\ w.accepted = Lines
    <2>1. PICK k \in 0 .. Lines :
            w = [from |-> 1, accepted |-> Lines, arrived |-> k, ok |-> TRUE]
        BY <1>1 DEF Accepted
    <2>2. QED
        BY <1>1, <2>1 DEF Writes
<1>3. ASSUME NEW w \in Rejected(LinesLeft) PROVE w \in Writes /\ ~w.ok
    <2>1. PICK k \in 0 .. Lines, j \in 0 .. Lines :
            w = [from |-> 1, accepted |-> k, arrived |-> j, ok |-> FALSE]
        BY <1>1 DEF Rejected
    <2>2. QED
        BY <1>1, <2>1 DEF Writes
<1>4. QED
    BY <1>2, <1>3

(* The receiver ends the sending only by the death of the process.         *)
LEMMA ReceiverMove ==
    ASSUME ReceiverSide
    PROVE  /\ \/ main' = main
              \/ main' = "died"
              \/ /\ main \notin {"starting", "sending", "died"}
                 /\ main' \notin {"starting", "sending", "died"}
           /\ UNCHANGED <<command, failed, sender, conn, wire>>
<1> USE DEF flags, outcome, storage, request, transfer
<1>1. CASE StopTimeout \/ Drained \/ Exit
    BY <1>1 DEF ReceiverSide, StopTimeout, Drained, Exit, AfterWait
<1>2. ASSUME NEW r \in Requests, StopReceives(r)
      PROVE  /\ main \notin {"starting", "sending", "died"}
             /\ main' \notin {"starting", "sending", "died"}
             /\ UNCHANGED <<command, failed>>
    BY <1>2 DEF StopReceives, AfterWait
<1>3. ASSUME NEW r \in Requests, Request(r) \/ GiveUp(r) \/ Handler(r)
      PROVE  main' \in {main, "died"} /\ UNCHANGED <<command, failed>>
    BY <1>3 DEF Request, GiveUp, Handler, ExportRejects, HandleRejects, OpenFile,
       WriteFails, WriteData, Respond, RespondError, RespondFails
<1>4. QED
    BY <1>1, <1>2, <1>3 DEF ReceiverSide, Stop

LEMMA AttemptedInit == CommandInit => Attempted
<1> SUFFICES ASSUME CommandInit PROVE Attempted
    OBVIOUS
<1>1. sender \in AllSenders /\ (command # "send" => sender = "call")
    BY SendersAssumption DEF CommandInit, AllSenders
<1>2. wire = <<>> /\ conn = "none" /\ main = "starting" /\ ~failed
    BY DEF CommandInit, Init
<1>3. QED
    BY <1>1, <1>2, AttemptsType DEF Attempted

LEMMA AttemptedStep ==
    Attempted /\ [CommandNext]_commandVars => Attempted'
<1> SUFFICES ASSUME Attempted, [CommandNext]_commandVars PROVE Attempted'
    OBVIOUS
<1> USE DEF flags, outcome, storage, request, transfer
<1>0. sender' = sender => Attempts' = Attempts
    BY DEF Attempts
<1>1. CASE NewSucceeds
    BY <1>0, <1>1 DEF NewSucceeds, Attempted, vars, Syslog
<1>2. CASE NewFails \/ StartReceiver \/ StartAlone
    <2>1. /\ main = "starting" /\ UNCHANGED <<command, sender, wire, conn>>
          /\ \/ main' = "exited" /\ failed'
             \/ main' = "sending" /\ ~failed'
             \/ main' \notin {"starting", "sending"} /\ command = "receive"
        <3>1. CASE NewFails \/ StartFails
            BY <1>2, <3>1 DEF NewFails, StartReceiver, StartFails, StartAlone
        <3>2. CASE StartReceiver /\ Start
            BY <3>2 DEF StartReceiver, Start, Attempted
        <3>3. CASE StartAlone
            BY <3>3 DEF StartAlone, Attempted
        <3>4. QED
            BY <1>2, <3>1, <3>2, <3>3 DEF StartReceiver
    <2>2. QED
        BY <1>0, <2>1 DEF Attempted
<1>3. CASE ScrapeEnds
    BY <1>0, <1>3 DEF ScrapeEnds, SendOver, Attempted
<1>4. CASE InputFails \/ CallFails \/ DialFails
    BY <1>0, <1>4 DEF InputFails, CallFails, DialFails, Dialling, Sending, SendOver,
       Attempted
<1>5. CASE CallReturns
    BY <1>0, <1>5 DEF CallReturns, Sending, SendOver, Attempted
<1>6. CASE Dial \/ Break
    BY <1>0, <1>6 DEF Dial, Dialling, Break, Attempted, vars
<1>7. CASE WriteReturns
    <2>1. PICK w \in Accepted(LinesLeft) : wire' = Append(wire, w)
        BY <1>7 DEF WriteReturns
    <2>2. w \in Writes /\ w.ok /\ w.accepted = Lines
        BY WriteTypes
    <2>3. /\ main = "sending" /\ sender # "call" /\ command = "send"
          /\ main' \in {"waiting", "exited"}
          /\ UNCHANGED <<sender, command>>
        BY <1>7 DEF WriteReturns, Writing, Sending, SendOver, Attempted
    <2>4. QED
        BY <1>0, <2>1, <2>2, <2>3, AttemptsType DEF Attempted
<1>8. CASE WriteError
    <2>1. PICK w \in Rejected(LinesLeft) : wire' = Append(wire, w)
        BY <1>8 DEF WriteError
    <2>2. w \in Writes /\ ~w.ok
        BY WriteTypes
    <2>3. /\ main = "sending" /\ sender # "call" /\ command = "send"
          /\ \/ Len(wire) + 1 < Attempts /\ main' = main /\ failed' = failed
             \/ main' \in {"waiting", "exited"} /\ failed'
          /\ UNCHANGED <<sender, command>>
        BY <1>8 DEF WriteError, Retries, Writing, Sending, SendOver, Attempted
    <2>4. QED
        BY <1>0, <2>1, <2>2, <2>3, AttemptsType DEF Attempted
<1>9. CASE ReceiverSide
    BY <1>0, <1>9, ReceiverMove DEF Attempted
<1>10. CASE UNCHANGED commandVars
    BY <1>0, <1>10 DEF commandVars, vars, Attempted
<1>11. QED
    BY <1>1, <1>2, <1>3, <1>4, <1>5, <1>6, <1>7, <1>8, <1>9, <1>10
    DEF CommandNext, Write

LEMMA AttemptedInvariant == CommandSpec => []Attempted
  BY AttemptedInit, AttemptedStep, PTL DEF CommandSpec

LEMMA UpTo ==
    ASSUME NEW n \in Nat
    PROVE  IsFiniteSet(1 .. n) /\ Cardinality(1 .. n) = n
<1>1. 1 \in Int /\ n \in Int
    OBVIOUS
<1>2. IsFiniteSet(1 .. n)
    BY <1>1, FS_Interval, Zenon
<1>3. Cardinality(1 .. n) = IF 1 > n THEN 0 ELSE n - 1 + 1
    BY <1>1, FS_Interval, Zenon
<1>4. QED
    BY <1>2, <1>3

(* A command that succeeds has handed the whole file to one connection.    *)
THEOREM SuccessIsSentWhole == CommandSpec => []SentWhole
<1>1. Attempted => SentWhole
    <2> SUFFICES ASSUME Attempted, command = "send", sender # "call",
                        main \notin {"starting", "sending", "died"}, ~failed
                 PROVE  \E i \in DOMAIN wire :
                            wire[i].ok /\ Written(wire[i]) = 1 .. Lines
        BY DEF SentWhole
    <2>1. wire \in Seq(Writes) /\ wire # <<>> /\ wire[Len(wire)].ok
        BY DEF Attempted
    <2>2. Len(wire) \in DOMAIN wire /\ Len(wire) \in 1 .. Len(wire)
        BY <2>1
    <2>3. wire[Len(wire)] \in Writes /\ wire[Len(wire)].accepted = Lines
        BY <2>1, <2>2 DEF Attempted
    <2>4. Written(wire[Len(wire)]) = 1 .. Lines
        BY <2>3, SendersAssumption DEF Written, Writes
    <2>5. QED
        BY <2>1, <2>2, <2>4
<1>2. QED
    BY <1>1, AttemptedInvariant, PTL

(* Whatever breaks, no line is sent more often than the sender writes, and *)
(* nothing is sent after a success.                                        *)
THEOREM LinesAreNotMultiplied == CommandSpec => []LinesAtMostTwice
<1>1. Attempted => LinesAtMostTwice
    <2> SUFFICES ASSUME Attempted PROVE LinesAtMostTwice
        OBVIOUS
    <2>1. wire \in Seq(Writes) /\ DOMAIN wire = 1 .. Len(wire) /\ Len(wire) \in Nat
        BY DEF Attempted
    <2>2. \A i \in DOMAIN wire : wire[i].ok => i = Len(wire)
        BY <2>1 DEF Attempted
    <2>3. ASSUME NEW l \in 1 .. Lines PROVE Copies(l) \in Nat /\ Copies(l) <= Len(wire)
        <3>1. IsFiniteSet(1 .. Len(wire)) /\ Cardinality(1 .. Len(wire)) = Len(wire)
            BY <2>1, UpTo
        <3> DEFINE C == {i \in DOMAIN wire :
                            l \in wire[i].from .. wire[i].from + wire[i].arrived - 1}
        <3>2. C \in SUBSET (1 .. Len(wire))
            BY <2>1
        <3>3. IsFiniteSet(C) /\ Cardinality(C) <= Len(wire)
            BY <3>1, <3>2, FS_Subset
        <3>4. Cardinality(C) \in Nat
            BY <3>3, FS_CardinalityType
        <3>5. QED
            BY <3>3, <3>4 DEF Copies
    <2>4. Len(wire) <= Attempts
        BY AttemptsType, EmptySeq DEF Attempted
    <2>5. ASSUME NEW l \in 1 .. Lines PROVE Copies(l) <= Attempts
        BY <2>1, <2>3, <2>4, AttemptsType
    <2>6. QED
        BY <2>2, <2>5 DEF LinesAtMostTwice, Attempts
<1>2. QED
    BY <1>1, AttemptedInvariant, PTL

--------------------------------------------------------------------------------
(* The command implements the tool.                                        *)

(* Without a receiver nothing happens that the tool would see.             *)
LEMMA AloneStep ==
    ASSUME [CommandNext]_commandVars, failed \in BOOLEAN, ~receives
    PROVE  UNCHANGED <<command, receiverType, token, handler, disk, file, answer,
                       receives>>
<1>1. CASE ToolStep
    BY <1>1 DEF ToolStep, vars
<1>2. CASE SideStep
    BY <1>2 DEF SideStep
<1>3. QED
    BY <1>1, <1>2, CommandStep

LEMMA ToolInit ==
    ASSUME CommandInit
    PROVE  Tool!Init
BY DEF CommandInit, Init, Tool!Init

(* What the sender does is a stutter, a success or a failure of its one    *)
(* step of the tool; everything else is what it is there.                  *)
LEMMA ToolNext ==
    ASSUME Attempted, receives, failed \in BOOLEAN, [CommandNext]_commandVars
    PROVE  [Tool!Next]_(Tool!vars)
<1> USE DEF flags, outcome, storage, request, transfer, Tool!flags, Tool!outcome,
            Tool!storage, Tool!vars
<1>1. CASE NewSucceeds \/ Dial \/ Break \/ UNCHANGED commandVars
    BY <1>1 DEF NewSucceeds, Dial, Break, commandVars, vars
<1>2. CASE NewFails
    <2>1. Tool!StartFails
        BY <1>2 DEF NewFails, Tool!StartFails
    <2>2. QED
        BY <2>1 DEF Tool!Next, Tool!Main
<1>3. CASE StartReceiver
    <2>1. Tool!Start \/ Tool!StartFails
        BY <1>3 DEF StartReceiver, Start, StartFails, Tool!Start, Tool!StartFails
    <2>2. QED
        BY <2>1 DEF Tool!Next, Tool!Main
<1>4. CASE StartAlone
    BY <1>4 DEF StartAlone
<1>5. CASE ScrapeEnds
    <2>1. ~failed /\ failed' = FALSE
        BY <1>5 DEF ScrapeEnds, SendOver, Attempted
    <2>2. Tool!ListenEnds
        BY <1>5, <2>1 DEF ScrapeEnds, SendOver, Tool!ListenEnds
    <2>3. QED
        BY <2>2 DEF Tool!Next, Tool!Main
<1>6. ASSUME Sending, SendOver(TRUE), UNCHANGED request PROVE Tool!Next
    <2>1. Tool!SendFails
        BY <1>6 DEF Sending, SendOver, Tool!SendFails
    <2>2. QED
        BY <2>1 DEF Tool!Next, Tool!Main
<1>7. ASSUME Sending, SendOver(FALSE), UNCHANGED request PROVE Tool!Next
    <2>1. ~failed /\ failed' = FALSE
        BY <1>7 DEF Sending, SendOver, Attempted
    <2>2. Tool!SendReturns
        BY <1>7, <2>1 DEF Sending, SendOver, Tool!SendReturns
    <2>3. QED
        BY <2>2 DEF Tool!Next, Tool!Main
<1>8. CASE InputFails \/ CallFails \/ DialFails
    BY <1>6, <1>8 DEF InputFails, CallFails, DialFails, Dialling
<1>9. CASE CallReturns
    BY <1>7, <1>9 DEF CallReturns
<1>10. CASE WriteReturns
    BY <1>7, <1>10 DEF WriteReturns, Writing
<1>11. CASE WriteError
    <2>1. CASE Retries
        BY <1>11, <2>1 DEF WriteError
    <2>2. CASE ~Retries
        BY <1>6, <1>11, <2>2 DEF WriteError, Writing
    <2>3. QED
        BY <2>1, <2>2
<1>12. CASE ReceiverSide
    <2> USE DEF ReceiverSide
    <2>1. CASE StopTimeout \/ Drained \/ Exit
        <3>1. Tool!StopTimeout \/ Tool!Drained \/ Tool!Exit
            BY <1>12, <2>1 DEF StopTimeout, Drained, Exit, AfterWait, Handling,
               Tool!StopTimeout, Tool!Drained, Tool!Exit, Tool!AfterWait,
               Tool!Handling
        <3>2. QED
            BY <3>1 DEF Tool!Next, Tool!Main, Tool!Stop
    <2>2. ASSUME NEW r \in Requests, StopReceives(r) PROVE Tool!Next
        <3>1. Tool!StopReceives(r)
            BY <1>12, <2>2 DEF StopReceives, AfterWait, Answered,
               Tool!StopReceives, Tool!AfterWait, Tool!Answered
        <3>2. QED
            BY <3>1 DEF Tool!Next, Tool!Main, Tool!Stop
    <2>3. ASSUME NEW r \in Requests, Request(r) \/ GiveUp(r) PROVE Tool!Next
        <3>1. Tool!Request(r) \/ Tool!GiveUp(r)
            BY <1>12, <2>3 DEF Request, GiveUp, Accepting, Unanswered,
               Tool!Request, Tool!GiveUp, Tool!Accepting, Tool!Unanswered
        <3>2. QED
            BY <3>1 DEF Tool!Next
    <2>4. ASSUME NEW r \in Requests, Handler(r) PROVE Tool!Next
        <3>1. CASE ExportRejects(r) \/ HandleRejects(r)
            BY <1>12, <3>1 DEF ExportRejects, HandleRejects, Serving, Answered,
               Tool!ExportRejects, Tool!HandleRejects, Tool!Serving,
               Tool!Answered, Tool!Next, Tool!Handler
        <3>2. CASE OpenFile(r)
            BY <1>12, <3>2 DEF OpenFile, Serving, Tool!OpenFile, Tool!Serving,
               Tool!Next, Tool!Handler
        <3>3. CASE WriteFails(r)
            BY <1>12, <3>3 DEF WriteFails, Serving, AfterWrite, Tool!WriteFails,
               Tool!Serving, Tool!AfterWrite, Tool!Next, Tool!Handler
        <3>4. CASE WriteData(r)
            BY <1>12, <3>4 DEF WriteData, Serving, AfterWrite, Overwritten, Longer,
               Tool!WriteData, Tool!Serving, Tool!AfterWrite, Tool!Overwritten,
               Tool!Longer, Tool!Next, Tool!Handler
        <3>5. CASE Respond(r) \/ RespondError(r) \/ RespondFails(r)
            BY <1>12, <3>5 DEF Respond, RespondError, RespondFails, Serving,
               Answered, Tool!Respond, Tool!RespondError, Tool!RespondFails,
               Tool!Serving, Tool!Answered, Tool!Next, Tool!Handler
        <3>6. QED
            BY <2>4, <3>1, <3>2, <3>3, <3>4, <3>5 DEF Handler
    <2>5. QED
        BY <1>12, <2>1, <2>2, <2>3, <2>4 DEF Stop
<1>13. QED
    BY <1>1, <1>2, <1>3, <1>4, <1>5, <1>8, <1>9, <1>10, <1>11, <1>12
    DEF CommandNext, Write

(* The whole command, with every sender and every way in which it can      *)
(* fail, is the tool whose sender is a single step.                        *)
THEOREM CommandImplementsTool == CommandSpec => ToolSpec
<1>1. CommandInit => Tool!Init
    BY ToolInit
<1>2. TypeOK /\ Attempted /\ [CommandNext]_commandVars => [Tool!Next]_(Tool!vars)
    <2> SUFFICES ASSUME TypeOK, Attempted, [CommandNext]_commandVars
                 PROVE  [Tool!Next]_(Tool!vars)
        OBVIOUS
    <2>1. CASE receives
        BY <2>1, ToolNext DEF TypeOK
    <2>2. CASE ~receives
        <3>1. UNCHANGED <<command, receiverType, token, handler, disk, file, answer,
                          receives>>
            BY <2>2, AloneStep DEF TypeOK
        <3>2. QED
            BY <2>2, <3>1 DEF Tool!vars
    <2>3. QED
        BY <2>1, <2>2
<1>3. QED
    BY <1>1, <1>2, CommandTypeCorrect, AttemptedInvariant, PTL
    DEF CommandSpec, ToolSpec, Tool!Spec
================================================================================
