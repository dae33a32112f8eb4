------------------------------- MODULE IngestTool -------------------------------
(***************************************************************************)
(* The data ingest tool (src/internal/data-ingest-cli): a command starts a *)
(* receiver, sends its input to a collector under test, and stops the      *)
(* receiver again, which waits until the collector has delivered data or a *)
(* timeout expires.  The receiver writes what the collector delivers to    *)
(* one output file.                                                        *)
(*                                                                         *)
(* The main goroutine interleaves with one handler goroutine per export    *)
(* request.  They meet at receivedDataChan, an unbuffered channel: a       *)
(* handler blocks in its send until Stop receives, and Stop receives once. *)
(* The collector under test, the gRPC server and the file system are       *)
(* outside the repository and modelled from how the tool uses them.        *)
(***************************************************************************)
EXTENDS Naturals, Sequences

CONSTANTS
    Requests,       \* the export requests the collector may send
    Invalid,        \* those the handler cannot decode or encode
    Size,           \* Size[r]: the length of what r writes to the file
    Commands,       \* of "send", "receive", "prometheus"
    ReceiverTypes,  \* of "grpc", "http"
    Synchronous,    \* TRUE if the collector answers the sender only when
                    \* none of its own exports is waiting for an answer
    None            \* no request, no file

ASSUME RequestsAssumption ==
    /\ Invalid \subseteq Requests
    /\ Size \in [Requests -> Nat \ {0}]
    /\ None \notin Requests \cup Seq(Requests)
ASSUME FlagsAssumption ==
    /\ Commands \subseteq {"send", "receive", "prometheus"}
    /\ ReceiverTypes \subseteq {"grpc", "http"}
    /\ Synchronous \in BOOLEAN

VARIABLES
    command,       \* what Do does between Start and Stop
    receiverType,  \* which receiver New has made
    main,          \* where the main goroutine is
    failed,        \* TRUE if Do returns an error
    token,         \* the request whose signal ended the wait in Stop
    handler,       \* where the handler of each request is
    disk,          \* what became of WriteToFile for each request
    file,          \* whose bytes are in the output file
    answer         \* what the collector knows of each request

flags    == <<command, receiverType>>
outcome  == <<failed, token>>
storage  == <<disk, file>>
vars     == <<command, receiverType, main, failed, token, handler, disk, file, answer>>

MainPc == {"starting", "sending", "waiting", "draining", "leaving", "exited", "died"}

HandlerPc == {"idle", "running", "opened", "answering", "signalling", "finished"}

Init ==
    /\ command \in Commands
    /\ receiverType \in ReceiverTypes
    /\ main = "starting"
    /\ failed = FALSE
    /\ token = None
    /\ handler = [r \in Requests |-> "idle"]
    /\ disk = [r \in Requests |-> "none"]
    /\ file = None
    /\ answer = [r \in Requests |-> "none"]

--------------------------------------------------------------------------------
(* The main goroutine.                                                     *)

(* receiver.Start has a listener and serves in the background; the receive *)
(* command returns from Do at once, to its deferred Stop.                  *)
Start ==
    /\ main = "starting"
    /\ main' = IF command = "receive" THEN "waiting" ELSE "sending"
    /\ UNCHANGED <<handler, answer, flags, outcome, storage>>

(* receiver.Start cannot listen: Do returns the error, nothing to stop.    *)
StartFails ==
    /\ main = "starting"
    /\ main' = "exited"
    /\ failed' = TRUE
    /\ UNCHANGED <<token, handler, answer, flags, storage>>

(* The collector still owes the exporter of r an answer.                   *)
Unanswered(r) == handler[r] # "idle" /\ answer[r] = "none"

(* The sender delivered the input file to the collector.                   *)
SendReturns ==
    /\ main = "sending"
    /\ command = "send"
    /\ Synchronous => \A r \in Requests : ~Unanswered(r)
    /\ main' = "waiting"
    /\ UNCHANGED <<handler, answer, flags, outcome, storage>>

(* The file cannot be read or decoded, or the send fails.  The deferred    *)
(* Stop runs nevertheless.                                                 *)
SendFails ==
    /\ main = "sending"
    /\ command = "send"
    /\ main' = "waiting"
    /\ failed' = TRUE
    /\ UNCHANGED <<token, handler, answer, flags, storage>>

(* The endpoint of the prometheus command ends, its error is dropped.      *)
ListenEnds ==
    /\ main = "sending"
    /\ command = "prometheus"
    /\ main' = "waiting"
    /\ UNCHANGED <<handler, answer, flags, outcome, storage>>

(* Fault: Stop of the gRPC receiver ends without GracefulStop.             *)
MutStopAtOnce == "leaving"

(* What Stop does after its select.                                        *)
AfterWait == IF receiverType = "grpc" THEN "draining" ELSE "leaving"

(* The collector has what it knows of r unless it knew something before.   *)
Answered(r, what) ==
    answer' = [answer EXCEPT ![r] = IF @ = "none" THEN what ELSE @]

(* Stop receives from receivedDataChan: the send of r is done, and a gRPC  *)
(* handler returns its response.                                           *)
StopReceives(r) ==
    /\ main = "waiting"
    /\ handler[r] = "signalling"
    /\ main' = AfterWait
    /\ token' = r
    /\ handler' = [handler EXCEPT ![r] = "finished"]
    /\ IF receiverType = "grpc" THEN Answered(r, "ok") ELSE UNCHANGED answer
    /\ UNCHANGED <<failed, flags, storage>>

(* Fault: the wait for data has no time limit.                             *)
MutWaitForData ==
    /\ main = "waiting"
    /\ token # None
    /\ main' = AfterWait
    /\ UNCHANGED <<handler, answer, flags, outcome, storage>>

StopTimeout ==
    /\ main = "waiting"
    /\ main' = AfterWait
    /\ UNCHANGED <<handler, answer, flags, outcome, storage>>

Handling(r) == handler[r] \notin {"idle", "finished"}

(* GracefulStop and wg.Wait return: no handler runs any more.              *)
Drained ==
    /\ main = "draining"
    /\ \A r \in Requests : ~Handling(r)
    /\ main' = "leaving"
    /\ UNCHANGED <<handler, answer, flags, outcome, storage>>

(* main returns, or calls log.Fatalf with the error of Do.                 *)
Exit ==
    /\ main = "leaving"
    /\ main' = "exited"
    /\ UNCHANGED <<handler, answer, flags, outcome, storage>>

--------------------------------------------------------------------------------
(* The handlers: Export of the gRPC services, handleTraces, handleMetrics  *)
(* and handleLogs of the HTTP receiver.                                    *)

(* Handler goroutines run.                                                 *)
Serving == main \in {"sending", "waiting", "draining", "leaving"}

(* GracefulStop takes no new requests; the HTTP server is never stopped.   *)
Accepting ==
    \/ main \in {"sending", "waiting"}
    \/ main = "leaving" /\ receiverType = "http"

(* The collector exports r.                                                *)
Request(r) ==
    /\ Accepting
    /\ handler[r] = "idle"
    /\ handler' = [handler EXCEPT ![r] = "running"]
    /\ UNCHANGED <<main, answer, flags, outcome, storage>>

(* The exporter of the collector times out.                                *)
GiveUp(r) ==
    /\ Unanswered(r)
    /\ answer' = [answer EXCEPT ![r] = "timeout"]
    /\ UNCHANGED <<main, handler, flags, outcome, storage>>

(* gRPC: r cannot be encoded; answer it all the same and do not signal.    *)
ExportRejects(r) ==
    /\ Serving
    /\ receiverType = "grpc"
    /\ handler[r] = "running"
    /\ r \in Invalid
    /\ handler' = [handler EXCEPT ![r] = "finished"]
    /\ Answered(r, "ok")
    /\ UNCHANGED <<main, flags, outcome, storage>>

(* HTTP: no POST, an unreadable body or one that is no OTLP.  log.Fatalln  *)
(* ends the process before the error has been sent.                        *)
HandleRejects(r) ==
    /\ Serving
    /\ receiverType = "http"
    /\ handler[r] = "running"
    /\ r \in Invalid
    /\ main' = "died"
    /\ UNCHANGED <<handler, answer, flags, outcome, storage>>

(* Fault: the HTTP handlers signal before they answer, like the gRPC ones. *)
MutSignalFirst == "signalling"

(* What a handler does after WriteToFile.                                  *)
AfterWrite == IF receiverType = "grpc" THEN "signalling" ELSE "answering"

(* Fault: the data is written in the background.                           *)
MutWriteLater(r) ==
    /\ Serving
    /\ handler[r] = "running"
    /\ r \notin Invalid
    /\ handler' = [handler EXCEPT ![r] = AfterWrite]
    /\ file' = <<>>
    /\ UNCHANGED <<main, answer, disk, flags, outcome>>

(* os.WriteFile creates or truncates the file.                             *)
OpenFile(r) ==
    /\ Serving
    /\ handler[r] = "running"
    /\ r \notin Invalid
    /\ handler' = [handler EXCEPT ![r] = "opened"]
    /\ file' = <<>>
    /\ UNCHANGED <<main, answer, disk, flags, outcome>>

(* os.WriteFile fails, before or after the truncation.  WriteToFile logs   *)
(* the error, and the handler goes on as if the data had been stored.      *)
WriteFails(r) ==
    /\ Serving
    /\ handler[r] \in {"running", "opened"}
    /\ r \notin Invalid
    /\ handler' = [handler EXCEPT ![r] = AfterWrite]
    /\ disk' = [disk EXCEPT ![r] = "failed"]
    /\ UNCHANGED <<main, answer, file, flags, outcome>>

Longer(m, n) == IF m > n THEN m ELSE n

(* Fault: the data goes to the end of the file.                            *)
MutAppended(old, r) == old \o [i \in 1 .. Size[r] |-> r]

(* The bytes of r, from the start of the file over what is there.          *)
Overwritten(old, r) ==
    [i \in 1 .. Longer(Len(old), Size[r]) |-> IF i <= Size[r] THEN r ELSE old[i]]

(* os.WriteFile writes through its own descriptor and closes it.           *)
WriteData(r) ==
    /\ Serving
    /\ handler[r] = "opened"
    /\ handler' = [handler EXCEPT ![r] = AfterWrite]
    /\ file' = Overwritten(file, r)
    /\ disk' = [disk EXCEPT ![r] = "stored"]
    /\ UNCHANGED <<main, answer, flags, outcome>>

(* HTTP: write and flush the response, then signal.                        *)
Respond(r) ==
    /\ Serving
    /\ handler[r] = "answering"
    /\ handler' = [handler EXCEPT ![r] = "signalling"]
    /\ Answered(r, "ok")
    /\ UNCHANGED <<main, flags, outcome, storage>>

(* HTTP: the response cannot be encoded; status 500 and no signal.         *)
RespondError(r) ==
    /\ Serving
    /\ handler[r] = "answering"
    /\ handler' = [handler EXCEPT ![r] = "finished"]
    /\ Answered(r, "error")
    /\ UNCHANGED <<main, flags, outcome, storage>>

(* HTTP: the response cannot be written, which is fatal.                   *)
RespondFails(r) ==
    /\ Serving
    /\ handler[r] = "answering"
    /\ main' = "died"
    /\ UNCHANGED <<handler, answer, flags, outcome, storage>>

--------------------------------------------------------------------------------
Stop == StopTimeout \/ \E r \in Requests : StopReceives(r)

Main ==
    \/ Start \/ StartFails \/ SendReturns \/ SendFails \/ ListenEnds
    \/ Stop \/ Drained \/ Exit

Handler(r) ==
    \/ ExportRejects(r) \/ HandleRejects(r)
    \/ OpenFile(r) \/ WriteFails(r) \/ WriteData(r)
    \/ Respond(r) \/ RespondError(r) \/ RespondFails(r)

Next ==
    \/ Main
    \/ \E r \in Requests : Request(r) \/ GiveUp(r) \/ Handler(r)

Spec == Init /\ [][Next]_vars

(* Goroutines run, a request to the file system ends, the collector        *)
(* answers the sender, and the timer of Stop fires.                        *)
Fairness ==
    /\ WF_vars(Start)
    /\ WF_vars(SendReturns)
    /\ WF_vars(Stop)
    /\ WF_vars(Drained)
    /\ WF_vars(Exit)
    /\ \A r \in Requests : WF_vars(Handler(r))

FairSpec == Spec /\ Fairness

--------------------------------------------------------------------------------
(* Properties.                                                             *)

(* Every variable has its type; however many exports write the file, it is *)
(* never longer than one of them.                                          *)
TypeOK ==
    /\ command \in Commands
    /\ receiverType \in ReceiverTypes
    /\ main \in MainPc
    /\ failed \in BOOLEAN
    /\ token \in Requests \cup {None}
    /\ handler \in [Requests -> HandlerPc]
    /\ disk \in [Requests -> {"none", "stored", "failed"}]
    /\ file \in Seq(Requests) \cup {None}
    /\ file # None => \E r \in Requests : Len(file) <= Size[r]
    /\ answer \in [Requests -> {"none", "ok", "error", "timeout"}]

Payload(r) == [i \in 1 .. Size[r] |-> r]

(* Whether r has touched the output file, or may do so.                    *)
Idle(r) == handler[r] \in {"idle", "running"} \/ r \in Invalid

(* The collector is told that an export succeeded only after the attempt   *)
(* to store it; the one exception is a gRPC export that is no OTLP.        *)
AnsweredIsOnDisk ==
    \A r \in Requests :
        answer[r] = "ok" =>
            disk[r] # "none" \/ (receiverType = "grpc" /\ r \in Invalid)

(* The gRPC receiver waits for its handlers: however Stop came to its end, *)
(* no handler is between the truncation of the file and the write.         *)
GracefulFile ==
    receiverType = "grpc" /\ main \in {"leaving", "exited"} =>
        \A r \in Requests : handler[r] # "opened"

(* When Stop was ended by data, the data is in the file, byte for byte, as *)
(* long as no other export has come in and the write has succeeded.        *)
SoleDelivery ==
    token # None /\ (\A r \in Requests \ {token} : Idle(r)) =>
        disk[token] = "failed" \/ file = Payload(token)

Over == main \in {"exited", "died"}

(* Once it waits for data the tool terminates, with or without data, save  *)
(* for one case: GracefulStop waits for a gRPC handler whose signal nobody *)
(* will receive any more.                                                  *)
StopEnds ==
    main = "waiting" ~>
        \/ Over
        \/ main = "draining" /\ \E r \in Requests : handler[r] = "signalling"

(* A sender whose collector answers synchronously gets its answer, save    *)
(* for one cycle: the sender waits for the collector, which waits for a    *)
(* gRPC handler, which waits for Stop, which runs after the sender.        *)
SendEnds ==
    main = "sending" /\ command = "send" ~>
        \/ main # "sending"
        \/ /\ receiverType = "grpc"
           /\ \E r \in Requests : Unanswered(r) /\ handler[r] = "signalling"

--------------------------------------------------------------------------------
(* Claims of the README and of the flag descriptions that do not hold.     *)

(* receiver-timeout: "the maximum duration the tool waits for data from    *)
(* the collector before terminating".                                      *)
TerminatesAfterTimeout == main = "waiting" ~> Over

(* A tool that ended because data had arrived has stored a received        *)
(* payload in the output file.                                             *)
StoresReceivedPayload ==
    main = "exited" /\ token # None /\ (\A r \in Requests : disk[r] # "failed") =>
        file \in {Payload(r) : r \in Requests}
================================================================================
