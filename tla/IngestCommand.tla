----------------------------- MODULE IngestCommand -----------------------------
(***************************************************************************)
(* A whole run of the data ingest tool: New of the command that the flags  *)
(* select, Do with or without a receiver, and the sender that hands the    *)
(* input file to the collector under test.  IngestTool is the same tool    *)
(* seen from its receiver: there the sender is one step, and there always  *)
(* is a receiver.                                                          *)
(*                                                                         *)
(* The senders differ in what a success means.  otlp and zipkin call the   *)
(* collector and wait for its answer.  The others write the input to a     *)
(* connection, which may break at any time: a write may succeed although   *)
(* nothing arrives, or fail after a part has.  The syslog sender then      *)
(* dials again and repeats the write, once; the library of the fluent      *)
(* sender does so several times.                                           *)
(***************************************************************************)
EXTENDS IngestTool, FiniteSets

CONSTANTS
    Senders,   \* of AllSenders
    Lines,     \* the number of lines of the input file
    FluentAttempts  \* how often the library of fluent writes at most

AllSenders == {"call", "fluent", "syslog tcp", "syslog udp", "statsd tcp", "statsd udp"}

ASSUME SendersAssumption ==
    /\ Senders \subseteq AllSenders
    /\ {Lines, FluentAttempts} \subseteq Nat \ {0}

VARIABLES
    sender,     \* what the flags select, when the command is "send"
    receives,   \* TRUE if the flags ask for a receiver: -receive, a port, a file
    created,    \* TRUE once New has returned a command
    conn,       \* the connection of the sender
    wire        \* the writes so far: the first line and the number of lines
                \* handed over, those that arrive, and whether Write returned nil

request     == <<sender, receives>>
transfer    == <<created, conn, wire>>
commandVars == <<vars, request, transfer>>

Syslog   == {"syslog tcp", "syslog udp"}
Statsd   == {"statsd tcp", "statsd udp"}
Streams  == {"fluent", "syslog tcp", "statsd tcp"}

CommandInit ==
    /\ Init
    /\ sender \in IF command = "send" THEN Senders ELSE {"call"}
    /\ receives \in BOOLEAN
    /\ created = FALSE
    /\ conn = "none"
    /\ wire = <<>>

--------------------------------------------------------------------------------
(* main and New.                                                           *)

(* New of the command returns it.  syslog and fluent are connected by now. *)
NewSucceeds ==
    /\ main = "starting"
    /\ ~created
    /\ created' = TRUE
    /\ conn' = IF command = "send" /\ sender \in Syslog \cup {"fluent"}
               THEN "open" ELSE conn
    /\ UNCHANGED <<vars, request, wire>>

(* main or New refuses a flag, or the sender cannot be made: log.Fatalf.   *)
NewFails ==
    /\ main = "starting"
    /\ ~created
    /\ main' = "exited"
    /\ failed' = TRUE
    /\ UNCHANGED <<token, handler, answer, flags, storage, request, transfer>>

(* Do of a command that has a receiver.                                    *)
StartReceiver ==
    /\ created
    /\ receives
    /\ Start \/ StartFails
    /\ UNCHANGED <<request, transfer>>

(* Do without one: receive has nothing to do and says so.                  *)
StartAlone ==
    /\ created
    /\ ~receives
    /\ main = "starting"
    /\ main' = IF command = "receive" THEN "exited" ELSE "sending"
    /\ failed' = (command = "receive")
    /\ UNCHANGED <<token, handler, answer, flags, storage, request, transfer>>

(* Fault: an error of the sender is fatal at once, without Stop.           *)
MutFatalError(err) ==
    /\ main' = IF receives /\ ~err THEN "waiting" ELSE "exited"
    /\ failed' = err
    /\ UNCHANGED <<token, handler, answer, flags, storage>>

(* Do returns, with its deferred Stop if there is a receiver.              *)
SendOver(err) ==
    /\ main' = IF receives THEN "waiting" ELSE "exited"
    /\ failed' = err
    /\ UNCHANGED <<token, handler, answer, flags, storage>>

(* The endpoint for scrapes ends; its error is dropped.                    *)
ScrapeEnds ==
    /\ main = "sending"
    /\ command = "prometheus"
    /\ SendOver(FALSE)
    /\ UNCHANGED <<request, transfer>>

--------------------------------------------------------------------------------
(* The senders.                                                            *)

Sending == main = "sending" /\ command = "send"

(* The file cannot be read or decoded, or the command does not know the    *)
(* signal type, the version or the protocol.                               *)
InputFails ==
    /\ Sending
    /\ wire = <<>>
    /\ sender \in Statsd => conn = "none"
    /\ SendOver(TRUE)
    /\ UNCHANGED <<request, transfer>>

(* otlp, zipkin: the collector has answered.                               *)
CallReturns ==
    /\ Sending
    /\ sender = "call"
    /\ Synchronous => \A r \in Requests : ~Unanswered(r)
    /\ SendOver(FALSE)
    /\ UNCHANGED <<request, transfer>>

(* It cannot be reached, or answers with an error.                         *)
CallFails ==
    /\ Sending
    /\ sender = "call"
    /\ SendOver(TRUE)
    /\ UNCHANGED <<request, transfer>>

(* statsd dials when it sends, the others once a write has failed.         *)
Dialling == Sending /\ sender # "call" /\ conn = "none"

Dial ==
    /\ Dialling
    /\ conn' = "open"
    /\ UNCHANGED <<vars, request, created, wire>>

DialFails ==
    /\ Dialling
    /\ SendOver(TRUE)
    /\ UNCHANGED <<request, transfer>>

(* Fault: the repeated write starts where the first one has stopped.       *)
MutRemainder == IF wire = <<>> THEN 1 ELSE wire[1].from + wire[1].accepted

(* Every write is of the whole file.                                       *)
FirstLine == 1

(* Fault: the sender repeats the write as often as it takes.               *)
MutRetryAlways == sender \in Syslog

(* Only the first write of the syslog sender is repeated.                  *)
Attempts ==
    CASE sender = "fluent" -> FluentAttempts
      [] sender \in Syslog -> 2
      [] OTHER -> 1

(* A write that fails now is repeated.                                     *)
Retries == Len(wire) + 1 < Attempts

(* What may happen to n lines.  A stream delivers a prefix, all of it if   *)
(* the connection holds; a datagram is accepted, and arrives, as a whole.  *)
Accepted(n) == {[from |-> FirstLine, accepted |-> n, arrived |-> k, ok |-> TRUE] :
    k \in IF sender \notin Streams THEN {0, n}
          ELSE IF conn = "open" THEN {n} ELSE 0 .. n}

Rejected(n) == {[from |-> FirstLine, accepted |-> k, arrived |-> j, ok |-> FALSE] :
    k \in IF sender \in Streams THEN 0 .. n - 1 ELSE {0}, j \in 0 .. n - 1}

Writing == Sending /\ conn # "none"

LinesLeft == Lines + 1 - FirstLine

WriteReturns ==
    /\ Writing
    /\ \E w \in Accepted(LinesLeft) : wire' = Append(wire, w)
    /\ conn' = IF sender \in Statsd THEN "none" ELSE conn
    /\ SendOver(FALSE)
    /\ UNCHANGED <<request, created>>

(* The connection is broken, the deadline of statsd has passed, or the     *)
(* datagram is too long.  dial closes the connection first.                *)
WriteError ==
    /\ Writing
    /\ \E w \in Rejected(LinesLeft) : w.arrived <= w.accepted /\ wire' = Append(wire, w)
    /\ conn' = "none"
    /\ IF Retries
       THEN UNCHANGED <<main, failed, token, handler, answer, flags, storage>>
       ELSE SendOver(TRUE)
    /\ UNCHANGED <<request, created>>

(* The collector closes the connection, or the network loses it.           *)
Break ==
    /\ main \in {"starting", "sending"}
    /\ conn = "open"
    /\ conn' = "broken"
    /\ UNCHANGED <<vars, request, created, wire>>

--------------------------------------------------------------------------------
ReceiverSide ==
    /\ receives
    /\ \/ Stop \/ Drained \/ Exit
       \/ \E r \in Requests : Request(r) \/ GiveUp(r) \/ Handler(r)
    /\ UNCHANGED <<request, transfer>>

Write == WriteReturns \/ WriteError

CommandNext ==
    \/ NewSucceeds \/ NewFails \/ StartReceiver \/ StartAlone
    \/ ScrapeEnds \/ InputFails \/ CallReturns \/ CallFails
    \/ Dial \/ DialFails \/ Write \/ Break
    \/ ReceiverSide

CommandSpec == CommandInit /\ [][CommandNext]_commandVars

(* The goroutines of IngestTool run; a dial and a write return.            *)
FairCommand ==
    /\ CommandSpec
    /\ WF_commandVars(NewSucceeds)
    /\ WF_commandVars(StartReceiver)
    /\ WF_commandVars(StartAlone)
    /\ WF_commandVars(CallReturns)
    /\ WF_commandVars(Dial)
    /\ WF_commandVars(Write)
    /\ WF_commandVars(receives /\ Stop /\ UNCHANGED <<request, transfer>>)
    /\ WF_commandVars(receives /\ Drained /\ UNCHANGED <<request, transfer>>)
    /\ WF_commandVars(receives /\ Exit /\ UNCHANGED <<request, transfer>>)
    /\ \A r \in Requests :
        WF_commandVars(receives /\ Handler(r) /\ UNCHANGED <<request, transfer>>)

--------------------------------------------------------------------------------
(* Properties.                                                             *)

(* The tool with all its senders is the tool of IngestTool: whatever the   *)
(* sender does is one step there, after which Stop runs, and a tool that   *)
(* has no receiver is one that never starts.                               *)
Tool == INSTANCE IngestTool WITH
    Synchronous <- FALSE,
    main <- IF receives THEN main ELSE "starting",
    failed <- IF receives THEN failed ELSE FALSE

ToolSpec == Tool!Spec

Written(w) == w.from .. w.from + w.accepted - 1

(* A tool that reports no error has handed the whole file, in one piece,   *)
(* to one connection, however its earlier connections have ended.          *)
SentWhole ==
    /\ command = "send" /\ sender # "call"
    /\ main \notin {"starting", "sending", "died"} /\ ~failed
    => \E i \in DOMAIN wire : wire[i].ok /\ Written(wire[i]) = 1 .. Lines

Copies(l) ==
    Cardinality({i \in DOMAIN wire :
        l \in wire[i].from .. wire[i].from + wire[i].arrived - 1})

(* Nothing is written again after a success, a line that syslog sends      *)
(* reaches the collector at most twice, and one that statsd sends once.    *)
LinesAtMostTwice ==
    /\ \A i \in DOMAIN wire : wire[i].ok => i = Len(wire)
    /\ \A l \in 1 .. Lines :
        Copies(l) <= CASE sender = "fluent" -> FluentAttempts
                       [] sender \in Syslog -> 2
                       [] OTHER -> 1
================================================================================
