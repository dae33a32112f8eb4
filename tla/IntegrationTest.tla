---------------------------- MODULE IntegrationTest ----------------------------
(***************************************************************************)
(* An end-to-end test of the collector: how it takes ports, starts sinks   *)
(* and a collector, waits, compares what has arrived, and tears everything *)
(* down again, whichever step has failed.                                  *)
(*                                                                         *)
(* The tests are scripts over the helpers of src/internal/testcommon and   *)
(* src/internal/testbed/integration; Script has one of each kind.  A step  *)
(* that fails ends the test: its defers run, then its cleanups, each in    *)
(* reverse order.  Around the test are other programs on the host, which   *)
(* take ports and listen on them, the collector under test, and a          *)
(* collector that an earlier test has deleted and that has not ended yet.  *)
(***************************************************************************)
EXTENDS Telemetry, FiniteSets

CONSTANTS
    Kinds,          \* the kinds of tests
    Ephemeral,      \* the ports the system hands out
    Fixed,          \* the ports of the sinks of StartUpSinks, in order
    Items,          \* what the collector has to deliver, as it is to arrive
    Stray,          \* what the deleted collector of an earlier test delivers
    Data,           \* the resource metrics of every item and of Stray
    ResourceKeys, DatapointKeys,  \* the attributes a test ignores
    Golden,         \* the file of expected metrics
    MaxPayloads,    \* bound on what arrives at a sink
    MaxTaken,       \* bound on the ports that other programs take
    None

Ports == Ephemeral \cup ToSet(Fixed)
Roles == {"grpc", "http", "in", "out"}

Script == [
    local   |-> <<"grpc", "http", "sinks", "in", "prepare", "collector", "ready",
                  "healthy", "send", "wait", "poll">>,
    broker  |-> <<"grpc", "http", "sinks", "in", "prepare", "collector", "ready",
                  "send", "poll">>,
    cluster |-> <<"namespace", "sinks", "prepare", "objects", "wait", "poll">>,
    scale   |-> <<"sinks", "teardown", "setup", "wait", "poll">>,
    filter  |-> <<"in", "out", "prepare", "case", "sinks", "collector", "ready",
                  "load", "received", "validate">>]

ASSUME KindsAssumption == Kinds \subseteq DOMAIN Script

ASSUME PortsAssumption ==
    /\ None \notin Ports \cup {"sink", "collector", "other"}
    /\ Fixed \in Seq(Ports) /\ Fixed # <<>>
    /\ IsInjective(Fixed)
    /\ ToSet(Fixed) \cap Ephemeral = {}

ASSUME DataAssumption ==
    /\ IsFiniteSet(Items)
    /\ Stray \notin Items
    /\ {MaxPayloads, MaxTaken} \subseteq Nat
    /\ \A i \in Items \cup {Stray} : AreResources(<<Data[i]>>)

(* The text of the attributes is known.                                    *)
ASSUME TextAssumption ==
    \A i \in Items \cup {Stray} : \A attrs \in AttributesOf(<<Data[i]>>) :
        \A k \in DOMAIN attrs : k \in ToSet(KeyOrder) /\ {attrs[k], "*"} \subseteq DOMAIN AsString

(* The file has been written from metrics without what a test ignores.     *)
ASSUME GoldenAssumption ==
    \A y \in Points(Golden) :
        Star(y[1], ResourceKeys) = y[1] /\ Star(y[4], DatapointKeys) = y[4]

VARIABLES
    kind,       \* the kind of the test
    pc,         \* its next step in Script
    phase,      \* "run", "end" while it cleans up, "over", or "died" of a panic
    failures,   \* the steps that have failed
    defers, cleanups,  \* what is left to be run at the end
    port,       \* the port chosen for each role
    holder,     \* who listens on each port
    up,         \* the sinks that have started
    collector,  \* the state of the collector under test
    pending,    \* the items it has accepted and not delivered
    sent,       \* TRUE once the test has sent its items
    delivered,  \* the items it has delivered to the first sink
    sink,       \* the payloads in the first sink
    snap,       \* what a test has read of them
    stray,      \* TRUE as long as the deleted collector runs
    taken       \* the number of ports taken by others

script    == <<kind, pc, phase, failures>>
endings   == <<defers, cleanups>>
network   == <<port, holder>>
sut       == <<collector, pending, delivered>>
received  == <<sink, snap>>
outside   == <<stray, taken>>
vars      == <<script, endings, network, up, sut, sent, received, outside>>

Init ==
    /\ kind \in Kinds
    /\ pc = 1 /\ phase = "run" /\ failures = {}
    /\ defers = <<>> /\ cleanups = <<>>
    /\ port = [r \in Roles |-> None]
    /\ holder = [p \in Ports |-> None]
    /\ up = {}
    /\ collector = "none" /\ pending = {} /\ sent = FALSE /\ delivered = {}
    /\ sink = <<>> /\ snap = None
    /\ stray \in {FALSE} \cup IF kind \in {"cluster", "scale"} THEN {TRUE} ELSE {}
    /\ taken = 0

--------------------------------------------------------------------------------
(* The steps of a script.                                                  *)

OnHost == kind \notin {"cluster", "scale"}

Ended == pc > Len(Script[kind])
At(step) == phase = "run" /\ ~Ended /\ Script[kind][pc] = step
Step == Script[kind][pc]

(* require.NoError and its kin: t.FailNow.                                 *)
Fatal ==
    /\ phase' = "end"
    /\ failures' = failures \cup {Step}
    /\ UNCHANGED <<kind, pc>>

(* t.Error and assert: the test goes on.                                   *)
Reported(ok) ==
    /\ pc' = pc + 1
    /\ failures' = IF ok THEN failures ELSE failures \cup {Step}
    /\ UNCHANGED <<kind, phase>>

Done == Reported(TRUE)

Deferred(e)   == defers' = Append(defers, e) /\ UNCHANGED cleanups
OnCleanup(e)  == cleanups' = Append(cleanups, e) /\ UNCHANGED defers

Free(p) == holder[p] = None

(* Fault: the listener that has found the port is not closed.              *)
MutKeepListener(r) ==
    \E p \in Ephemeral :
        /\ Free(p)
        /\ port' = [port EXCEPT ![r] = p]
        /\ holder' = [holder EXCEPT ![p] = "finder"]

(* Listen on port 0, note the port and close the listener.  Nobody keeps   *)
(* the port, and the next call may find the same one.                      *)
FindPort(r) ==
    \E p \in Ephemeral :
        /\ Free(p)
        /\ port' = [port EXCEPT ![r] = p]
        /\ UNCHANGED holder

GetAvailablePort ==
    \E r \in Roles :
        /\ At(r)
        /\ FindPort(r)
        /\ Done
        /\ UNCHANGED <<endings, up, sut, sent, received, outside>>

NoPort ==
    /\ \E r \in Roles : At(r)
    /\ \A p \in Ephemeral : ~Free(p)
    /\ Fatal
    /\ UNCHANGED <<endings, network, up, sut, sent, received, outside>>

(* Reading the config, its edits or overlays, and writing it to a file.  An *)
(* edit that changes nothing is an error.                                  *)
PrepareConfig ==
    /\ At("prepare")
    /\ Done \/ Fatal
    /\ UNCHANGED <<endings, network, up, sut, sent, received, outside>>

--------------------------------------------------------------------------------
(* Sinks.                                                                  *)

SinkCount == IF OnHost THEN 1 ELSE Len(Fixed)

SinkPorts(n) ==
    CASE ~OnHost         -> <<Fixed[n]>>
      [] kind = "filter" -> <<port["out"]>>
      [] OTHER           -> <<port["grpc"], port["http"]>>

CanListen(ports) == IsInjective(ports) /\ \A p \in ToSet(ports) : Free(p)

(* Fault: all tests defer the shutdown of their sinks.                     *)
MutDeferSinks == IF kind = "filter" THEN UNCHANGED endings ELSE Deferred("sinks")

(* The shutdown of the sinks is a defer of the callers of StartUpSinks and *)
(* a cleanup of StartReceiver.  The test case that stops the backend of    *)
(* filter is there already.                                                *)
RegisterShutdown ==
    CASE ~OnHost         -> Deferred("sinks")
      [] kind = "filter" -> UNCHANGED endings
      [] OTHER           -> OnCleanup("sinks")

(* Start of the next sink; after the last one their end is registered.     *)
StartSink ==
    LET n == Cardinality(up) + 1 IN
    /\ At("sinks")
    /\ CanListen(SinkPorts(n))
    /\ holder' = [p \in Ports |-> IF p \in ToSet(SinkPorts(n)) THEN "sink" ELSE holder[p]]
    /\ up' = up \cup {n}
    /\ IF n < SinkCount
       THEN UNCHANGED <<script, endings>>
       ELSE Done /\ RegisterShutdown
    /\ UNCHANGED <<port, sut, sent, received, outside>>

(* A receiver releases what it holds when it cannot start; the sinks that  *)
(* have started before it are left as they are.                            *)
StartSinkFails ==
    /\ At("sinks")
    /\ ~CanListen(SinkPorts(Cardinality(up) + 1))
    /\ Fatal
    /\ UNCHANGED <<endings, network, up, sut, sent, received, outside>>

--------------------------------------------------------------------------------
(* The collector.                                                          *)

(* Fault: Stop is left to the test.                                        *)
MutLeftToTest ==
    /\ At("collector")
    /\ collector' = "started"
    /\ UNCHANGED endings

(* StartCollector and StartAgent: the process runs, and will be stopped.   *)
Launch ==
    /\ At("collector")
    /\ collector' = "started"
    /\ IF kind = "filter" THEN UNCHANGED endings ELSE OnCleanup("collector")

StartCollector ==
    /\ Launch
    /\ Done
    /\ UNCHANGED <<network, up, pending, sent, delivered, received, outside>>

StartCollectorFails ==
    /\ At("collector")
    /\ Fatal
    /\ UNCHANGED <<endings, network, up, sut, sent, received, outside>>

(* NewTestCase, with the cleanup that stops all it will start.             *)
NewTestCase ==
    /\ At("case")
    /\ OnCleanup("case")
    /\ Done
    /\ UNCHANGED <<network, up, sut, sent, received, outside>>

(* The namespace of a test, whose deletion takes along what is in it.      *)
CreateNamespace ==
    /\ At("namespace")
    /\ \/ Done /\ Deferred("deleteNamespace")
       \/ Fatal /\ UNCHANGED endings
    /\ UNCHANGED <<network, up, sut, sent, received, outside>>

(* prometheus-large-scale registers its teardown before the set-up.        *)
RegisterTeardown ==
    /\ At("teardown")
    /\ OnCleanup("teardown")
    /\ Done
    /\ UNCHANGED <<network, up, sut, sent, received, outside>>

(* The objects are created one by one, the collector among them.  Their    *)
(* deletion is registered when all exist.                                  *)
CreateCollectorObjects ==
    /\ At("objects") \/ At("setup")
    /\ \/ /\ collector' = "started"
          /\ Done
          /\ IF kind = "cluster" THEN Deferred("deleteObjects") ELSE UNCHANGED endings
       \/ /\ collector' \in {"none", "started"}
          /\ Fatal
          /\ UNCHANGED endings
    /\ UNCHANGED <<network, up, pending, sent, delivered, received, outside>>

(* The process listens on its port, or ends because it cannot.             *)
CollectorListens ==
    /\ collector = "started"
    /\ IF OnHost
       THEN IF Free(port["in"])
            THEN collector' = "running" /\ holder' = [holder EXCEPT ![port["in"]] = "collector"]
            ELSE collector' = "exited" /\ UNCHANGED holder
       ELSE collector' = "running" /\ UNCHANGED holder
    /\ UNCHANGED <<script, endings, port, up, pending, delivered, sent, received, outside>>

(* WaitForListener: anything that accepts a connection will do.            *)
WaitForListener ==
    /\ At("ready")
    /\ ~Free(port["in"])
    /\ Done
    /\ UNCHANGED <<endings, network, up, sut, sent, received, outside>>

(* After 30 seconds.  StartAgent reports the error and goes on.            *)
NothingListens ==
    /\ At("ready")
    /\ Free(port["in"])
    /\ IF kind = "filter" THEN Reported(FALSE) ELSE Fatal
    /\ UNCHANGED <<endings, network, up, sut, sent, received, outside>>

(* WaitForHealthCheck: only a collector answers the request.               *)
WaitForHealthCheck ==
    /\ At("healthy")
    /\ IF holder[port["in"]] = "collector" THEN Done ELSE Fatal
    /\ UNCHANGED <<endings, network, up, sut, sent, received, outside>>

--------------------------------------------------------------------------------
(* What the test sends, and what arrives.                                  *)

(* The exports of a client, each of which has to succeed.                  *)
Send ==
    /\ At("send")
    /\ \/ /\ holder[port["in"]] = "collector"
          /\ pending' = Items
          /\ sent' = TRUE
          /\ Done
       \/ /\ pending' \in IF holder[port["in"]] = "collector" THEN SUBSET Items ELSE {{}}
          /\ Fatal
          /\ UNCHANGED sent
    /\ UNCHANGED <<endings, network, up, collector, delivered, received, outside>>

(* The generator counts its only batch when it has made it, be it accepted *)
(* or not; two seconds may pass before it has made any.                    *)
Load ==
    /\ At("load")
    /\ sent' \in BOOLEAN
    /\ pending' \in IF sent' /\ holder[port["in"]] = "collector" THEN {{}, Items} ELSE {{}}
    /\ Done
    /\ UNCHANGED <<endings, network, up, collector, delivered, received, outside>>

Payloads(S) == UNION {SetToSeqs(T) : T \in (SUBSET S) \ {{}}}

(* The collector arranges what it delivers as it likes, and repeats it     *)
(* when the answer is lost.  In a cluster it collects the items anew.      *)
Deliver ==
    /\ collector \in {"running", "terminating"}
    /\ 1 \in up
    /\ Len(sink) < MaxPayloads
    /\ \E payload \in Payloads(IF OnHost THEN pending ELSE Items) :
        /\ sink' = Append(sink, payload)
        /\ delivered' = delivered \cup ToSet(payload)
        /\ pending' \in {pending, pending \ ToSet(payload)}
    /\ UNCHANGED <<script, endings, network, up, collector, sent, snap, outside>>

StrayDelivers ==
    /\ stray
    /\ 1 \in up
    /\ Len(sink) < MaxPayloads
    /\ sink' = Append(sink, <<Stray>>)
    /\ UNCHANGED <<script, endings, network, up, sut, sent, snap, outside>>

StrayEnds ==
    /\ stray
    /\ stray' = FALSE
    /\ UNCHANGED <<script, endings, network, up, sut, sent, received, taken>>

(* Other programs on the host.                                             *)
Take ==
    /\ phase = "run"
    /\ taken < MaxTaken
    /\ \E p \in Ports : Free(p) /\ holder' = [holder EXCEPT ![p] = "other"]
    /\ taken' = taken + 1
    /\ UNCHANGED <<script, endings, port, up, sut, sent, received, stray>>

Leave ==
    /\ phase = "run"
    /\ \E p \in Ports : holder[p] = "other" /\ holder' = [holder EXCEPT ![p] = None]
    /\ UNCHANGED <<script, endings, port, up, sut, sent, received, outside>>

--------------------------------------------------------------------------------
(* Waiting and comparing.                                                  *)

(* Fault: the wait has no timeout.                                         *)
MutWaitForEver ==
    /\ At("wait")
    /\ sink # <<>>
    /\ Done
    /\ UNCHANGED <<endings, network, up, sut, sent, received, outside>>

(* At least one payload within five minutes.                               *)
WaitForMetrics ==
    /\ At("wait")
    /\ IF sink # <<>> THEN Done ELSE Fatal
    /\ UNCHANGED <<endings, network, up, sut, sent, received, outside>>

MetricsOf(items) == Each(items, LAMBDA i : Data[i])

(* A tick of the poll looks at the last payload, or at all.                *)
Got == IF kind \in {"local", "cluster"} THEN Last(sink) ELSE FlattenSeq(sink)

(* The tests of the broker compare with what they have sent; the others    *)
(* with a file, without what differs from run to run.                      *)
Matches(items) ==
    IF kind = "broker"
    THEN IsInjective(items) /\ ToSet(items) = Items
    ELSE AssertMetrics(Golden, DeduplicateResources(
            ReplaceAttrValsWithStar(MetricsOf(items), ResourceKeys, DatapointKeys)))

(* A tick that matches ends the poll.  One that does not changes nothing,  *)
(* except in the tests of the broker, whose ticks move the data out of the *)
(* payloads of the sink: the next tick finds only what has come since.     *)
Poll ==
    /\ At("poll")
    /\ kind # "cluster"
    /\ IF Matches(Got) THEN Done ELSE UNCHANGED script
    /\ sink' = IF kind = "broker" THEN Each(sink, LAMBDA payload : <<>>) ELSE sink
    /\ UNCHANGED <<endings, network, up, sut, sent, snap, outside>>

(* The tests in a cluster read the payloads twice in one expression, once  *)
(* for the list and once for the index of its last element.                *)
PollFirst ==
    /\ At("poll")
    /\ kind = "cluster"
    /\ snap = None
    /\ snap' = Len(sink)
    /\ UNCHANGED <<script, endings, network, up, sut, sent, sink, outside>>

PollSecond ==
    /\ At("poll")
    /\ snap = Len(sink)
    /\ snap' = None
    /\ IF Matches(Got) THEN Done ELSE UNCHANGED script
    /\ UNCHANGED <<endings, network, up, sut, sent, sink, outside>>

(* The list is too short for the index: the test binary dies, and with it  *)
(* its sinks.                                                              *)
PollPanics ==
    /\ At("poll")
    /\ snap # None /\ snap < Len(sink)
    /\ phase' = "died"
    /\ up' = {}
    /\ holder' = [p \in Ports |-> IF holder[p] = "sink" THEN None ELSE holder[p]]
    /\ UNCHANGED <<kind, pc, failures, endings, port, sut, sent, received, outside>>

PollTimeout ==
    /\ At("poll")
    /\ Fatal
    /\ UNCHANGED <<endings, network, up, sut, sent, received, outside>>

(* WaitForN: as many items received as sent, within 30 seconds.            *)
WaitForN ==
    /\ At("received")
    /\ Reported(Len(FlattenSeq(sink)) = IF sent THEN Cardinality(Items) ELSE 0)
    /\ UNCHANGED <<endings, network, up, sut, sent, received, outside>>

(* Fault: the rest of the batch of an expected item is not compared.       *)
MutValidateItems(payload) == ToSet(payload) \subseteq Items

(* Every received item is one of those expected, and its batch as a whole  *)
(* is the expected batch with that item.                                   *)
Validated(payload) ==
    \A i \in ToSet(payload) :
        i \in Items /\ IsInjective(payload) /\ ToSet(payload) = Items

Validate ==
    /\ At("validate")
    /\ IF \A payload \in ToSet(sink) : Validated(payload) THEN Done ELSE Fatal
    /\ UNCHANGED <<endings, network, up, sut, sent, received, outside>>

--------------------------------------------------------------------------------
(* The end.                                                                *)

Finish ==
    /\ phase = "run"
    /\ Ended
    /\ phase' = "end"
    /\ UNCHANGED <<kind, pc, failures, endings, network, up, sut, sent, received, outside>>

(* The defers run first, and both from the last one registered.            *)
Run(entry) ==
    /\ phase = "end"
    /\ IF defers # <<>>
       THEN /\ Last(defers) = entry
            /\ defers' = Front(defers)
            /\ UNCHANGED cleanups
       ELSE /\ cleanups # <<>>
            /\ Last(cleanups) = entry
            /\ cleanups' = Front(cleanups)
            /\ UNCHANGED defers
    /\ UNCHANGED <<kind, pc, phase, port, pending, sent, delivered, received, outside>>

Released(by) == [p \in Ports |-> IF holder[p] \in by THEN None ELSE holder[p]]

ShutDownSinks ==
    /\ Run("sinks")
    /\ up' = {}
    /\ holder' = Released({"sink"})
    /\ UNCHANGED <<collector, failures>>

(* A process that has ended by itself makes Stop fail.                     *)
Stopped ==
    /\ collector' = IF collector = "none" THEN "none" ELSE "gone"
    /\ failures' = failures \cup IF collector = "exited" THEN {"stop"} ELSE {}

StopCollector ==
    /\ Run("collector")
    /\ Stopped
    /\ holder' = Released({"collector"})
    /\ UNCHANGED up

(* TestCase.Stop: the load, the backend and the collector.                 *)
StopCase ==
    /\ Run("case")
    /\ Stopped
    /\ up' = {}
    /\ holder' = Released({"sink", "collector"})

(* Deletion only asks the cluster to end the collector.                    *)
Deleted == IF collector \in {"started", "running"} THEN "terminating" ELSE collector

(* The first object that cannot be deleted ends the loop over them; the    *)
(* other defers still run.  A failed teardown is only logged.              *)
Delete(entry) ==
    /\ Run(entry)
    /\ \/ collector' = Deleted /\ UNCHANGED failures
       \/ collector' \in {collector, Deleted} /\ failures' = failures \cup {entry}
    /\ UNCHANGED <<up, holder>>

DeleteFromCluster == \E entry \in {"deleteObjects", "deleteNamespace", "teardown"} : Delete(entry)

Terminate ==
    /\ collector = "terminating"
    /\ collector' = "gone"
    /\ UNCHANGED <<script, endings, network, up, pending, delivered, sent, received, outside>>

Over ==
    /\ phase = "end"
    /\ defers = <<>> /\ cleanups = <<>>
    /\ phase' = "over"
    /\ UNCHANGED <<kind, pc, failures, endings, network, up, sut, sent, received, outside>>

--------------------------------------------------------------------------------
Progress ==
    \/ GetAvailablePort \/ NoPort \/ PrepareConfig
    \/ StartSink \/ StartSinkFails
    \/ StartCollector \/ StartCollectorFails \/ NewTestCase
    \/ CreateNamespace \/ RegisterTeardown \/ CreateCollectorObjects
    \/ WaitForListener \/ NothingListens \/ WaitForHealthCheck
    \/ Send \/ Load \/ WaitForMetrics \/ WaitForN \/ Validate
    \/ Finish \/ ShutDownSinks \/ StopCollector \/ StopCase \/ DeleteFromCluster \/ Over

Next ==
    \/ Progress
    \/ Poll \/ PollFirst \/ PollSecond \/ PollPanics \/ PollTimeout
    \/ CollectorListens \/ Deliver \/ Terminate
    \/ StrayDelivers \/ StrayEnds \/ Take \/ Leave

Spec == Init /\ [][Next]_vars

(* Every wait of a test ends at a timeout, and nothing else holds it up.   *)
FairSpec == Spec /\ WF_vars(Progress) /\ WF_vars(PollTimeout)

--------------------------------------------------------------------------------
(* Properties.                                                             *)

Entries == {"sinks", "collector", "case", "deleteObjects", "deleteNamespace", "teardown"}

(* The type of the variables; the end of a test is registered once.        *)
TypeOK ==
    /\ kind \in Kinds
    /\ pc \in 1 .. Len(Script[kind]) + 1
    /\ phase \in {"run", "end", "over", "died"}
    /\ ToSet(defers) \subseteq Entries /\ ToSet(cleanups) \subseteq Entries
    /\ IsInjective(defers \o cleanups)
    /\ port \in [Roles -> Ephemeral \cup {None}]
    /\ holder \in [Ports -> {None, "sink", "collector", "other"}]
    /\ up \subseteq 1 .. SinkCount
    /\ collector \in {"none", "started", "running", "exited", "terminating", "gone"}
    /\ pending \subseteq Items /\ delivered \subseteq Items
    /\ {sent, stray} \subseteq BOOLEAN
    /\ \A n \in DOMAIN sink : ToSet(sink[n]) \subseteq Items \cup {Stray}
    /\ snap \in 0 .. MaxPayloads \cup {None}
    /\ taken \in 0 .. MaxTaken

Runs == collector \in {"started", "running"}

(* Whichever step has failed, a test that is over has given back its ports *)
(* and stopped its collector.  The exceptions are the sinks of a           *)
(* StartUpSinks that has failed half-way, and a cluster that refuses.      *)
CleanEnd ==
    phase = "over" =>
        /\ up # {} => ~OnHost /\ "sinks" \in failures
        /\ Runs => \/ kind = "cluster" /\ "deleteNamespace" \in failures
                   \/ kind = "scale" /\ "teardown" \in failures
        /\ \A p \in Ports :
            /\ holder[p] # "collector"
            /\ holder[p] = "sink" => up # {}

(* The end of a test stops its collector before its sinks.  On the host    *)
(* the sink listens as long as the collector runs, whichever step has      *)
(* failed.  In a cluster it does until the collector has been asked to     *)
(* end; one that still terminates may find its sink gone, and so may one   *)
(* that runs if creating or deleting the objects has failed half-way or if *)
(* the test binary has died of a panic.  (Not so in the tests of kind      *)
(* "scale", whose sinks are deferred and whose teardown is a cleanup, nor  *)
(* in those of kind "filter", which leave the order to TestCase.Stop.)     *)
CollectorsStopFirst ==
    /\ kind \in {"local", "broker"} /\ Runs => 1 \in up
    /\ kind = "cluster" /\ Runs /\ phase # "died" /\ up = {} =>
        failures \cap {"objects", "deleteObjects"} # {}

(* Two attributes that are equal but for what is ignored.                  *)
Agree(a, b, ignored) ==
    DOMAIN a = DOMAIN b /\ \A k \in DOMAIN a \ ignored : a[k] = b[k]

SamePoint(x, y) ==
    /\ Agree(x[1], y[1], ResourceKeys)
    /\ x[2] = y[2] /\ x[3] = y[3]
    /\ Agree(x[4], y[4], DatapointKeys)

Covers(X, Y) == \A y \in Y : \E x \in X : SamePoint(x, y)

ItemPoints(items) == UNION {Points(<<Data[i]>>) : i \in items}

(* A comparison with a file succeeds exactly when the points received are  *)
(* those of the file, up to what is ignored: neither the batches they came *)
(* in, nor their order, nor how often they came can make a test fail.      *)
(* (For attributes that KeysTellApart.)                                    *)
NormalForm ==
    At("poll") /\ kind # "broker" /\ sink # <<>> =>
        LET got == ItemPoints(ToSet(Got)) IN
        Matches(Got) <=> Covers(got, Points(Golden)) /\ Covers(Points(Golden), got)

(* No two of the attributes that arrive have one key, without what a test  *)
(* ignores.                                                                *)
KeysTellApart ==
    TellsApart(UNION {AttributesOf(ReplaceAttrValsWithStar(<<Data[i]>>, ResourceKeys, DatapointKeys)) :
                          i \in Items \cup {Stray}})

(* The deleted collector delivers something that no test expects.          *)
StrayIsForeign ==
    \E x \in ItemPoints({Stray}) : \A y \in Points(Golden) : ~SamePoint(x, y)

Passed == phase = "over" /\ failures \subseteq {"teardown"}

(* A test passes only if its own collector has delivered what it expects,  *)
(* whoever else listens on its ports or sends to its sinks.  The exception *)
(* is a filter test that has sent nothing.                                 *)
PassedDelivered ==
    Passed => CASE kind = "filter" -> sent => delivered = Items
                [] kind = "broker" -> delivered = Items
                [] OTHER           -> Covers(ItemPoints(delivered), Points(Golden))

(* A test does not hang: it ends, or its binary dies.                      *)
TestEnds == <>(phase \in {"over", "died"})
================================================================================
