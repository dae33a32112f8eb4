------------------------- MODULE IntegrationTest_proofs -------------------------
(***************************************************************************)
(* Proofs about IntegrationTest, for any number of ports, sinks, items and *)
(* payloads, and whatever the other programs on the host do.               *)
(***************************************************************************)
EXTENDS IntegrationTest, Telemetry_proofs, FiniteSetTheorems

(* Where the steps that register something stand in their scripts.         *)
LEMMA Where ==
    ASSUME kind \in DOMAIN Script, pc \in Nat \ {0}, NEW s, At(s)
    PROVE  /\ phase = "run" /\ pc \in 1 .. Len(Script[kind]) /\ Step = s
           /\ kind \in {"local", "broker"} =>
                /\ s = "sinks" <=> pc = 3
                /\ s = "collector" <=> pc = 6
                /\ s \notin {"namespace", "teardown", "case", "objects", "setup"}
           /\ kind = "cluster" =>
                /\ s = "namespace" <=> pc = 1
                /\ s = "sinks" <=> pc = 2
                /\ s = "objects" <=> pc = 4
                /\ s \notin {"teardown", "case", "setup", "collector"}
           /\ kind = "scale" =>
                /\ s = "sinks" <=> pc = 1
                /\ s = "teardown" <=> pc = 2
                /\ s = "setup" <=> pc = 3
                /\ s \notin {"namespace", "case", "objects", "collector"}
           /\ kind = "filter" =>
                /\ s = "case" <=> pc = 4
                /\ s = "sinks" <=> pc = 5
                /\ s = "collector" <=> pc = 6
                /\ s \notin {"namespace", "teardown", "objects", "setup"}
<1>0. phase = "run" /\ Script[kind][pc] = s /\ ~(pc > Len(Script[kind]))
    BY DEF At, Ended
<1>1. kind \in {"local", "broker", "cluster", "scale", "filter"}
    BY DEF Script
<1>2. CASE kind = "local"
    BY <1>0, <1>2 DEF Step, Script
<1>3. CASE kind = "broker"
    BY <1>0, <1>3 DEF Step, Script
<1>4. CASE kind = "cluster"
    BY <1>0, <1>4 DEF Step, Script
<1>5. CASE kind = "scale"
    BY <1>0, <1>5 DEF Step, Script
<1>6. CASE kind = "filter"
    BY <1>0, <1>6 DEF Step, Script
<1>7. QED
    BY <1>1, <1>2, <1>3, <1>4, <1>5, <1>6

(* The kind of the test does not change, and its steps are taken in turn.  *)
Scripted ==
    /\ kind \in Kinds
    /\ pc \in 1 .. Len(Script[kind]) + 1
    /\ phase \in {"run", "end", "over", "died"}

LEMMA ScriptLength == \A k \in DOMAIN Script : Len(Script[k]) \in Nat
  BY DEF Script

(***************************************************************************)
(* What is left to be run at the end.  Every kind of test registers its    *)
(* defers and cleanups in one order, each at one step of its script, so    *)
(* that how many are left says how far the test has come, or how much of   *)
(* the end it has done.                                                    *)
(***************************************************************************)

(* The step that starts the sinks, and how many of them have started.      *)
SinksAt == [local |-> 3, broker |-> 3, cluster |-> 2, scale |-> 1, filter |-> 5]

SinksInTurn ==
    /\ \E n \in 0 .. SinkCount : up = 1 .. n
    /\ phase = "run" =>
        /\ pc < SinksAt[kind] => up = {}
        /\ pc = SinksAt[kind] => up # 1 .. SinkCount
        /\ pc > SinksAt[kind] => up = 1 .. SinkCount

(* Sinks and collector are cleanups; whatever has been started is there.   *)
LocalEnd ==
    kind \in {"local", "broker"} =>
        /\ Len(defers) = 0
        /\ Len(cleanups) \in 0 .. 2
        /\ Len(cleanups) > 0 => cleanups[1] = "sinks"
        /\ Len(cleanups) > 1 => cleanups[2] = "collector"
        /\ phase = "run" =>
            /\ pc <= 3 => Len(cleanups) = 0
            /\ pc > 3 /\ pc <= 6 => Len(cleanups) = 1
            /\ pc > 6 => Len(cleanups) = 2
        /\ Len(cleanups) = 0 => up = {}
        /\ Len(cleanups) > 0 => up # {}
        /\ Runs => Len(cleanups) = 2

(* The case is registered before anything that it stops exists.            *)
FilterEnd ==
    kind = "filter" =>
        /\ Len(defers) = 0
        /\ Len(cleanups) \in 0 .. 1
        /\ Len(cleanups) = 1 => cleanups[1] = "case"
        /\ phase = "run" /\ pc <= 4 => Len(cleanups) = 0
        /\ phase = "run" /\ pc > 4 => Len(cleanups) = 1
        /\ up # {} \/ Runs => Len(cleanups) = 1
        /\ phase = "run" /\ pc <= 6 => ~Runs

(* The sinks are shut down between the objects and the namespace.  What is *)
(* there and will not be ended by a defer was left by a step that failed.  *)
ClusterEnd ==
    kind = "cluster" =>
        /\ Len(cleanups) = 0
        /\ Len(defers) \in 0 .. 3
        /\ Len(defers) > 0 => defers[1] = "deleteNamespace"
        /\ Len(defers) > 1 => defers[2] = "sinks"
        /\ Len(defers) > 2 => defers[3] = "deleteObjects"
        /\ phase = "run" =>
            /\ pc <= 1 => Len(defers) = 0
            /\ pc = 2 => Len(defers) = 1
            /\ pc \in {3, 4} => Len(defers) = 2
            /\ pc > 4 => Len(defers) = 3
        /\ up # {} => \/ "sinks" \in failures
                      \/ Len(defers) > 1
                      \/ phase = "run" /\ pc = 2
        /\ Runs => Len(defers) > 0 \/ "deleteNamespace" \in failures
        /\ Runs => Len(defers) = 3 \/ failures \cap {"objects", "deleteObjects"} # {}
        /\ Len(defers) = 3 /\ phase # "died" => up # {}

(* The sinks are a defer, the teardown is a cleanup.                       *)
ScaleEnd ==
    kind = "scale" =>
        /\ Len(defers) \in 0 .. 1
        /\ Len(cleanups) \in 0 .. 1
        /\ Len(defers) = 1 => defers[1] = "sinks"
        /\ Len(cleanups) = 1 => cleanups[1] = "teardown"
        /\ phase = "run" =>
            /\ pc <= 1 => Len(defers) = 0
            /\ pc > 1 => Len(defers) = 1
            /\ pc <= 2 => Len(cleanups) = 0
            /\ pc > 2 => Len(cleanups) = 1
        /\ up # {} => \/ "sinks" \in failures
                      \/ Len(defers) = 1
                      \/ phase = "run" /\ pc = 1
        /\ Runs => Len(cleanups) = 1 \/ "teardown" \in failures

(* Who listens on a port of the test is there.                             *)
Listeners ==
    \A p \in Ports :
        /\ holder[p] = "collector" => OnHost /\ collector = "running"
        /\ holder[p] = "sink" => up # {}

(* Only a test in a cluster reads its payloads twice.                      *)
TwoReads == snap # None => kind = "cluster"

(* When a test is over, nothing is left to be run.                         *)
OverIsOver == phase = "over" => Len(defers) = 0 /\ Len(cleanups) = 0

Endings ==
    /\ SinksInTurn /\ LocalEnd /\ FilterEnd /\ ClusterEnd /\ ScaleEnd
    /\ Listeners /\ TwoReads /\ OverIsOver

--------------------------------------------------------------------------------
(* The types that the proofs need, which say more of the sequences.        *)
Registered == defers \in Seq(Entries) /\ cleanups \in Seq(Entries)

Network ==
    /\ port \in [Roles -> Ephemeral \cup {None}]
    /\ holder \in [Ports -> {None, "sink", "collector", "other"}]
    /\ taken \in 0 .. MaxTaken

UnderTest ==
    /\ collector \in {"none", "started", "running", "exited", "terminating", "gone"}
    /\ pending \subseteq Items /\ delivered \subseteq Items
    /\ sent \in BOOLEAN /\ stray \in BOOLEAN

Arrived ==
    /\ sink \in Seq(Seq(Items \cup {Stray}))
    /\ Len(sink) <= MaxPayloads
    /\ snap \in 0 .. MaxPayloads \cup {None}

Typed == Scripted /\ Registered /\ Network /\ UnderTest /\ Arrived

(***************************************************************************)
(* The steps, by what they do to the script and to what is left for the    *)
(* end.                                                                    *)
(***************************************************************************)

Registering == {"sinks", "collector", "case", "namespace", "teardown", "objects", "setup"}

InScript == phase = "run" /\ ~Ended

(* Others may take a port and leave it.                                    *)
Kept ==
    /\ UNCHANGED <<endings, up, collector>>
    /\ \A p \in Ports : holder'[p] \in {"sink", "collector"} => holder'[p] = holder[p]

Stays    == UNCHANGED script /\ Kept
Advances ==
    /\ InScript /\ Step \notin Registering
    /\ pc' = pc + 1 /\ UNCHANGED <<kind, phase>> /\ failures \subseteq failures'
    /\ Kept
Fails    == InScript /\ Fatal /\ Kept

Waiting ==
    \/ GetAvailablePort \/ NoPort \/ PrepareConfig \/ StartSinkFails \/ StartCollectorFails
    \/ WaitForListener \/ NothingListens \/ WaitForHealthCheck
    \/ Send \/ Load \/ WaitForMetrics \/ WaitForN \/ Validate
    \/ Poll \/ PollFirst \/ PollSecond \/ PollTimeout
    \/ Deliver \/ StrayDelivers \/ StrayEnds \/ Take \/ Leave

(* Most steps register nothing, and start and end nothing.                 *)
LEMMA WaitingMoves ==
    ASSUME Network, Waiting
    PROVE  Stays \/ Advances \/ Fails
<1> USE DEF Stays, Advances, Fails, InScript, Kept, Registering, At, Step, Done, Reported,
            Fatal, script, endings, network, sut
<1>1. CASE GetAvailablePort
  BY <1>1 DEF GetAvailablePort, FindPort, Roles
<1>2. CASE NoPort
  BY <1>2 DEF NoPort, Roles
<1>3. CASE PrepareConfig
  BY <1>3 DEF PrepareConfig
<1>4. CASE StartSinkFails
  BY <1>4 DEF StartSinkFails
<1>5. CASE StartCollectorFails
  BY <1>5 DEF StartCollectorFails
<1>6. CASE WaitForListener
  BY <1>6 DEF WaitForListener
<1>7. CASE NothingListens
  BY <1>7 DEF NothingListens
<1>8. CASE WaitForHealthCheck
  BY <1>8 DEF WaitForHealthCheck
<1>9. CASE Send
  BY <1>9 DEF Send
<1>10. CASE Load
  BY <1>10 DEF Load
<1>11. CASE WaitForMetrics
  BY <1>11 DEF WaitForMetrics
<1>12. CASE WaitForN
  BY <1>12 DEF WaitForN
<1>13. CASE Validate
  BY <1>13 DEF Validate
<1>14. CASE Poll
  BY <1>14 DEF Poll
<1>15. CASE PollFirst
  BY <1>15 DEF PollFirst
<1>16. CASE PollSecond
  BY <1>16 DEF PollSecond
<1>17. CASE PollTimeout
  BY <1>17 DEF PollTimeout
<1>18. CASE Deliver
  BY <1>18 DEF Deliver
<1>19. CASE StrayDelivers
  BY <1>19 DEF StrayDelivers
<1>20. CASE StrayEnds
  BY <1>20 DEF StrayEnds
<1>21. CASE Take
  BY <1>21 DEF Take, Network
<1>22. CASE Leave
  BY <1>22, PortsAssumption DEF Leave, Network
<1> HIDE DEF Stays, Advances, Fails
<1>23. QED
  BY <1>1, <1>2, <1>3, <1>4, <1>5, <1>6, <1>7, <1>8, <1>9, <1>10, <1>11, <1>12,
     <1>13, <1>14, <1>15, <1>16, <1>17, <1>18, <1>19, <1>20, <1>21, <1>22 DEF Waiting

LEMMA NextMoves ==
    ASSUME Network, Next
    PROVE  \/ Stays \/ Advances \/ Fails
           \/ StartSink \/ StartCollector \/ NewTestCase
           \/ CreateNamespace \/ RegisterTeardown \/ CreateCollectorObjects
           \/ CollectorListens \/ Terminate \/ Finish \/ Over \/ PollPanics
           \/ ShutDownSinks \/ StopCollector \/ StopCase \/ DeleteFromCluster
  BY WaitingMoves DEF Next, Progress, Waiting

(* A step that waits for something or makes use of it registers nothing.   *)
LEMMA AdvancesWhere ==
    ASSUME Scripted, Advances
    PROVE  /\ kind \in {"local", "broker"} => pc \notin {3, 6}
           /\ kind = "cluster" => pc \notin {1, 2, 4}
           /\ kind = "scale" => pc \notin {1, 2, 3}
           /\ kind = "filter" => pc \notin {4, 5, 6}
<1>1. kind \in DOMAIN Script /\ pc \in Nat \ {0}
  BY KindsAssumption, ScriptLength DEF Scripted
<1>2. At(Step) /\ Step \notin Registering
  BY DEF Advances, InScript, At, Step
<1>3. QED
  BY <1>1, <1>2, Where DEF Registering

(* What a registration adds, and what running an entry takes away.         *)
LEMMA Grown ==
    ASSUME NEW s \in Seq(Entries), NEW e \in Entries
    PROVE  /\ Append(s, e) \in Seq(Entries)
           /\ Len(Append(s, e)) = Len(s) + 1
           /\ Append(s, e)[Len(s) + 1] = e
           /\ \A i \in 1 .. Len(s) : Append(s, e)[i] = s[i]
  OBVIOUS

LEMMA Left ==
    ASSUME Registered, NEW e \in Entries
    PROVE  /\ OnCleanup(e) =>
                /\ Registered' /\ defers' = defers
                /\ Len(cleanups') = Len(cleanups) + 1 /\ cleanups'[Len(cleanups) + 1] = e
                /\ \A i \in 1 .. Len(cleanups) : cleanups'[i] = cleanups[i]
           /\ Deferred(e) =>
                /\ Registered' /\ cleanups' = cleanups
                /\ Len(defers') = Len(defers) + 1 /\ defers'[Len(defers) + 1] = e
                /\ \A i \in 1 .. Len(defers) : defers'[i] = defers[i]
<1>1. CASE OnCleanup(e)
  BY <1>1, Grown DEF OnCleanup, Deferred, Registered
<1>2. CASE Deferred(e)
  BY <1>2, Grown DEF OnCleanup, Deferred, Registered
<1>3. QED
  BY <1>1, <1>2

LEMMA Shrunk ==
    ASSUME NEW s \in Seq(Entries), s # <<>>
    PROVE  /\ Front(s) \in Seq(Entries)
           /\ Len(s) > 0 /\ Len(Front(s)) = Len(s) - 1
           /\ Last(s) = s[Len(s)]
           /\ \A i \in 1 .. Len(s) - 1 : Front(s)[i] = s[i]
<1>1. Len(s) \in Nat /\ Len(s) > 0 /\ Last(s) = s[Len(s)]
  BY DEF Last
<1>2. SUFFICES ASSUME NEW n \in Nat, n = Len(s) - 1
               PROVE  /\ SubSeq(s, 1, n) \in Seq(Entries)
                      /\ Len(SubSeq(s, 1, n)) = n
                      /\ \A i \in 1 .. n : SubSeq(s, 1, n)[i] = s[i]
  BY SMTT(30), <1>1 DEF Front
<1>3. 1 \in Int /\ n \in Int /\ \A i \in 1 .. n : s[i] \in Entries
  BY <1>1, <1>2
<1>4. /\ SubSeq(s, 1, n) \in Seq(Entries)
      /\ Len(SubSeq(s, 1, n)) = IF 1 <= n THEN n - 1 + 1 ELSE 0
      /\ \A i \in 1 .. n - 1 + 1 : SubSeq(s, 1, n)[i] = s[1 + i - 1]
  BY <1>3, SubSeqProperties
<1>5. QED
  BY <1>4

LEMMA Unwound ==
    ASSUME Registered, NEW entry, Run(entry)
    PROVE  /\ Registered'
           /\ phase = "end" /\ UNCHANGED <<kind, pc, phase>>
           /\ \/ /\ Len(defers) > 0 /\ defers[Len(defers)] = entry
                 /\ Len(defers') = Len(defers) - 1 /\ cleanups' = cleanups
                 /\ \A i \in 1 .. Len(defers) - 1 : defers'[i] = defers[i]
              \/ /\ Len(defers) = 0 /\ defers' = defers
                 /\ Len(cleanups) > 0 /\ cleanups[Len(cleanups)] = entry
                 /\ Len(cleanups') = Len(cleanups) - 1
                 /\ \A i \in 1 .. Len(cleanups) - 1 : cleanups'[i] = cleanups[i]
<1>1. CASE defers # <<>>
  BY <1>1, Shrunk DEF Run, Registered
<1>2. CASE defers = <<>>
  BY <1>2, Shrunk DEF Run, Registered
<1>3. QED
  BY <1>1, <1>2

LEMMA SinkCountType == SinkCount \in Nat \ {0}
  BY PortsAssumption, LenProperties, EmptySeq DEF SinkCount

LEMMA UpTo ==
    ASSUME NEW n \in Nat
    PROVE  IsFiniteSet(1 .. n) /\ Cardinality(1 .. n) = n
<1>1. 1 \in Int /\ n \in Int
  OBVIOUS
<1>2. /\ IsFiniteSet(1 .. n)
      /\ Cardinality(1 .. n) = IF 1 > n THEN 0 ELSE n - 1 + 1
  BY <1>1, FS_Interval, Zenon
<1>3. QED
  BY <1>2

(* The sinks start one after the other; who is to end them depends on the  *)
(* kind of the test.                                                       *)
LEMMA SinkStarts ==
    ASSUME Scripted, SinksInTurn, StartSink
    PROVE  /\ phase = "run" /\ pc = SinksAt[kind] /\ pc \in Nat
           /\ \E n \in 1 .. SinkCount :
                /\ up = 1 .. n - 1 /\ up' = 1 .. n
                /\ n < SinkCount => UNCHANGED <<script, endings>>
                /\ n = SinkCount => Done /\ RegisterShutdown
           /\ UNCHANGED <<kind, phase, failures, collector>>
<1>1. kind \in DOMAIN Script /\ pc \in Nat \ {0} /\ At("sinks")
  BY KindsAssumption, ScriptLength DEF Scripted, StartSink
<1>2. phase = "run" /\ pc = SinksAt[kind]
  BY <1>1, Where DEF SinksAt, Script
<1>3. PICK n \in 0 .. SinkCount : up = 1 .. n
  BY DEF SinksInTurn
<1>4. n \in Nat /\ n # SinkCount /\ Cardinality(up) = n
  BY <1>2, <1>3, UpTo, SinkCountType DEF SinksInTurn
<1>5. up' = 1 .. n + 1 /\ n + 1 \in 1 .. SinkCount
  BY <1>3, <1>4, SinkCountType DEF StartSink
<1>6. IF n + 1 < SinkCount THEN UNCHANGED <<script, endings>> ELSE Done /\ RegisterShutdown
  BY <1>4 DEF StartSink
<1>7. up = 1 .. (n + 1) - 1
  BY <1>3, <1>4
<1>8. UNCHANGED <<kind, phase, failures, collector>>
  BY <1>6 DEF StartSink, Done, Reported, script, sut
<1>9. QED
  BY <1>1, <1>2, <1>5, <1>6, <1>7, <1>8, SinkCountType

LEMMA ShutdownRegistered ==
    ASSUME kind \in DOMAIN Script, RegisterShutdown
    PROVE  /\ kind \in {"local", "broker"} => OnCleanup("sinks")
           /\ kind \in {"cluster", "scale"} => Deferred("sinks")
           /\ kind = "filter" => UNCHANGED endings
  BY Zenon DEF RegisterShutdown, OnHost

LEMMA KindKept ==
    ASSUME Scripted, SinksInTurn, Network, Next
    PROVE  kind' = kind
<1>1. CASE Stays \/ Advances \/ Fails
  BY <1>1 DEF Stays, Advances, Fails, Fatal, script
<1>2. CASE StartSink
  BY <1>2, SinkStarts
<1>3. CASE StartCollector \/ NewTestCase \/ CreateNamespace \/ RegisterTeardown \/ CreateCollectorObjects
  BY <1>3 DEF StartCollector, NewTestCase, CreateNamespace, RegisterTeardown,
              CreateCollectorObjects, Done, Reported, Fatal
<1>4. CASE CollectorListens \/ Terminate \/ Finish \/ Over \/ PollPanics
  BY <1>4 DEF CollectorListens, Terminate, Finish, Over, PollPanics, script
<1>5. CASE ShutDownSinks \/ StopCollector \/ StopCase \/ DeleteFromCluster
  BY <1>5 DEF ShutDownSinks, StopCollector, StopCase, DeleteFromCluster, Delete, Run
<1>6. QED
  BY <1>1, <1>2, <1>3, <1>4, <1>5, NextMoves

LEMMA LocalStep ==
    ASSUME Scripted, Registered, Network, Endings, Next
    PROVE  LocalEnd'
<1>1. SUFFICES ASSUME kind \in {"local", "broker"}
               PROVE  LocalEnd'
  BY KindKept DEF LocalEnd, Endings
<1>2. /\ kind \in DOMAIN Script /\ pc \in Nat \ {0}
      /\ defers \in Seq(Entries) /\ cleanups \in Seq(Entries)
  BY KindsAssumption, ScriptLength DEF Scripted, Registered
<1>3. kind' = kind /\ SinksInTurn
  BY KindKept DEF Endings
<1>4. /\ Len(defers) = 0
      /\ Len(cleanups) \in 0 .. 2
      /\ Len(cleanups) > 0 => cleanups[1] = "sinks"
      /\ Len(cleanups) > 1 => cleanups[2] = "collector"
      /\ phase = "run" =>
            /\ pc <= 3 => Len(cleanups) = 0
            /\ pc > 3 /\ pc <= 6 => Len(cleanups) = 1
            /\ pc > 6 => Len(cleanups) = 2
      /\ Len(cleanups) = 0 => up = {}
      /\ Len(cleanups) > 0 => up # {}
      /\ Runs => Len(cleanups) = 2
  BY <1>1 DEF LocalEnd, Endings
<1>5. CASE Stays
  BY <1>4, <1>5 DEF LocalEnd, Stays, Kept, Runs, script, endings
<1>6. CASE Advances
  BY <1>2, <1>4, <1>6, AdvancesWhere, <1>1 DEF LocalEnd, Advances, InScript, Kept, Runs, endings
<1>7. CASE Fails
  BY <1>4, <1>7 DEF LocalEnd, Fails, Fatal, Kept, Runs, endings
<1>8. CASE StartSink
  <2>1. PICK n \in 1 .. SinkCount :
            /\ up = 1 .. n - 1 /\ up' = 1 .. n
            /\ n < SinkCount => UNCHANGED <<script, endings>>
            /\ n = SinkCount => Done /\ RegisterShutdown
    BY <1>8, <1>3, SinkStarts
  <2>2. SinkCount = 1 /\ n = 1 /\ 1 \in up'
    BY <1>1, <2>1 DEF SinkCount, OnHost
  <2>3. phase = "run" /\ pc = 3 /\ UNCHANGED <<kind, phase, failures, collector>>
    BY <1>1, <1>3, <1>8, SinkStarts DEF SinksAt
  <2>4. OnCleanup("sinks") /\ Done
    BY <1>1, <1>2, <2>1, <2>2, ShutdownRegistered
  <2>5. /\ Len(cleanups') = 1 /\ cleanups'[1] = "sinks"
        /\ Len(defers') = 0
    <3>1. "sinks" \in Entries /\ Len(cleanups) = 0
      BY <1>4, <2>3 DEF Entries
    <3>2. QED
      BY <1>4, <2>4, <3>1, Left
  <2>6. QED
    BY <1>4, <2>2, <2>3, <2>4, <2>5 DEF LocalEnd, Done, Reported, Runs
<1>9. CASE StartCollector
  <2>1. phase = "run" /\ pc = 6
    BY <1>1, <1>2, <1>9, Where DEF StartCollector, Launch
  <2>2. OnCleanup("collector") /\ Done /\ up' = up
    BY <1>1, <1>9 DEF StartCollector, Launch
  <2>3. /\ Len(cleanups') = 2 /\ cleanups'[1] = "sinks" /\ cleanups'[2] = "collector"
        /\ Len(defers') = 0
    <3>1. "collector" \in Entries /\ Len(cleanups) = 1 /\ 1 \in 1 .. Len(cleanups)
      BY <1>4, <2>1 DEF Entries
    <3>2. QED
      BY <1>4, <2>2, <3>1, Left
  <2>4. QED
    BY <1>4, <2>1, <2>2, <2>3 DEF LocalEnd, Done, Reported
<1>10. CASE NewTestCase \/ CreateNamespace \/ RegisterTeardown \/ CreateCollectorObjects
  <2>1. At("case") \/ At("namespace") \/ At("teardown") \/ At("objects") \/ At("setup")
    BY <1>10 DEF NewTestCase, CreateNamespace, RegisterTeardown, CreateCollectorObjects
  <2>2. QED
    BY <1>1, <1>2, <2>1, Where
<1>11. CASE CollectorListens \/ Terminate
  BY <1>4, <1>11 DEF LocalEnd, CollectorListens, Terminate, Runs, script, endings
<1>12. CASE Finish \/ Over
  BY <1>4, <1>12 DEF LocalEnd, Finish, Over, Runs, endings, sut
<1>13. CASE PollPanics
  BY <1>1, <1>13 DEF PollPanics, Endings, TwoReads
<1>14. ASSUME NEW entry, Run(entry)
       PROVE  /\ UNCHANGED <<kind, pc, phase, defers>> /\ phase = "end"
              /\ \/ Len(cleanups) = 2 /\ entry = "collector" /\ Len(cleanups') = 1
                    /\ cleanups'[1] = "sinks"
                 \/ Len(cleanups) = 1 /\ entry = "sinks" /\ Len(cleanups') = 0
  <2>1. /\ UNCHANGED <<kind, pc, phase, defers>> /\ phase = "end"
        /\ Len(cleanups) > 0 /\ cleanups[Len(cleanups)] = entry
        /\ Len(cleanups') = Len(cleanups) - 1
        /\ \A i \in 1 .. Len(cleanups) - 1 : cleanups'[i] = cleanups[i]
    BY <1>4, <1>14, Unwound
  <2>2. CASE Len(cleanups) = 1
    BY <1>4, <2>1, <2>2
  <2>3. CASE Len(cleanups) = 2
    BY <1>4, <2>1, <2>3
  <2>4. QED
    BY <1>4, <2>1, <2>2, <2>3
<1>15. CASE ShutDownSinks
  <2>1. Run("sinks") /\ up' = {} /\ collector' = collector
    BY <1>15 DEF ShutDownSinks
  <2>2. QED
    BY <1>4, <1>14, <2>1 DEF LocalEnd, Runs
<1>16. CASE StopCollector
  <2>1. Run("collector") /\ up' = up /\ collector' \in {"none", "gone"}
    BY <1>16 DEF StopCollector, Stopped
  <2>2. QED
    BY <1>4, <1>14, <2>1 DEF LocalEnd, Runs
<1>17. CASE StopCase \/ DeleteFromCluster
  <2>1. PICK e \in {"case", "deleteObjects", "deleteNamespace", "teardown"} : Run(e)
    BY <1>17 DEF StopCase, DeleteFromCluster, Delete
  <2>2. QED
    BY <1>14, <2>1
<1>18. QED
  BY <1>5, <1>6, <1>7, <1>8, <1>9, <1>10, <1>11, <1>12, <1>13, <1>14, <1>15, <1>16, <1>17,
     NextMoves

LEMMA FilterStep ==
    ASSUME Scripted, Registered, Network, Endings, Next
    PROVE  FilterEnd'
<1>1. SUFFICES ASSUME kind = "filter"
               PROVE  FilterEnd'
  BY KindKept DEF FilterEnd, Endings
<1>2. /\ kind \in DOMAIN Script /\ pc \in Nat \ {0}
      /\ defers \in Seq(Entries) /\ cleanups \in Seq(Entries)
  BY KindsAssumption, ScriptLength DEF Scripted, Registered
<1>3. kind' = kind /\ SinksInTurn
  BY KindKept DEF Endings
<1>4. /\ Len(defers) = 0
      /\ Len(cleanups) \in 0 .. 1
      /\ Len(cleanups) = 1 => cleanups[1] = "case"
      /\ phase = "run" /\ pc <= 4 => Len(cleanups) = 0
      /\ phase = "run" /\ pc > 4 => Len(cleanups) = 1
      /\ up # {} \/ Runs => Len(cleanups) = 1
      /\ phase = "run" /\ pc <= 6 => ~Runs
  BY <1>1 DEF FilterEnd, Endings
<1>5. CASE Stays
  BY <1>4, <1>5 DEF FilterEnd, Stays, Kept, Runs, script, endings
<1>6. CASE Advances
  BY <1>2, <1>4, <1>6, AdvancesWhere, <1>1 DEF FilterEnd, Advances, InScript, Kept, Runs, endings
<1>7. CASE Fails
  BY <1>4, <1>7 DEF FilterEnd, Fails, Fatal, Kept, Runs, endings
<1>8. CASE StartSink
  <2>1. PICK n \in 1 .. SinkCount :
            /\ up = 1 .. n - 1 /\ up' = 1 .. n
            /\ n < SinkCount => UNCHANGED <<script, endings>>
            /\ n = SinkCount => Done /\ RegisterShutdown
    BY <1>8, <1>3, SinkStarts
  <2>2. SinkCount = 1 /\ n = 1
    BY <1>1, <2>1 DEF SinkCount, OnHost
  <2>3. phase = "run" /\ pc = 5 /\ UNCHANGED <<kind, phase, failures, collector>>
    BY <1>1, <1>3, <1>8, SinkStarts DEF SinksAt
  <2>4. UNCHANGED endings /\ Done
    BY <1>1, <1>2, <2>1, <2>2, ShutdownRegistered
  <2>5. QED
    BY <1>4, <2>3, <2>4 DEF FilterEnd, Done, Reported, Runs, endings
<1>9. CASE StartCollector
  <2>1. phase = "run" /\ pc = 6
    BY <1>1, <1>2, <1>9, Where DEF StartCollector, Launch
  <2>2. UNCHANGED endings /\ Done /\ up' = up
    BY <1>1, <1>9 DEF StartCollector, Launch
  <2>3. QED
    BY <1>4, <2>1, <2>2 DEF LocalEnd, Done, Reported, FilterEnd, endings
<1>10. CASE NewTestCase
  <2>1. phase = "run" /\ pc = 4
    BY <1>1, <1>2, <1>10, Where DEF NewTestCase
  <2>2. OnCleanup("case") /\ Done /\ UNCHANGED <<up, collector>>
    BY <1>10 DEF NewTestCase, sut
  <2>3. "case" \in Entries /\ Len(cleanups) = 0
    BY <1>4, <2>1 DEF Entries
  <2>4. Len(cleanups') = 1 /\ cleanups'[1] = "case" /\ defers' = defers
    BY <2>2, <2>3, Left
  <2>5. QED
    BY <1>4, <2>1, <2>2, <2>4 DEF FilterEnd, Done, Reported, Runs
<1>11. CASE CreateNamespace \/ RegisterTeardown \/ CreateCollectorObjects
  <2>1. At("namespace") \/ At("teardown") \/ At("objects") \/ At("setup")
    BY <1>11 DEF CreateNamespace, RegisterTeardown, CreateCollectorObjects
  <2>2. QED
    BY <1>1, <1>2, <2>1, Where
<1>12. CASE CollectorListens \/ Terminate
  BY <1>4, <1>12 DEF FilterEnd, CollectorListens, Terminate, Runs, script, endings
<1>13. CASE Finish \/ Over
  BY <1>4, <1>13 DEF FilterEnd, Finish, Over, Runs, endings, sut
<1>14. CASE PollPanics
  BY <1>1, <1>14 DEF PollPanics, Endings, TwoReads
<1>15. ASSUME NEW entry, Run(entry)
       PROVE  /\ UNCHANGED <<kind, pc, phase, defers>> /\ phase = "end"
              /\ Len(cleanups) = 1 /\ entry = "case" /\ Len(cleanups') = 0
  <2>1. /\ UNCHANGED <<kind, pc, phase, defers>> /\ phase = "end"
        /\ Len(cleanups) > 0 /\ cleanups[Len(cleanups)] = entry
        /\ Len(cleanups') = Len(cleanups) - 1
    BY <1>4, <1>15, Unwound
  <2>2. QED
    BY <1>4, <2>1
<1>16. CASE StopCase
  <2>1. Run("case") /\ up' = {} /\ collector' \in {"none", "gone"}
    BY <1>16 DEF StopCase, Stopped
  <2>2. QED
    BY <1>4, <1>15, <2>1 DEF FilterEnd, Runs
<1>17. CASE ShutDownSinks \/ StopCollector \/ DeleteFromCluster
  <2>1. PICK e \in {"sinks", "collector", "deleteObjects", "deleteNamespace", "teardown"} : Run(e)
    BY <1>17 DEF ShutDownSinks, StopCollector, DeleteFromCluster, Delete
  <2>2. QED
    BY <1>15, <2>1
<1>18. QED
  BY <1>5, <1>6, <1>7, <1>8, <1>9, <1>10, <1>11, <1>12, <1>13, <1>14, <1>16, <1>17,
     NextMoves

LEMMA ScaleStep ==
    ASSUME Scripted, Registered, Network, Endings, Next
    PROVE  ScaleEnd'
<1>1. SUFFICES ASSUME kind = "scale"
               PROVE  ScaleEnd'
  BY KindKept DEF ScaleEnd, Endings
<1>2. /\ kind \in DOMAIN Script /\ pc \in Nat \ {0}
      /\ defers \in Seq(Entries) /\ cleanups \in Seq(Entries)
  BY KindsAssumption, ScriptLength DEF Scripted, Registered
<1>3. kind' = kind /\ SinksInTurn
  BY KindKept DEF Endings
<1>4. /\ Len(defers) \in 0 .. 1
      /\ Len(cleanups) \in 0 .. 1
      /\ Len(defers) = 1 => defers[1] = "sinks"
      /\ Len(cleanups) = 1 => cleanups[1] = "teardown"
      /\ phase = "run" =>
            /\ pc <= 1 => Len(defers) = 0
            /\ pc > 1 => Len(defers) = 1
            /\ pc <= 2 => Len(cleanups) = 0
            /\ pc > 2 => Len(cleanups) = 1
      /\ up # {} => "sinks" \in failures \/ Len(defers) = 1 \/ (phase = "run" /\ pc = 1)
      /\ Runs => Len(cleanups) = 1 \/ "teardown" \in failures
  BY <1>1 DEF ScaleEnd, Endings
<1>5. CASE Stays
  BY <1>4, <1>5 DEF ScaleEnd, Stays, Kept, Runs, script, endings
<1>6. CASE Advances
  BY <1>2, <1>4, <1>6, AdvancesWhere, <1>1 DEF ScaleEnd, Advances, InScript, Kept, Runs, endings
<1>7. CASE Fails
  <2>1. pc = 1 => Step = "sinks"
    BY <1>1 DEF Step, Script
  <2>2. QED
    BY <1>4, <1>7, <2>1 DEF ScaleEnd, Fails, Fatal, Kept, Runs, endings
<1>8. CASE StartSink
  <2>1. PICK n \in 1 .. SinkCount :
            /\ up = 1 .. n - 1 /\ up' = 1 .. n
            /\ n < SinkCount => UNCHANGED <<script, endings>>
            /\ n = SinkCount => Done /\ RegisterShutdown
    BY <1>8, <1>3, SinkStarts
  <2>2. phase = "run" /\ pc = 1 /\ UNCHANGED <<kind, phase, failures, collector>>
    BY <1>1, <1>3, <1>8, SinkStarts DEF SinksAt
  <2>3. CASE n < SinkCount
    BY <1>4, <2>1, <2>2, <2>3 DEF ScaleEnd, Runs, script, endings
  <2>4. CASE n = SinkCount
    <3>1. Done /\ Deferred("sinks")
      BY <1>1, <1>2, <2>1, <2>4, ShutdownRegistered
    <3>2. "sinks" \in Entries /\ Len(defers) = 0
      BY <1>4, <2>2 DEF Entries
    <3>3. Len(defers') = 1 /\ defers'[1] = "sinks" /\ cleanups' = cleanups
      BY <3>1, <3>2, Left
    <3>4. QED
      BY <1>4, <2>2, <3>1, <3>3 DEF ScaleEnd, Done, Reported, Runs
  <2>5. QED
    BY <2>1, <2>3, <2>4, SinkCountType
<1>9. CASE RegisterTeardown
  <2>1. phase = "run" /\ pc = 2
    BY <1>1, <1>2, <1>9, Where DEF RegisterTeardown
  <2>2. OnCleanup("teardown") /\ Done /\ UNCHANGED <<up, collector>>
    BY <1>9 DEF RegisterTeardown, sut
  <2>3. "teardown" \in Entries /\ Len(cleanups) = 0
    BY <1>4, <2>1 DEF Entries
  <2>4. Len(cleanups') = 1 /\ cleanups'[1] = "teardown" /\ defers' = defers
    BY <2>2, <2>3, Left
  <2>5. QED
    BY <1>4, <2>1, <2>2, <2>4 DEF ScaleEnd, Done, Reported, Runs
<1>10. CASE CreateCollectorObjects
  <2>1. phase = "run" /\ pc = 3
    BY <1>1, <1>2, <1>10, Where DEF CreateCollectorObjects
  <2>2. UNCHANGED endings /\ (Done \/ Fatal) /\ UNCHANGED up
    BY <1>1, <1>10 DEF CreateCollectorObjects
  <2>3. QED
    BY <1>4, <2>1, <2>2 DEF ScaleEnd, Done, Reported, Fatal, endings
<1>11. CASE StartCollector \/ CreateNamespace \/ NewTestCase
  <2>1. At("collector") \/ At("namespace") \/ At("case")
    BY <1>11 DEF StartCollector, Launch, CreateNamespace, NewTestCase
  <2>2. QED
    BY <1>1, <1>2, <2>1, Where
<1>12. CASE CollectorListens \/ Terminate
  BY <1>4, <1>12 DEF ScaleEnd, CollectorListens, Terminate, Runs, script, endings
<1>13. CASE Finish \/ Over
  <2>1. Finish => pc # 1
    BY <1>1 DEF Finish, Ended, Script
  <2>2. QED
    BY <1>4, <1>13, <2>1 DEF ScaleEnd, Finish, Over, Runs, endings, sut
<1>14. CASE PollPanics
  BY <1>1, <1>14 DEF PollPanics, Endings, TwoReads
<1>15. ASSUME NEW entry, Run(entry)
       PROVE  /\ UNCHANGED <<kind, pc, phase>> /\ phase = "end"
              /\ \/ /\ Len(defers) = 1 /\ entry = "sinks" /\ Len(defers') = 0
                    /\ cleanups' = cleanups
                 \/ /\ Len(defers') = 0 /\ Len(defers) = 0
                    /\ Len(cleanups) = 1 /\ entry = "teardown" /\ Len(cleanups') = 0
  <2>1. CASE Len(defers) = 1
    BY <1>4, <1>15, <2>1, Unwound
  <2>2. CASE Len(defers) = 0
    BY <1>4, <1>15, <2>2, Unwound
  <2>3. QED
    BY <1>4, <2>1, <2>2
<1>16. CASE ShutDownSinks
  <2>1. Run("sinks") /\ up' = {} /\ UNCHANGED <<collector, failures>>
    BY <1>16 DEF ShutDownSinks
  <2>2. QED
    BY <1>4, <1>15, <2>1 DEF ScaleEnd, Runs
<1>17. CASE DeleteFromCluster
  <2>1. PICK e \in {"deleteObjects", "deleteNamespace", "teardown"} : Delete(e)
    BY <1>17 DEF DeleteFromCluster
  <2>2. e = "teardown" /\ Run("teardown")
    BY <1>15, <2>1 DEF Delete
  <2>3. /\ up' = up /\ failures \subseteq failures'
        /\ Runs' => "teardown" \in failures'
    BY <2>1, <2>2 DEF Delete, Deleted, Runs
  <2>4. QED
    BY <1>4, <1>15, <2>2, <2>3 DEF ScaleEnd
<1>18. CASE StopCollector \/ StopCase
  <2>1. PICK e \in {"collector", "case"} : Run(e)
    BY <1>18 DEF StopCollector, StopCase
  <2>2. QED
    BY <1>15, <2>1
<1>19. QED
  BY <1>5, <1>6, <1>7, <1>8, <1>9, <1>10, <1>11, <1>12, <1>13, <1>14, <1>16, <1>17, <1>18,
     NextMoves

LEMMA ClusterStep ==
    ASSUME Scripted, Registered, Network, Endings, Next
    PROVE  ClusterEnd'
<1>1. SUFFICES ASSUME kind = "cluster"
               PROVE  ClusterEnd'
  BY KindKept DEF ClusterEnd, Endings
<1>2. /\ kind \in DOMAIN Script /\ pc \in Nat \ {0}
      /\ defers \in Seq(Entries) /\ cleanups \in Seq(Entries)
  BY KindsAssumption, ScriptLength DEF Scripted, Registered
<1>3. kind' = kind /\ SinksInTurn
  BY KindKept DEF Endings
<1>4. /\ Len(cleanups) = 0
      /\ Len(defers) \in 0 .. 3
      /\ Len(defers) > 0 => defers[1] = "deleteNamespace"
      /\ Len(defers) > 1 => defers[2] = "sinks"
      /\ Len(defers) > 2 => defers[3] = "deleteObjects"
  BY <1>1 DEF ClusterEnd, Endings
<1>5. phase = "run" =>
        /\ pc <= 1 => Len(defers) = 0
        /\ pc = 2 => Len(defers) = 1
        /\ pc \in {3, 4} => Len(defers) = 2
        /\ pc > 4 => Len(defers) = 3
  BY <1>1 DEF ClusterEnd, Endings
<1>6. /\ up # {} => "sinks" \in failures \/ Len(defers) > 1 \/ (phase = "run" /\ pc = 2)
      /\ Runs => Len(defers) > 0 \/ "deleteNamespace" \in failures
      /\ Runs => Len(defers) = 3 \/ failures \cap {"objects", "deleteObjects"} # {}
      /\ Len(defers) = 3 /\ phase # "died" => up # {}
  BY <1>1 DEF ClusterEnd, Endings
<1>7. CASE Stays
  BY <1>4, <1>5, <1>6, <1>7 DEF ClusterEnd, Stays, Kept, Runs, script, endings
<1>8. CASE Advances
  <2>1. pc \notin {1, 2, 4} /\ phase = "run"
    BY <1>1, <1>8, AdvancesWhere DEF Advances, InScript
  <2>2. pc' = pc + 1 /\ UNCHANGED <<phase, defers, cleanups, up, collector>> /\ failures \subseteq failures'
    BY <1>8 DEF Advances, Kept, endings
  <2>3. QED
    BY <1>2, <1>4, <1>5, <1>6, <2>1, <2>2 DEF ClusterEnd, Runs
<1>9. CASE Fails
  <2>1. pc = 2 => Step = "sinks"
    BY <1>1 DEF Step, Script
  <2>2. QED
    BY <1>4, <1>5, <1>6, <1>9, <2>1 DEF ClusterEnd, Fails, Fatal, Kept, Runs, endings, InScript
<1>10. CASE StartSink
  <2>1. PICK n \in 1 .. SinkCount :
            /\ up = 1 .. n - 1 /\ up' = 1 .. n
            /\ n < SinkCount => UNCHANGED <<script, endings>>
            /\ n = SinkCount => Done /\ RegisterShutdown
    BY <1>10, <1>3, SinkStarts
  <2>2. phase = "run" /\ pc = 2 /\ UNCHANGED <<kind, phase, failures, collector>>
    BY <1>1, <1>3, <1>10, SinkStarts DEF SinksAt
  <2>3. CASE n < SinkCount
    BY <1>4, <1>5, <1>6, <2>1, <2>2, <2>3 DEF ClusterEnd, Runs, script, endings
  <2>4. CASE n = SinkCount
    <3>1. Done /\ Deferred("sinks")
      BY <1>1, <1>2, <2>1, <2>4, ShutdownRegistered
    <3>2. "sinks" \in Entries /\ Len(defers) = 1 /\ 1 \in 1 .. Len(defers)
      BY <1>5, <2>2 DEF Entries
    <3>3. /\ Len(defers') = 2 /\ defers'[1] = "deleteNamespace" /\ defers'[2] = "sinks"
          /\ cleanups' = cleanups
      BY <1>4, <3>1, <3>2, Left
    <3>4. pc' = 3
      BY <2>2, <3>1 DEF Done, Reported
    <3>5. QED
      BY <1>4, <1>6, <2>2, <3>2, <3>3, <3>4 DEF ClusterEnd, Runs
  <2>5. QED
    BY <2>1, <2>3, <2>4, SinkCountType
<1>11. CASE CreateNamespace
  <2>1. phase = "run" /\ pc = 1
    BY <1>1, <1>2, <1>11, Where DEF CreateNamespace
  <2>2. UNCHANGED <<up, collector>> /\ up = {}
    BY <1>1, <1>3, <1>11, <2>1 DEF CreateNamespace, sut, SinksInTurn, SinksAt
  <2>3. CASE Done /\ Deferred("deleteNamespace")
    <3>1. "deleteNamespace" \in Entries /\ Len(defers) = 0
      BY <1>5, <2>1 DEF Entries
    <3>2. /\ Len(defers') = 1 /\ defers'[1] = "deleteNamespace"
          /\ cleanups' = cleanups
      BY <2>3, <3>1, Left
    <3>3. pc' = 2 /\ UNCHANGED <<phase, failures>>
      BY <2>1, <2>3 DEF Done, Reported
    <3>4. QED
      BY <1>4, <1>6, <2>1, <2>2, <3>1, <3>2, <3>3 DEF ClusterEnd, Runs
  <2>4. CASE Fatal /\ UNCHANGED endings
    BY <1>4, <1>5, <1>6, <2>1, <2>2, <2>4 DEF ClusterEnd, Runs, Fatal, endings
  <2>5. QED
    BY <1>11, <2>3, <2>4 DEF CreateNamespace
<1>12. CASE CreateCollectorObjects
  <2>1. phase = "run" /\ pc = 4
    BY <1>1, <1>2, <1>12, Where DEF CreateCollectorObjects
  <2>2. Step = "objects" /\ up' = up /\ Len(defers) = 2 /\ up # {}
    <3>1. up = 1 .. SinkCount
      BY <1>1, <1>3, <2>1 DEF SinksInTurn, SinksAt
    <3>2. QED
      BY <1>1, <1>5, <1>12, <2>1, <3>1, SinkCountType DEF CreateCollectorObjects, Step, Script
  <2>3. CASE Done /\ Deferred("deleteObjects")
    <3>1. "deleteObjects" \in Entries /\ {1, 2} \subseteq 1 .. Len(defers)
      BY <2>2 DEF Entries
    <3>2. /\ Len(defers') = 3 /\ defers'[1] = "deleteNamespace" /\ defers'[2] = "sinks"
          /\ defers'[3] = "deleteObjects" /\ cleanups' = cleanups
      BY <1>4, <2>2, <2>3, <3>1, Left
    <3>3. pc' = 5 /\ UNCHANGED <<phase, failures>>
      BY <2>1, <2>3 DEF Done, Reported
    <3>4. QED
      BY <1>4, <2>1, <2>2, <3>2, <3>3 DEF ClusterEnd
  <2>4. CASE Fatal /\ UNCHANGED endings
    <3>1. failures' \cap {"objects", "deleteObjects"} # {}
      BY <2>2, <2>4 DEF Fatal
    <3>2. defers' = defers /\ cleanups' = cleanups /\ phase' = "end"
      BY <2>4 DEF Fatal, endings
    <3>3. /\ Len(cleanups') = 0 /\ Len(defers') = 2
          /\ defers'[1] = "deleteNamespace" /\ defers'[2] = "sinks"
      BY <1>4, <2>2, <3>2
    <3>4. QED
      BY <3>1, <3>2, <3>3 DEF ClusterEnd
  <2>5. (Done /\ Deferred("deleteObjects")) \/ (Fatal /\ UNCHANGED endings)
    BY <1>1, <1>12 DEF CreateCollectorObjects
  <2>6. QED
    BY <2>3, <2>4, <2>5
<1>13. CASE StartCollector \/ RegisterTeardown \/ NewTestCase
  <2>1. At("collector") \/ At("teardown") \/ At("case")
    BY <1>13 DEF StartCollector, Launch, RegisterTeardown, NewTestCase
  <2>2. QED
    BY <1>1, <1>2, <2>1, Where
<1>14. CASE CollectorListens \/ Terminate
  BY <1>4, <1>5, <1>6, <1>14 DEF ClusterEnd, CollectorListens, Terminate, Runs, script, endings
<1>15. CASE Finish \/ Over
  <2>1. Finish => pc # 2
    BY <1>1 DEF Finish, Ended, Script
  <2>2. QED
    BY <1>4, <1>6, <1>15, <2>1 DEF ClusterEnd, Finish, Over, Runs, endings, sut
<1>16. CASE PollPanics
  BY <1>4, <1>6, <1>16 DEF ClusterEnd, PollPanics, Runs, endings, sut
<1>17. ASSUME NEW entry, Run(entry)
       PROVE  /\ UNCHANGED <<kind, pc, phase, cleanups>> /\ phase = "end"
              /\ \/ Len(defers) = 3 /\ entry = "deleteObjects"
                 \/ Len(defers) = 2 /\ entry = "sinks"
                 \/ Len(defers) = 1 /\ entry = "deleteNamespace"
              /\ Len(defers') = Len(defers) - 1
              /\ Len(defers') > 0 => defers'[1] = "deleteNamespace"
              /\ Len(defers') > 1 => defers'[2] = "sinks"
  <2>1. /\ UNCHANGED <<kind, pc, phase, cleanups>> /\ phase = "end"
        /\ Len(defers) > 0 /\ defers[Len(defers)] = entry
        /\ Len(defers') = Len(defers) - 1
        /\ \A i \in 1 .. Len(defers) - 1 : defers'[i] = defers[i]
    BY <1>4, <1>17, Unwound
  <2>2. CASE Len(defers) = 1
    BY <1>4, <2>1, <2>2
  <2>3. CASE Len(defers) = 2
    BY <1>4, <2>1, <2>3
  <2>4. CASE Len(defers) = 3
    BY <1>4, <2>1, <2>4
  <2>5. QED
    BY <1>4, <2>1, <2>2, <2>3, <2>4
<1>18. CASE ShutDownSinks
  <2>1. Run("sinks") /\ up' = {} /\ UNCHANGED <<collector, failures>>
    BY <1>18 DEF ShutDownSinks
  <2>2. /\ UNCHANGED <<phase, cleanups>> /\ phase = "end"
        /\ Len(defers) = 2 /\ Len(defers') = Len(defers) - 1
        /\ Len(defers') > 0 => defers'[1] = "deleteNamespace"
    <3>1. /\ UNCHANGED <<kind, pc, phase, cleanups>> /\ phase = "end"
          /\ \/ Len(defers) = 3 /\ "sinks" = "deleteObjects"
             \/ Len(defers) = 2 /\ "sinks" = "sinks"
             \/ Len(defers) = 1 /\ "sinks" = "deleteNamespace"
          /\ Len(defers') = Len(defers) - 1
          /\ Len(defers') > 0 => defers'[1] = "deleteNamespace"
      BY <1>17, <2>1
    <3>2. QED
      BY <3>1
  <2>3. QED
    BY <1>4, <1>6, <2>1, <2>2 DEF ClusterEnd, Runs
<1>19. CASE DeleteFromCluster
  <2>1. PICK e \in {"deleteObjects", "deleteNamespace", "teardown"} : Delete(e)
    BY <1>19 DEF DeleteFromCluster
  <2>2. Run(e)
    BY <2>1 DEF Delete
  <2>3. /\ up' = up /\ failures \subseteq failures'
        /\ Runs' => e \in failures' /\ Runs
    BY <2>1 DEF Delete, Deleted, Runs
  <2>4. /\ UNCHANGED <<phase, cleanups>> /\ phase = "end" /\ Len(defers') = Len(defers) - 1
        /\ \/ Len(defers) = 3 /\ e = "deleteObjects"
           \/ Len(defers) = 1 /\ e = "deleteNamespace"
        /\ Len(defers') > 0 => defers'[1] = "deleteNamespace"
        /\ Len(defers') > 1 => defers'[2] = "sinks"
    BY <1>17, <2>1, <2>2
  <2>5. CASE e = "deleteObjects"
    <3>1. Len(defers) = 3 /\ Len(defers') = 2
      BY <2>4, <2>5
    <3>2. Runs' => failures' \cap {"objects", "deleteObjects"} # {}
      BY <2>3, <2>5
    <3>3. QED
      BY <1>4, <1>6, <2>3, <2>4, <3>1, <3>2 DEF ClusterEnd
  <2>6. CASE e = "deleteNamespace"
    <3>1. Len(defers) = 1 /\ Len(defers') = 0
      BY <2>4, <2>6
    <3>2. Runs' => failures' \cap {"objects", "deleteObjects"} # {}
      BY <1>6, <2>3, <3>1
    <3>3. QED
      BY <1>4, <1>6, <2>3, <2>4, <2>6, <3>1, <3>2 DEF ClusterEnd
  <2>7. QED
    BY <2>4, <2>5, <2>6
<1>20. CASE StopCollector \/ StopCase
  <2>1. PICK e \in {"collector", "case"} : Run(e)
    BY <1>20 DEF StopCollector, StopCase
  <2>2. QED
    BY <1>17, <2>1
<1>21. QED
  BY <1>7, <1>8, <1>9, <1>10, <1>11, <1>12, <1>13, <1>14, <1>15, <1>16, <1>18, <1>19, <1>20,
     NextMoves

LEMMA SinksInTurnStep ==
    ASSUME Scripted, Registered, Network, Endings, Next
    PROVE  SinksInTurn'
<1>1. /\ kind \in DOMAIN Script /\ pc \in Nat \ {0} /\ SinksAt[kind] \in Nat
      /\ kind' = kind /\ SinkCount' = SinkCount /\ SinkCount \in Nat \ {0}
  <2>1. kind \in DOMAIN Script /\ pc \in Nat \ {0}
    BY KindsAssumption, ScriptLength DEF Scripted
  <2>2. kind' = kind
    BY KindKept DEF Endings
  <2>3. QED
    BY <2>1, <2>2, SinkCountType DEF SinkCount, OnHost, SinksAt, Script
<1>2. /\ \E n \in 0 .. SinkCount : up = 1 .. n
      /\ phase = "run" =>
            /\ pc < SinksAt[kind] => up = {}
            /\ pc = SinksAt[kind] => up # 1 .. SinkCount
            /\ pc > SinksAt[kind] => up = 1 .. SinkCount
  BY DEF SinksInTurn, Endings
<1>3. ASSUME NEW s, At(s), s # "sinks", pc' = pc + 1, UNCHANGED <<phase, up>>
      PROVE  SinksInTurn'
  <2>1. pc # SinksAt[kind] /\ phase = "run"
    BY <1>1, <1>3, Where DEF SinksAt, Script
  <2>2. CASE pc < SinksAt[kind]
    <3>1. up = {} /\ up # 1 .. SinkCount /\ pc' <= SinksAt[kind]
      BY <1>1, <1>2, <1>3, <2>1, <2>2
    <3>2. QED
      BY <1>1, <1>2, <1>3, <3>1 DEF SinksInTurn
  <2>3. CASE pc > SinksAt[kind]
    BY <1>1, <1>2, <1>3, <2>1, <2>3 DEF SinksInTurn
  <2>4. QED
    BY <1>1, <2>1, <2>2, <2>3
<1>4. ASSUME phase' # "run", up' = up
      PROVE  SinksInTurn'
  BY <1>1, <1>2, <1>4 DEF SinksInTurn
<1>5. ASSUME phase' # "run", up' = {}
      PROVE  SinksInTurn'
  <2>1. up' = 1 .. 0 /\ 0 \in 0 .. SinkCount
    BY <1>1, <1>5
  <2>2. QED
    BY <1>1, <1>5, <2>1 DEF SinksInTurn
<1>6. ASSUME UNCHANGED <<pc, phase, up>>
      PROVE  SinksInTurn'
  BY <1>1, <1>2, <1>6 DEF SinksInTurn
<1>7. CASE Stays
  BY <1>6, <1>7 DEF Stays, Kept, script
<1>8. CASE Advances
  <2>1. At(Step) /\ Step # "sinks"
    BY <1>8 DEF Advances, InScript, At, Step, Registering
  <2>2. QED
    BY <1>3, <1>8, <2>1 DEF Advances, Kept
<1>9. CASE Fails
  BY <1>4, <1>9 DEF Fails, Fatal, Kept
<1>10. CASE StartSink
  <2>1. PICK n \in 1 .. SinkCount :
            /\ up = 1 .. n - 1 /\ up' = 1 .. n
            /\ n < SinkCount => UNCHANGED <<script, endings>>
            /\ n = SinkCount => Done /\ RegisterShutdown
    BY <1>10, SinkStarts DEF Endings
  <2>2. phase = "run" /\ pc = SinksAt[kind] /\ UNCHANGED phase
    BY <1>10, SinkStarts DEF Endings
  <2>3. CASE n < SinkCount
    <3>1. n \in up' => up' # 1 .. SinkCount
      BY <1>1, <2>1, <2>3
    <3>2. up' # 1 .. SinkCount
      BY <1>1, <2>1, <3>1
    <3>3. pc' = pc
      BY <2>1, <2>3 DEF script
    <3>4. QED
      BY <1>1, <2>1, <2>2, <3>2, <3>3 DEF SinksInTurn
  <2>4. CASE n = SinkCount
    BY <1>1, <2>1, <2>2, <2>4 DEF SinksInTurn, Done, Reported
  <2>5. QED
    BY <1>1, <2>1, <2>3, <2>4
<1>11. CASE StartCollector \/ NewTestCase \/ RegisterTeardown
  <2>1. PICK s \in {"collector", "case", "teardown"} : At(s)
    BY <1>11 DEF StartCollector, Launch, NewTestCase, RegisterTeardown
  <2>2. Done /\ up' = up
    BY <1>11 DEF StartCollector, NewTestCase, RegisterTeardown
  <2>3. QED
    BY <1>3, <2>1, <2>2 DEF Done, Reported
<1>12. CASE CreateNamespace \/ CreateCollectorObjects
  <2>1. PICK s \in {"namespace", "objects", "setup"} : At(s)
    BY <1>12 DEF CreateNamespace, CreateCollectorObjects
  <2>2. (Done \/ Fatal) /\ up' = up
    BY <1>12 DEF CreateNamespace, CreateCollectorObjects
  <2>3. QED
    BY <1>3, <1>4, <2>1, <2>2 DEF Done, Reported, Fatal
<1>13. CASE CollectorListens \/ Terminate
  BY <1>6, <1>13 DEF CollectorListens, Terminate, script
<1>14. CASE Finish \/ Over
  BY <1>4, <1>14 DEF Finish, Over
<1>15. CASE PollPanics
  BY <1>5, <1>15 DEF PollPanics
<1>16. CASE ShutDownSinks \/ StopCase
  BY <1>5, <1>16 DEF ShutDownSinks, StopCase, Run
<1>17. CASE StopCollector \/ DeleteFromCluster
  BY <1>4, <1>17 DEF StopCollector, DeleteFromCluster, Delete, Run
<1>18. QED
  BY <1>7, <1>8, <1>9, <1>10, <1>11, <1>12, <1>13, <1>14, <1>15, <1>16, <1>17, NextMoves

LEMMA TwoReadsStep ==
    ASSUME Scripted, Registered, Network, Endings, Next
    PROVE  TwoReads'
<1>1. kind' = kind /\ TwoReads
  BY KindKept DEF Endings
<1>2. CASE PollFirst \/ PollSecond
  BY <1>1, <1>2 DEF PollFirst, PollSecond, TwoReads
<1>3. snap' = snap \/ PollFirst \/ PollSecond
  BY DEF Next, Progress, GetAvailablePort, NoPort, PrepareConfig, StartSink, StartSinkFails,
         StartCollector, StartCollectorFails, NewTestCase, CreateNamespace, RegisterTeardown,
         CreateCollectorObjects, WaitForListener, NothingListens, WaitForHealthCheck,
         Send, Load, WaitForMetrics, WaitForN, Validate, ShutDownSinks, StopCollector,
         StopCase, DeleteFromCluster, Delete, Run, Finish, Over, Poll, PollTimeout, PollPanics,
         CollectorListens, Deliver, Terminate, StrayDelivers, StrayEnds, Take, Leave, received
<1>4. QED
  BY <1>1, <1>2, <1>3 DEF TwoReads

LEMMA OverIsOverStep ==
    ASSUME Scripted, Registered, Network, Endings, Next
    PROVE  OverIsOver'
<1>1. CASE Over
  <2>1. defers' = <<>> /\ cleanups' = <<>>
    BY <1>1 DEF Over, endings
  <2>2. QED
    BY <2>1, EmptySeq DEF OverIsOver
<1>2. CASE Stays
  BY <1>2 DEF Endings, OverIsOver, Stays, Kept, script, endings
<1>3. CASE CollectorListens \/ Terminate
  BY <1>3 DEF Endings, OverIsOver, CollectorListens, Terminate, script, endings
<1>4. phase' # "over" \/ Over \/ Stays \/ CollectorListens \/ Terminate
  <2>1. CASE Advances \/ Fails
    BY <2>1 DEF Advances, Fails, Fatal, InScript
  <2>2. CASE StartSink
    BY <2>2, SinkStarts DEF Endings
  <2>3. CASE StartCollector \/ NewTestCase \/ CreateNamespace \/ RegisterTeardown \/ CreateCollectorObjects
    BY <2>3 DEF StartCollector, Launch, NewTestCase, CreateNamespace, RegisterTeardown,
                CreateCollectorObjects, Done, Reported, Fatal, At
  <2>4. CASE Finish \/ PollPanics
    BY <2>4 DEF Finish, PollPanics
  <2>5. CASE ShutDownSinks \/ StopCollector \/ StopCase \/ DeleteFromCluster
    BY <2>5 DEF ShutDownSinks, StopCollector, StopCase, DeleteFromCluster, Delete, Run
  <2>6. QED
    BY <2>1, <2>2, <2>3, <2>4, <2>5, NextMoves
<1>5. QED
  BY <1>1, <1>2, <1>3, <1>4 DEF OverIsOver

(* Only a cluster is asked to delete something.                            *)
LEMMA NothingDeletedOnHost ==
    ASSUME Scripted, Registered, Endings, OnHost, DeleteFromCluster
    PROVE  FALSE
<1>1. PICK e \in {"deleteObjects", "deleteNamespace", "teardown"} : Run(e)
  BY DEF DeleteFromCluster, Delete
<1>2. kind \in {"local", "broker", "filter"}
  BY KindsAssumption DEF Scripted, OnHost, Script
<1>3. /\ Len(defers) = 0
      /\ Len(cleanups) \in 0 .. 2
      /\ Len(cleanups) > 0 => cleanups[1] \in {"sinks", "case"}
      /\ Len(cleanups) > 1 => cleanups[2] = "collector"
  BY <1>2 DEF Endings, LocalEnd, FilterEnd
<1>4. Len(cleanups) > 0 /\ cleanups[Len(cleanups)] = e
  BY <1>1, <1>3, Unwound
<1>5. Len(cleanups) = 1 \/ Len(cleanups) = 2
  BY <1>3, <1>4
<1>6. QED
  BY <1>3, <1>4, <1>5

LEMMA ListenersStep ==
    ASSUME Scripted, Registered, Network, Endings, Next
    PROVE  Listeners'
<1>1. /\ kind' = kind /\ OnHost' = OnHost
      /\ \A p \in Ports : /\ holder[p] = "collector" => OnHost /\ collector = "running"
                          /\ holder[p] = "sink" => up # {}
  BY KindKept DEF Endings, OnHost, Listeners
<1>2. CASE Stays \/ Advances \/ Fails
  BY <1>1, <1>2 DEF Listeners, Stays, Advances, Fails, Kept
<1>3. CASE StartSink
  <2>1. PICK n \in 1 .. SinkCount : up' = 1 .. n
    BY <1>3, SinkStarts DEF Endings
  <2>2. up' # {} /\ UNCHANGED collector
    <3>1. 1 \in up'
      BY <2>1, SinkCountType
    <3>2. QED
      BY <3>1, <1>3, SinkStarts DEF Endings
  <2>3. \A p \in Ports : holder'[p] = "sink" \/ holder'[p] = holder[p]
    BY <1>3 DEF StartSink
  <2>4. QED
    BY <1>1, <2>2, <2>3 DEF Listeners
<1>4. CASE StartCollector
  <2>1. kind \in DOMAIN Script /\ pc \in Nat \ {0}
    BY KindsAssumption, ScriptLength DEF Scripted
  <2>2. kind \in {"local", "broker", "filter"} /\ pc = 6 /\ phase = "run"
    BY <1>4, <2>1, Where DEF StartCollector, Launch, Script
  <2>3. ~Runs
    BY <2>2 DEF Endings, LocalEnd, FilterEnd
  <2>4. UNCHANGED <<holder, up>> /\ \A p \in Ports : holder[p] # "collector"
    BY <1>1, <1>4, <2>3 DEF StartCollector, network, Runs
  <2>5. QED
    BY <1>1, <2>4 DEF Listeners
<1>5. CASE NewTestCase \/ CreateNamespace \/ RegisterTeardown
  BY <1>1, <1>5 DEF Listeners, NewTestCase, CreateNamespace, RegisterTeardown, network, sut
<1>6. CASE CreateCollectorObjects
  <2>1. kind \in DOMAIN Script /\ pc \in Nat \ {0}
    BY KindsAssumption, ScriptLength DEF Scripted
  <2>2. ~OnHost
    BY <1>6, <2>1, Where DEF CreateCollectorObjects, OnHost, Script
  <2>3. UNCHANGED <<holder, up>>
    BY <1>6 DEF CreateCollectorObjects, network
  <2>4. QED
    BY <1>1, <2>2, <2>3 DEF Listeners
<1>7. CASE CollectorListens
  <2>1. /\ collector = "started" /\ up' = up
        /\ \A p \in Ports : holder[p] # "collector"
    BY <1>1, <1>7 DEF CollectorListens
  <2>2. CASE holder' = holder
    BY <1>1, <2>1, <2>2 DEF Listeners
  <2>3. CASE OnHost /\ collector' = "running" /\ holder' = [holder EXCEPT ![port["in"]] = "collector"]
    BY <1>1, <2>1, <2>3 DEF Listeners, Network
  <2>4. QED
    BY <1>7, <2>2, <2>3 DEF CollectorListens
<1>8. CASE Terminate
  BY <1>1, <1>8 DEF Listeners, Terminate, network
<1>9. CASE Finish \/ Over
  BY <1>1, <1>9 DEF Listeners, Finish, Over, network, sut
<1>10. CASE PollPanics
  BY <1>1, <1>10, PortsAssumption DEF Listeners, PollPanics, sut
<1>11. CASE ShutDownSinks
  <2>1. \A p \in Ports : holder'[p] # "sink" /\ (holder'[p] = "collector" => holder[p] = "collector")
    BY <1>11, PortsAssumption DEF ShutDownSinks, Released
  <2>2. collector' = collector
    BY <1>11 DEF ShutDownSinks
  <2>3. QED
    BY <1>1, <2>1, <2>2 DEF Listeners
<1>12. CASE StopCollector
  <2>1. \A p \in Ports : holder'[p] # "collector" /\ (holder'[p] = "sink" => holder[p] = "sink")
    BY <1>12, PortsAssumption DEF StopCollector, Released
  <2>2. up' = up
    BY <1>12 DEF StopCollector
  <2>3. QED
    BY <1>1, <2>1, <2>2 DEF Listeners
<1>13. CASE StopCase
  <2>1. \A p \in Ports : holder'[p] # "collector" /\ holder'[p] # "sink"
    BY <1>13, PortsAssumption DEF StopCase, Released
  <2>2. QED
    BY <2>1 DEF Listeners
<1>14. CASE DeleteFromCluster
  <2>1. UNCHANGED <<up, holder>> /\ ~OnHost
    BY <1>14, NothingDeletedOnHost DEF DeleteFromCluster, Delete
  <2>2. QED
    BY <1>1, <2>1 DEF Listeners
<1>15. QED
  BY <1>2, <1>3, <1>4, <1>5, <1>6, <1>7, <1>8, <1>9, <1>10, <1>11, <1>12, <1>13, <1>14, NextMoves

LEMMA EndingsStep ==
    ASSUME Scripted, Registered, Network, Endings, Next
    PROVE  Endings'
  BY SinksInTurnStep, LocalStep, FilterStep, ClusterStep, ScaleStep, ListenersStep, TwoReadsStep,
     OverIsOverStep DEF Endings

LEMMA EndingsInit ==
    ASSUME Init
    PROVE  Endings
<1>1. kind \in DOMAIN Script /\ pc = 1 /\ phase = "run" /\ Len(defers) = 0 /\ Len(cleanups) = 0
      /\ up = {} /\ collector = "none" /\ failures = {} /\ snap = None
  BY KindsAssumption, EmptySeq DEF Init
<1>2. SinksInTurn
  <2>1. up = 1 .. 0 /\ 0 \in 0 .. SinkCount /\ 1 \in 1 .. SinkCount
    BY <1>1, SinkCountType
  <2>2. SinksAt[kind] \in Nat /\ SinksAt[kind] >= 1
    BY <1>1 DEF SinksAt, Script
  <2>3. QED
    BY <1>1, <2>1, <2>2 DEF SinksInTurn
<1>3. LocalEnd /\ FilterEnd /\ ScaleEnd
  BY <1>1 DEF LocalEnd, FilterEnd, ScaleEnd, Runs
<1>4. ClusterEnd
  BY <1>1 DEF ClusterEnd, Runs
<1>5. Listeners
  BY PortsAssumption DEF Init, Listeners
<1>6. TwoReads /\ OverIsOver
  BY <1>1 DEF TwoReads, OverIsOver
<1>7. QED
  BY <1>2, <1>3, <1>4, <1>5, <1>6 DEF Endings

--------------------------------------------------------------------------------
(* The types.                                                              *)

LEMMA ScriptedStep ==
    ASSUME Scripted, Registered, Network, Endings, Next
    PROVE  Scripted'
<1>1. /\ kind \in DOMAIN Script /\ pc \in Nat \ {0} /\ Len(Script[kind]) \in Nat
      /\ kind' = kind
  BY KindsAssumption, ScriptLength, KindKept DEF Scripted, Endings
<1>2. ASSUME UNCHANGED <<pc, phase>>
      PROVE  Scripted'
  BY <1>1, <1>2 DEF Scripted
<1>3. ASSUME pc' = pc, phase' \in {"end", "over", "died"}
      PROVE  Scripted'
  BY <1>1, <1>3 DEF Scripted
<1>4. ASSUME NEW s, At(s), Done \/ Fatal
      PROVE  Scripted'
  BY <1>1, <1>4 DEF Scripted, At, Ended, Done, Reported, Fatal
<1>5. CASE Stays \/ Advances \/ Fails
  <2>1. CASE Stays
    BY <1>2, <2>1 DEF Stays, script
  <2>2. CASE Advances
    BY <1>1, <2>2 DEF Advances, InScript, Ended, Scripted
  <2>3. CASE Fails
    BY <1>3, <2>3 DEF Fails, Fatal
  <2>4. QED
    BY <1>5, <2>1, <2>2, <2>3
<1>6. CASE StartSink
  <2>1. At("sinks") /\ (UNCHANGED script \/ Done)
    BY <1>6 DEF StartSink
  <2>2. QED
    BY <1>2, <1>4, <2>1 DEF script
<1>7. CASE StartCollector \/ NewTestCase \/ CreateNamespace \/ RegisterTeardown \/ CreateCollectorObjects
  <2>1. PICK s \in Registering : At(s)
    BY <1>7 DEF StartCollector, Launch, NewTestCase, CreateNamespace, RegisterTeardown,
                CreateCollectorObjects, Registering
  <2>2. Done \/ Fatal
    BY <1>7 DEF StartCollector, NewTestCase, CreateNamespace, RegisterTeardown, CreateCollectorObjects
  <2>3. QED
    BY <1>4, <2>1, <2>2
<1>8. CASE CollectorListens \/ Terminate
  BY <1>2, <1>8 DEF CollectorListens, Terminate, script
<1>9. CASE Finish \/ Over \/ PollPanics
  BY <1>3, <1>9 DEF Finish, Over, PollPanics
<1>10. CASE ShutDownSinks \/ StopCollector \/ StopCase \/ DeleteFromCluster
  BY <1>2, <1>10 DEF ShutDownSinks, StopCollector, StopCase, DeleteFromCluster, Delete, Run
<1>11. QED
  BY <1>5, <1>6, <1>7, <1>8, <1>9, <1>10, NextMoves

LEMMA RegisteredStep ==
    ASSUME Scripted, Registered, Network, Endings, Next
    PROVE  Registered'
<1>1. ASSUME UNCHANGED endings
      PROVE  Registered'
  BY <1>1 DEF Registered, endings
<1>2. ASSUME NEW e \in Entries, OnCleanup(e) \/ Deferred(e)
      PROVE  Registered'
  BY <1>2, Left
<1>3. CASE Stays \/ Advances \/ Fails
  BY <1>1, <1>3 DEF Stays, Advances, Fails, Kept
<1>4. CASE StartSink
  <2>1. UNCHANGED endings \/ RegisterShutdown
    BY <1>4 DEF StartSink
  <2>2. kind \in DOMAIN Script /\ kind \in {"local", "broker", "cluster", "scale", "filter"}
    BY KindsAssumption DEF Scripted, Script
  <2>3. "sinks" \in Entries
    BY DEF Entries
  <2>4. QED
    BY <1>1, <1>2, <2>1, <2>2, <2>3, ShutdownRegistered
<1>5. CASE StartCollector \/ NewTestCase \/ CreateNamespace \/ RegisterTeardown \/ CreateCollectorObjects
  <2>1. \/ UNCHANGED endings
        \/ \E e \in {"collector", "case", "teardown"} : OnCleanup(e)
        \/ \E e \in {"deleteNamespace", "deleteObjects"} : Deferred(e)
    BY <1>5 DEF StartCollector, Launch, NewTestCase, CreateNamespace, RegisterTeardown,
                CreateCollectorObjects
  <2>2. QED
    BY <1>1, <1>2, <2>1 DEF Entries
<1>6. CASE CollectorListens \/ Terminate \/ Finish \/ Over \/ PollPanics
  BY <1>1, <1>6 DEF CollectorListens, Terminate, Finish, Over, PollPanics
<1>7. CASE ShutDownSinks \/ StopCollector \/ StopCase \/ DeleteFromCluster
  <2>1. \E e : Run(e)
    BY <1>7 DEF ShutDownSinks, StopCollector, StopCase, DeleteFromCluster, Delete
  <2>2. QED
    BY <2>1, Unwound
<1>8. QED
  BY <1>3, <1>4, <1>5, <1>6, <1>7, NextMoves

LEMMA NetworkStep ==
    ASSUME Network, Next
    PROVE  Network'
<1>1. CASE UNCHANGED <<port, holder, taken>>
  BY <1>1 DEF Network
<1>2. CASE GetAvailablePort
  BY <1>2 DEF GetAvailablePort, FindPort, Network, outside
<1>3. CASE StartSink
  BY <1>3 DEF StartSink, Network, outside
<1>4. CASE CollectorListens
  BY <1>4 DEF CollectorListens, Network, outside
<1>5. CASE Take
  BY <1>5, DataAssumption DEF Take, Network
<1>6. CASE Leave
  BY <1>6 DEF Leave, Network, outside
<1>7. CASE PollPanics
  BY <1>7 DEF PollPanics, Network, outside
<1>8. CASE ShutDownSinks
  BY <1>8 DEF ShutDownSinks, Run, Released, Network, outside
<1>9. CASE StopCollector
  BY <1>9 DEF StopCollector, Run, Released, Network, outside
<1>10. CASE StopCase
  BY <1>10 DEF StopCase, Run, Released, Network, outside
<1>11. \/ UNCHANGED <<port, holder, taken>>
       \/ GetAvailablePort \/ StartSink \/ CollectorListens \/ Take \/ Leave \/ PollPanics
       \/ ShutDownSinks \/ StopCollector \/ StopCase
  BY DEF Next, Progress, NoPort, PrepareConfig, StartSinkFails,
         StartCollector, StartCollectorFails, NewTestCase, CreateNamespace, RegisterTeardown,
         CreateCollectorObjects, WaitForListener, NothingListens, WaitForHealthCheck,
         Send, Load, WaitForMetrics, WaitForN, Validate,
         DeleteFromCluster, Delete, Run, Finish, Over, Poll, PollFirst, PollSecond, PollTimeout,
         Deliver, Terminate, StrayDelivers, StrayEnds, network, outside
<1>12. QED
  BY <1>1, <1>2, <1>3, <1>4, <1>5, <1>6, <1>7, <1>8, <1>9, <1>10, <1>11

(* What the collector delivers at once is made of distinct items.          *)
LEMMA PayloadType ==
    ASSUME NEW S, S \subseteq Items, NEW payload \in Payloads(S)
    PROVE  payload \in Seq(S) /\ ToSet(payload) \subseteq S /\ payload # <<>>
<1>1. PICK T \in (SUBSET S) \ {{}} : payload \in SetToSeqs(T)
  BY DEF Payloads
<1>2. IsFiniteSet(T)
  BY <1>1, FS_Subset, DataAssumption
<1>3. Cardinality(T) \in Nat
  BY <1>2, FS_CardinalityType
<1>4. Cardinality(T) # 0
  BY <1>1, <1>2, FS_EmptySet
<1>5. payload \in [1 .. Cardinality(T) -> T]
  BY <1>1 DEF SetToSeqs
<1>6. payload \in Seq(S) /\ Len(payload) = Cardinality(T)
  BY <1>1, <1>3, <1>5
<1>7. QED
  BY <1>3, <1>4, <1>6, EmptySeq, ElementOfSeq DEF ToSet

LEMMA UnderTestStep ==
    ASSUME UnderTest, Next
    PROVE  UnderTest'
<1>1. CASE UNCHANGED <<collector, pending, delivered, sent, stray>>
  BY <1>1 DEF UnderTest
<1>2. CASE StartCollector \/ CreateCollectorObjects
  BY <1>2 DEF StartCollector, Launch, CreateCollectorObjects, UnderTest, outside
<1>3. CASE CollectorListens \/ Terminate
  BY <1>3 DEF CollectorListens, Terminate, UnderTest, outside
<1>4. CASE Send
  <2>1. pending' \in SUBSET Items /\ sent' \in BOOLEAN
    BY <1>4 DEF Send, UnderTest
  <2>2. QED
    BY <1>4, <2>1 DEF Send, UnderTest, outside
<1>5. CASE Load
  <2>1. pending' \in SUBSET Items
    BY <1>5 DEF Load
  <2>2. QED
    BY <1>5, <2>1 DEF Load, UnderTest, outside
<1>6. CASE Deliver
  <2>1. PICK payload \in Payloads(IF OnHost THEN pending ELSE Items) :
            /\ delivered' = delivered \cup ToSet(payload)
            /\ pending' \in {pending, pending \ ToSet(payload)}
    BY <1>6 DEF Deliver
  <2>2. (IF OnHost THEN pending ELSE Items) \subseteq Items
    BY DEF UnderTest
  <2>3. ToSet(payload) \subseteq Items
    BY <2>2, PayloadType
  <2>4. QED
    BY <1>6, <2>1, <2>3 DEF Deliver, UnderTest, outside
<1>7. CASE StrayEnds
  BY <1>7 DEF StrayEnds, UnderTest, sut
<1>8. CASE ShutDownSinks \/ StopCollector \/ StopCase
  BY <1>8 DEF ShutDownSinks, StopCollector, StopCase, Stopped, Run, UnderTest, outside
<1>9. CASE DeleteFromCluster
  BY <1>9 DEF DeleteFromCluster, Delete, Deleted, Run, UnderTest, outside
<1>10. \/ UNCHANGED <<collector, pending, delivered, sent, stray>>
       \/ StartCollector \/ CreateCollectorObjects \/ CollectorListens \/ Terminate
       \/ Send \/ Load \/ Deliver \/ StrayEnds
       \/ ShutDownSinks \/ StopCollector \/ StopCase \/ DeleteFromCluster
  BY DEF Next, Progress, GetAvailablePort, NoPort, PrepareConfig, StartSink, StartSinkFails,
         StartCollectorFails, NewTestCase, CreateNamespace, RegisterTeardown,
         WaitForListener, NothingListens, WaitForHealthCheck,
         WaitForMetrics, WaitForN, Validate, Finish, Over, Poll, PollFirst, PollSecond,
         PollPanics, PollTimeout, StrayDelivers, Take, Leave, sut, outside
<1>11. QED
  BY <1>1, <1>2, <1>3, <1>4, <1>5, <1>6, <1>7, <1>8, <1>9, <1>10

LEMMA ArrivedStep ==
    ASSUME UnderTest, Arrived, Next
    PROVE  Arrived'
<1> DEFINE Payload == Seq(Items \cup {Stray})
<1>1. sink \in Seq(Payload) /\ Len(sink) \in Nat /\ MaxPayloads \in Nat /\ Len(sink) <= MaxPayloads
      /\ snap \in 0 .. MaxPayloads \cup {None}
  BY DataAssumption DEF Arrived
<1>2. ASSUME NEW payload \in Payload, sink' = Append(sink, payload), Len(sink) < MaxPayloads, snap' = snap
      PROVE  Arrived'
  BY <1>1, <1>2, AppendProperties DEF Arrived
<1>3. CASE UNCHANGED <<sink, snap>>
  BY <1>3 DEF Arrived
<1>4. CASE Deliver
  <2>1. PICK payload \in Payloads(IF OnHost THEN pending ELSE Items) : sink' = Append(sink, payload)
    BY <1>4 DEF Deliver
  <2>2. (IF OnHost THEN pending ELSE Items) \subseteq Items
    BY DEF UnderTest
  <2>3. payload \in Seq(Items)
    BY <2>2, PayloadType, SeqMonotonic
  <2>4. payload \in Payload
    BY <2>3
  <2>5. QED
    BY <1>2, <1>4, <2>1, <2>4 DEF Deliver
<1>5. CASE StrayDelivers
  <2>1. <<Stray>> \in Payload
    OBVIOUS
  <2>2. QED
    BY <1>2, <1>5, <2>1 DEF StrayDelivers
<1>6. CASE Poll
  <2>1. sink' = sink \/ sink' = [i \in 1 .. Len(sink) |-> <<>>]
    BY <1>1, <1>6 DEF Poll, Each
  <2>2. <<>> \in Payload
    OBVIOUS
  <2>3. sink' \in Seq(Payload) /\ Len(sink') = Len(sink)
    <3>1. CASE sink' = sink
      BY <1>1, <3>1
    <3>2. CASE sink' = [i \in 1 .. Len(sink) |-> <<>>]
      <4>1. PICK n \in Nat : n = Len(sink)
        BY <1>1
      <4> HIDE DEF Payload
      <4>2. sink' \in [1 .. n -> Payload]
        BY <2>2, <3>2, <4>1
      <4>3. sink' \in Seq(Payload) /\ Len(sink') = n
        BY <4>2
      <4>4. QED
        BY <4>1, <4>3
    <3>3. QED
      BY <2>1, <3>1, <3>2
  <2>4. QED
    BY <1>1, <1>6, <2>3 DEF Poll, Arrived
<1>7. CASE PollFirst
  BY <1>1, <1>7 DEF PollFirst, Arrived
<1>8. CASE PollSecond
  BY <1>1, <1>8 DEF PollSecond, Arrived
<1>9. \/ UNCHANGED <<sink, snap>>
      \/ Deliver \/ StrayDelivers \/ Poll \/ PollFirst \/ PollSecond
  BY DEF Next, Progress, GetAvailablePort, NoPort, PrepareConfig, StartSink, StartSinkFails,
         StartCollector, StartCollectorFails, NewTestCase, CreateNamespace, RegisterTeardown,
         CreateCollectorObjects, WaitForListener, NothingListens, WaitForHealthCheck,
         Send, Load, WaitForMetrics, WaitForN, Validate, ShutDownSinks, StopCollector,
         StopCase, DeleteFromCluster, Delete, Run, Finish, Over, PollTimeout, PollPanics,
         CollectorListens, Terminate, StrayEnds, Take, Leave, received
<1>10. QED
  BY <1>3, <1>4, <1>5, <1>6, <1>7, <1>8, <1>9

(***************************************************************************)
(* The inductive invariant.                                                *)
(***************************************************************************)
IInv == Typed /\ Endings

LEMMA IInvInit ==
    ASSUME Init
    PROVE  IInv
<1>1. Scripted /\ Registered
  BY KindsAssumption, ScriptLength DEF Init, Scripted, Registered
<1>2. Network
  BY DataAssumption DEF Init, Network
<1>3. UnderTest
  BY DEF Init, UnderTest
<1>4. Arrived
  BY DataAssumption DEF Init, Arrived
<1>5. QED
  BY <1>1, <1>2, <1>3, <1>4, EndingsInit DEF IInv, Typed

LEMMA IInvStep ==
    ASSUME IInv, [Next]_vars
    PROVE  IInv'
<1>1. CASE Next
  BY <1>1, ScriptedStep, RegisteredStep, NetworkStep, UnderTestStep, ArrivedStep, EndingsStep
     DEF IInv, Typed
<1>2. CASE UNCHANGED vars
  <2>1. Typed'
    BY <1>2 DEF IInv, vars, Typed, Scripted, Registered, Network, UnderTest, Arrived,
                script, endings, network, sut, received, outside
  <2>2. (SinksInTurn /\ Listeners /\ TwoReads /\ OverIsOver)'
    BY <1>2 DEF IInv, vars, Endings, SinksInTurn, Listeners, TwoReads, OverIsOver, SinkCount, OnHost,
                script, endings, network, sut, received, outside
  <2>3. (LocalEnd /\ FilterEnd)'
    BY <1>2 DEF IInv, vars, Endings, LocalEnd, FilterEnd, Runs, script, endings, sut
  <2>4. (ClusterEnd /\ ScaleEnd)'
    BY <1>2 DEF IInv, vars, Endings, ClusterEnd, ScaleEnd, Runs, script, endings, sut
  <2>5. QED
    BY <2>1, <2>2, <2>3, <2>4 DEF IInv, Endings
<1>3. QED
  BY <1>1, <1>2

LEMMA Invariant == Spec => []IInv
  BY IInvInit, IInvStep, PTL DEF Spec

(* Nothing is registered twice.                                            *)
LEMMA RegisteredOnce ==
    ASSUME IInv
    PROVE  IsInjective(defers \o cleanups)
<1> DEFINE all == defers \o cleanups
<1>1. /\ defers \in Seq(Entries) /\ cleanups \in Seq(Entries)
      /\ Len(defers) \in Nat /\ Len(cleanups) \in Nat
  BY DEF IInv, Typed, Registered
<1>2. /\ DOMAIN all = 1 .. Len(defers) + Len(cleanups)
      /\ \A i \in 1 .. Len(defers) + Len(cleanups) :
            all[i] = IF i <= Len(defers) THEN defers[i] ELSE cleanups[i - Len(defers)]
  BY <1>1, ConcatProperties
<1>3. kind \in {"local", "broker", "cluster", "scale", "filter"}
  BY KindsAssumption DEF IInv, Typed, Scripted, Script
<1> SUFFICES ASSUME NEW i \in DOMAIN all, NEW j \in DOMAIN all, all[i] = all[j]
             PROVE  i = j
  BY DEF IsInjective
<1> HIDE DEF all
<1>4. CASE kind \in {"local", "broker"}
  <2>1. /\ Len(defers) = 0 /\ Len(cleanups) \in 0 .. 2
        /\ Len(cleanups) > 0 => cleanups[1] = "sinks"
        /\ Len(cleanups) > 1 => cleanups[2] = "collector"
    BY <1>4 DEF IInv, Endings, LocalEnd
  <2>2. i \in 1 .. Len(cleanups) /\ j \in 1 .. Len(cleanups) /\ cleanups[i] = cleanups[j]
    BY <1>1, <1>2, <2>1
  <2>3. QED
    BY <2>1, <2>2
<1>5. CASE kind = "filter"
  BY <1>2, <1>5 DEF IInv, Endings, FilterEnd
<1>6. CASE kind = "cluster"
  <2>1. /\ Len(cleanups) = 0 /\ Len(defers) \in 0 .. 3
        /\ Len(defers) > 0 => defers[1] = "deleteNamespace"
        /\ Len(defers) > 1 => defers[2] = "sinks"
        /\ Len(defers) > 2 => defers[3] = "deleteObjects"
    BY <1>6 DEF IInv, Endings, ClusterEnd
  <2>2. i \in 1 .. Len(defers) /\ j \in 1 .. Len(defers) /\ defers[i] = defers[j]
    BY <1>1, <1>2, <2>1
  <2>3. QED
    BY <2>1, <2>2
<1>7. CASE kind = "scale"
  <2>1. /\ Len(cleanups) \in 0 .. 1 /\ Len(defers) \in 0 .. 1
        /\ Len(defers) = 1 => defers[1] = "sinks"
        /\ Len(cleanups) = 1 => cleanups[1] = "teardown"
    BY <1>7 DEF IInv, Endings, ScaleEnd
  <2>2. \A n \in DOMAIN all : /\ n \in {1, 2}
                              /\ n = 2 => Len(defers) = 1 /\ all[n] = "teardown"
                              /\ n = 1 => all[n] = IF Len(defers) = 1 THEN "sinks" ELSE "teardown"
    BY <1>1, <1>2, <2>1
  <2>3. QED
    BY <2>2
<1>8. QED
  BY <1>3, <1>4, <1>5, <1>6, <1>7

LEMMA InvariantIsTyped ==
    ASSUME IInv
    PROVE  TypeOK
<1>1. kind \in Kinds /\ pc \in 1 .. Len(Script[kind]) + 1 /\ phase \in {"run", "end", "over", "died"}
  BY DEF IInv, Typed, Scripted
<1>2. ToSet(defers) \subseteq Entries /\ ToSet(cleanups) \subseteq Entries
  BY LenProperties DEF IInv, Typed, Registered, ToSet
<1>3. up \subseteq 1 .. SinkCount
  BY SinkCountType DEF IInv, Endings, SinksInTurn
<1>4. \A n \in DOMAIN sink : ToSet(sink[n]) \subseteq Items \cup {Stray}
  <2>1. TAKE n \in DOMAIN sink
  <2>2. sink[n] \in Seq(Items \cup {Stray})
    BY LenProperties DEF IInv, Typed, Arrived
  <2>3. QED
    BY <2>2, LenProperties DEF ToSet
<1>5. QED
  BY <1>1, <1>2, <1>3, <1>4, RegisteredOnce
     DEF IInv, Typed, Network, UnderTest, Arrived, TypeOK

(* The variables have their types, and nothing is registered to be run     *)
(* twice at the end of a test, whichever step of whichever kind of test    *)
(* has failed.                                                             *)
THEOREM TestTypeCorrect == Spec => []TypeOK
  BY Invariant, InvariantIsTyped, PTL

(* A test that is over has shut down its sinks and stopped its collector,  *)
(* and none of its ports is taken by them, whichever step has failed and   *)
(* whatever other programs do with the ports.  What remains was left by    *)
(* StartUpSinks that failed half-way or by a cluster that refuses.         *)
THEOREM TestCleansUp == Spec => []CleanEnd
<1>1. ASSUME IInv
      PROVE  CleanEnd
  <2>1. SUFFICES ASSUME phase = "over"
                 PROVE  /\ up # {} => ~OnHost /\ "sinks" \in failures
                        /\ Runs => \/ kind = "cluster" /\ "deleteNamespace" \in failures
                                   \/ kind = "scale" /\ "teardown" \in failures
                        /\ \A p \in Ports : /\ holder[p] # "collector"
                                            /\ holder[p] = "sink" => up # {}
    BY DEF CleanEnd
  <2>2. kind \in {"local", "broker", "cluster", "scale", "filter"}
    BY <1>1, KindsAssumption DEF IInv, Typed, Scripted, Script
  <2>3. Len(defers) = 0 /\ Len(cleanups) = 0
    BY <1>1, <2>1 DEF IInv, Endings, OverIsOver
  <2>4. CASE kind \in {"local", "broker", "filter"}
    <3>1. up = {} /\ ~Runs
      BY <1>1, <2>3, <2>4 DEF IInv, Endings, LocalEnd, FilterEnd
    <3>2. QED
      BY <1>1, <3>1 DEF IInv, Endings, Listeners, Runs
  <2>5. CASE kind \in {"cluster", "scale"}
    <3>1. /\ ~OnHost
          /\ up # {} => "sinks" \in failures
          /\ Runs => \/ kind = "cluster" /\ "deleteNamespace" \in failures
                     \/ kind = "scale" /\ "teardown" \in failures
      BY <1>1, <2>1, <2>3, <2>5 DEF IInv, Endings, ClusterEnd, ScaleEnd, OnHost
    <3>2. QED
      BY <1>1, <3>1 DEF IInv, Endings, Listeners
  <2>6. QED
    BY <2>2, <2>4, <2>5
<1>2. QED
  BY <1>1, Invariant, PTL

(* A collector that runs has a sink to export to: in the tests of the      *)
(* kinds "local" and "broker" whichever step fails; in a cluster until it  *)
(* has been asked to end, and only if its objects could all be created and *)
(* deleted and the test binary has not died of a panic.                    *)
THEOREM SinksOutliveCollectors == Spec => []CollectorsStopFirst
<1>1. ASSUME IInv
      PROVE  CollectorsStopFirst
  <2>1. ASSUME kind \in {"local", "broker"}, Runs
        PROVE  1 \in up
    <3>1. up # {} /\ \E n \in 0 .. SinkCount : up = 1 .. n
      BY <1>1, <2>1 DEF IInv, Endings, LocalEnd, SinksInTurn
    <3>2. QED
      BY <3>1, SinkCountType
  <2>2. ASSUME kind = "cluster", Runs, phase # "died", up = {}
        PROVE  failures \cap {"objects", "deleteObjects"} # {}
    BY <1>1, <2>2 DEF IInv, Endings, ClusterEnd
  <2>3. QED
    BY <2>1, <2>2 DEF CollectorsStopFirst
<1>2. QED
  BY <1>1, Invariant, PTL

--------------------------------------------------------------------------------
(* What a test that passes has seen.                                       *)

(* What the items deliver, together.                                       *)
LEMMA ItemsTogether ==
    ASSUME NEW items \in Seq(Items \cup {Stray})
    PROVE  /\ AreResources(MetricsOf(items))
           /\ Points(MetricsOf(items)) = ItemPoints(ToSet(items))
           /\ ToSet(MetricsOf(items)) = {Data[i] : i \in ToSet(items)}
           /\ ToSet(items) \subseteq Items \cup {Stray}
<1> DEFINE m == MetricsOf(items)
<1>1. m = [n \in DOMAIN items |-> Data[items[n]]]
  BY Zenon DEF MetricsOf, Each
<1> HIDE DEF m
<1>2. PICK R : m \in [DOMAIN items -> R]
  <2>1. m \in [DOMAIN items -> {Data[items[n]] : n \in DOMAIN items}]
    BY <1>1
  <2>2. QED
    BY <2>1
<1>3. /\ m \in Seq(ToSet(m)) /\ DOMAIN m = 1 .. Len(items)
      /\ ToSet(items) = {items[n] : n \in 1 .. Len(items)}
      /\ ToSet(m) = {m[n] : n \in 1 .. Len(items)}
  BY <1>2, Elementwise
<1>4. ToSet(m) = {Data[i] : i \in ToSet(items)}
  <2>1. \A n \in 1 .. Len(items) : m[n] = Data[items[n]]
    BY <1>1
  <2> HIDE <1>1
  <2>2. QED
    BY <1>3, <2>1
<1>0. ToSet(items) \subseteq Items \cup {Stray}
  <2>1. \A n \in 1 .. Len(items) : items[n] \in Items \cup {Stray}
    OBVIOUS
  <2>2. QED
    BY <1>3, <2>1
<1>5. \A i \in ToSet(items) : AreResources(<<Data[i]>>)
  BY <1>0, DataAssumption
<1>6. \A d : ToSet(<<d>>) = {d}
  BY DEF ToSet
<1>7. AreResources(m)
  <2>1. ASSUME NEW r \in ToSet(m)
        PROVE  /\ r = [attrs |-> r.attrs, scopes |-> r.scopes]
               /\ AreAttributes(r.attrs) /\ AreScopes(r.scopes)
    <3>1. AreResources(<<r>>) /\ r \in ToSet(<<r>>)
      BY <1>4, <1>5, <1>6
    <3>2. QED
      BY <3>1 DEF AreResources
  <2>2. QED
    BY <1>3, <2>1 DEF AreResources
<1>8. ASSUME NEW x
      PROVE  x \in Points(m) <=> x \in ItemPoints(ToSet(items))
  <2>1. \A attrs, scope, name, a :
            HasResource(m, attrs, scope, name, a) <=>
                \E i \in ToSet(items) : HasResource(<<Data[i]>>, attrs, scope, name, a)
    <3> TAKE attrs, scope, name, a
    <3>1. \A d : HasResource(<<d>>, attrs, scope, name, a) <=>
                    d.attrs = attrs /\ HasScope(d.scopes, scope, name, a)
      BY <1>6 DEF HasResource
    <3>2. HasResource(m, attrs, scope, name, a) <=>
              \E r \in ToSet(m) : r.attrs = attrs /\ HasScope(r.scopes, scope, name, a)
      BY DEF HasResource
    <3> HIDE <1>0, <1>1, <1>2, <1>3, <1>5, <1>6, <1>7
    <3>3. QED
      BY <1>4, <3>1, <3>2
  <2>2. x \in ItemPoints(ToSet(items)) <=> \E i \in ToSet(items) : x \in Points(<<Data[i]>>)
    BY DEF ItemPoints
  <2>3. ASSUME x \in Points(m)
        PROVE  \E i \in ToSet(items) : x \in Points(<<Data[i]>>)
    <3>1. PICK attrs, scope, name, a : /\ x = <<attrs, scope, name, a>>
                                       /\ HasResource(m, attrs, scope, name, a)
      BY <2>3, PointsAreHad
    <3>2. PICK i \in ToSet(items) : HasResource(<<Data[i]>>, attrs, scope, name, a)
      BY <2>1, <3>1
    <3>3. x \in Points(<<Data[i]>>)
      BY <3>1, <3>2, PointsAreHad
    <3>4. QED
      BY <3>3
  <2>4. ASSUME NEW i \in ToSet(items), x \in Points(<<Data[i]>>)
        PROVE  x \in Points(m)
    <3>1. PICK attrs, scope, name, a : /\ x = <<attrs, scope, name, a>>
                                       /\ HasResource(<<Data[i]>>, attrs, scope, name, a)
      BY <2>4, PointsAreHad
    <3>2. HasResource(m, attrs, scope, name, a)
      BY <2>1, <3>1
    <3>3. QED
      BY <3>1, <3>2, PointsAreHad
  <2>5. QED
    BY <2>2, <2>3, <2>4
<1>9. Points(m) = ItemPoints(ToSet(items))
  BY <1>8
<1>10. QED
  BY <1>0, <1>4, <1>7, <1>9 DEF m

(* Attributes agree where it matters if they are the same with stars.      *)
LEMMA AgreeingStars ==
    \A a, b, keys : Agree(a, b, keys) <=> Star(a, keys) = Star(b, keys)
<1> TAKE a, b, keys
<1>1. DOMAIN Star(a, keys) = DOMAIN a /\ DOMAIN Star(b, keys) = DOMAIN b
  BY DEF Star
<1>2. /\ \A k \in DOMAIN a : Star(a, keys)[k] = IF k \in keys THEN "*" ELSE a[k]
      /\ \A k \in DOMAIN b : Star(b, keys)[k] = IF k \in keys THEN "*" ELSE b[k]
  BY DEF Star
<1>3. ASSUME Agree(a, b, keys)
      PROVE  Star(a, keys) = Star(b, keys)
  <2>1. /\ DOMAIN a = DOMAIN b
        /\ \A k \in DOMAIN a : (IF k \in keys THEN "*" ELSE a[k]) = IF k \in keys THEN "*" ELSE b[k]
    BY <1>3 DEF Agree
  <2>2. QED
    BY <2>1 DEF Star
<1>4. ASSUME Star(a, keys) = Star(b, keys)
      PROVE  Agree(a, b, keys)
  BY <1>1, <1>2, <1>4 DEF Agree
<1>5. QED
  BY <1>3, <1>4

(* A point is that of the file if it is with stars.                        *)
LEMMA ExpectedPoint ==
    ASSUME NEW metrics, NEW x \in Points(metrics), NEW y \in Points(Golden)
    PROVE  /\ SamePoint(x, y) <=> Starred(x, ResourceKeys, DatapointKeys) = y
           /\ SamePoint(y, x) <=> Starred(x, ResourceKeys, DatapointKeys) = y
<1>1. PICK a1, a2, a3, a4 : x = <<a1, a2, a3, a4>>
  BY PointsAreHad
<1>2. PICK b1, b2, b3, b4 : y = <<b1, b2, b3, b4>>
  BY PointsAreHad
<1>3. Star(b1, ResourceKeys) = b1 /\ Star(b4, DatapointKeys) = b4
  BY <1>2, GoldenAssumption
<1>4. Starred(x, ResourceKeys, DatapointKeys)
          = <<Star(a1, ResourceKeys), a2, a3, Star(a4, DatapointKeys)>>
  BY <1>1 DEF Starred
<1>5. SamePoint(x, y) <=> /\ Star(a1, ResourceKeys) = Star(b1, ResourceKeys)
                          /\ a2 = b2 /\ a3 = b3
                          /\ Star(a4, DatapointKeys) = Star(b4, DatapointKeys)
  BY <1>1, <1>2, AgreeingStars DEF SamePoint
<1>6. SamePoint(y, x) <=> /\ Star(b1, ResourceKeys) = Star(a1, ResourceKeys)
                          /\ b2 = a2 /\ b3 = a3
                          /\ Star(b4, DatapointKeys) = Star(a4, DatapointKeys)
  BY <1>1, <1>2, AgreeingStars DEF SamePoint
<1>7. QED
  BY <1>2, <1>3, <1>4, <1>5, <1>6

(* The attributes that are compared are those of KeysTellApart.            *)
LEMMA AttributesThatArrive ==
    ASSUME NEW items \in Seq(Items \cup {Stray}), KeysTellApart
    PROVE  TellsApart(AttributesOf(
               ReplaceAttrValsWithStar(MetricsOf(items), ResourceKeys, DatapointKeys)))
<1> DEFINE m == MetricsOf(items)
           starred(metrics) == ReplaceAttrValsWithStar(metrics, ResourceKeys, DatapointKeys)
           all == UNION {AttributesOf(starred(<<Data[i]>>)) : i \in Items \cup {Stray}}
<1>1. /\ AreResources(m) /\ Points(m) = ItemPoints(ToSet(items))
      /\ ToSet(m) = {Data[i] : i \in ToSet(items)} /\ ToSet(items) \subseteq Items \cup {Stray}
  BY ItemsTogether
<1>2. \A i \in Items \cup {Stray} :
          AreResources(<<Data[i]>>) /\ ToSet(<<Data[i]>>) = {Data[i]}
  BY DataAssumption DEF ToSet
<1>3. \A metrics : AreResources(metrics) =>
          /\ {r.attrs : r \in ToSet(starred(metrics))} = {Star(r.attrs, ResourceKeys) : r \in ToSet(metrics)}
          /\ Points(starred(metrics)) = {Starred(x, ResourceKeys, DatapointKeys) : x \in Points(metrics)}
  BY StarringAttributes, StarringPoints
<1>4. TellsApart(all)
  BY DEF KeysTellApart
<1> HIDE DEF m, starred
<1>5. ASSUME NEW r \in ToSet(starred(m))
      PROVE  r.attrs \in all
  <2>1. PICK q \in ToSet(m) : r.attrs = Star(q.attrs, ResourceKeys)
    <3>1. {e.attrs : e \in ToSet(starred(m))} = {Star(q.attrs, ResourceKeys) : q \in ToSet(m)}
      BY <1>1, <1>3
    <3>2. r.attrs \in {e.attrs : e \in ToSet(starred(m))}
      OBVIOUS
    <3>3. r.attrs \in {Star(q.attrs, ResourceKeys) : q \in ToSet(m)}
      BY <3>1, <3>2
    <3>4. QED
      BY <3>3
  <2>2. PICK i \in Items \cup {Stray} : q = Data[i]
    BY <1>1, <2>1
  <2>3. r.attrs \in {Star(d.attrs, ResourceKeys) : d \in ToSet(<<Data[i]>>)}
    BY <1>2, <2>1, <2>2
  <2>4. r.attrs \in {d.attrs : d \in ToSet(starred(<<Data[i]>>))}
    BY <1>2, <1>3, <2>3
  <2>5. QED
    BY <2>4 DEF AttributesOf
<1>6. ASSUME NEW x \in Points(starred(m))
      PROVE  x[4] \in all
  <2>1. PICK y \in Points(m) : x = Starred(y, ResourceKeys, DatapointKeys)
    BY <1>1, <1>3
  <2>2. PICK i \in ToSet(items) : y \in Points(<<Data[i]>>)
    BY <1>1, <2>1 DEF ItemPoints
  <2>3. i \in Items \cup {Stray}
    BY <1>1
  <2>4. x \in Points(starred(<<Data[i]>>))
    BY <1>2, <1>3, <2>1, <2>2, <2>3
  <2>5. QED
    BY <2>3, <2>4 DEF AttributesOf
<1>7. AttributesOf(starred(m)) \subseteq all
  <2> HIDE DEF all
  <2>1. QED
    BY <1>5, <1>6 DEF AttributesOf
<1>8. TellsApart(AttributesOf(starred(m)))
  <2> HIDE DEF all
  <2>1. QED
    BY <1>4, <1>7 DEF TellsApart
<1>9. QED
  BY <1>8 DEF m, starred

LEMMA ComparedWithFile ==
    ASSUME NEW items \in Seq(Items \cup {Stray}), kind # "broker", KeysTellApart
    PROVE  /\ Matches(items) <=> Points(Golden) =
                  {Starred(x, ResourceKeys, DatapointKeys) : x \in ItemPoints(ToSet(items))}
           /\ Matches(items) <=> /\ Covers(ItemPoints(ToSet(items)), Points(Golden))
                                 /\ Covers(Points(Golden), ItemPoints(ToSet(items)))
<1> DEFINE m == MetricsOf(items)
           starred == ReplaceAttrValsWithStar(m, ResourceKeys, DatapointKeys)
           star(x) == Starred(x, ResourceKeys, DatapointKeys)
           P == Points(m)
           Q == Points(Golden)
<1>1. AreResources(m) /\ P = ItemPoints(ToSet(items))
  BY ItemsTogether
<1>2. AreResources(starred) /\ Points(starred) = {star(x) : x \in P}
  BY <1>1, StarringPoints
<1>3. Matches(items) <=> {star(x) : x \in P} = Q
  <2>1. /\ InNormalForm(DeduplicateResources(starred))
        /\ Points(DeduplicateResources(starred)) = Points(starred)
    BY <1>2, AttributesThatArrive, Deduplicated
  <2>2. Matches(items) <=> AssertMetrics(Golden, DeduplicateResources(starred))
    BY DEF Matches
  <2> HIDE DEF starred, P
  <2>3. QED
    BY <1>2, <2>1, <2>2 DEF AssertMetrics
<1>4. \A x \in P : \A y \in Q :
          (SamePoint(x, y) <=> star(x) = y) /\ (SamePoint(y, x) <=> star(x) = y)
  BY ExpectedPoint
<1> HIDE DEF m, star, P, Q
<1>5. {star(x) : x \in P} = Q <=> Covers(P, Q) /\ Covers(Q, P)
  BY <1>4 DEF Covers
<1>6. QED
  BY <1>1, <1>3, <1>5 DEF P, Q, star

(* What a poll looks at comes from the payloads.                           *)
LEMMA GotType ==
    ASSUME NEW T, sink \in Seq(Seq(T)), sink # <<>>
    PROVE  Got \in Seq(T)
<1>1. Len(sink) \in 1 .. Len(sink) /\ sink[Len(sink)] \in Seq(T)
  BY LenProperties, EmptySeq
<1>2. Last(sink) \in Seq(T)
  BY <1>1 DEF Last
<1>3. FlattenSeq(sink) \in Seq(T)
  BY FlattenElements
<1>4. QED
  BY <1>2, <1>3 DEF Got

(* What a poll of a test with a file compares (testutil.go:561 and 632,    *)
(* e2e_test.go:175): the comparison succeeds exactly when the points       *)
(* received are those of the file up to what is ignored, whatever batches  *)
(* they came in, in whatever order and however often.  This holds for data *)
(* whose attributes have different texts if they differ                    *)
(* (testutil.go:739), and in which metrics of one name have one type.      *)
THEOREM ComparisonDisregardsOrder == KeysTellApart => (Spec => []NormalForm)
<1> SUFFICES ASSUME KeysTellApart
             PROVE  Spec => []NormalForm
  OBVIOUS
<1>1. IInv => NormalForm
  <2>1. ASSUME IInv, kind # "broker", sink # <<>>
        PROVE  LET got == ItemPoints(ToSet(Got)) IN
               Matches(Got) <=> Covers(got, Points(Golden)) /\ Covers(Points(Golden), got)
    <3>1. sink \in Seq(Seq(Items \cup {Stray}))
      BY <2>1 DEF IInv, Typed, Arrived
    <3>2. Got \in Seq(Items \cup {Stray})
      BY <2>1, <3>1, GotType
    <3>3. QED
      BY <2>1, <3>2, ComparedWithFile
  <2>2. QED
    BY <2>1, Zenon DEF NormalForm
<1>2. QED
  BY <1>1, Invariant, PTL

(* What is in the sink has been delivered, by its own collector or, in a   *)
(* cluster, by the one of an earlier test.                                 *)
Senders == IF OnHost THEN delivered ELSE delivered \cup {Stray}

Provenance ==
    /\ sink \in Seq(Seq(Senders))
    /\ OnHost => stray = FALSE
    /\ kind # "broker" => \A n \in 1 .. Len(sink) : sink[n] # <<>>

Files == {"local", "cluster", "scale"}

(* How far a test has come says what it has found.                         *)
Found ==
    /\ kind = "filter" /\ sent /\ "received" \notin failures =>
        /\ pc > 9 => sink # <<>> \/ Items = {}
        /\ pc > 10 => delivered = Items
    /\ kind = "broker" /\ pc > 9 => delivered = Items
    /\ kind \in Files =>
        /\ pc >= Len(Script[kind]) => sink # <<>>
        /\ Ended /\ KeysTellApart /\ (OnHost \/ StrayIsForeign) =>
            Covers(ItemPoints(delivered), Points(Golden))
    /\ phase \notin {"run", "died"} => Ended \/ ~(failures \subseteq {"teardown"})

LEMMA ProvenanceStep ==
    ASSUME Typed, Endings, Provenance, Next
    PROVE  Provenance' /\ delivered \subseteq delivered'
<1> DEFINE Own == Seq(Senders)
<1>1. sink \in Seq(Own) /\ Len(sink) \in Nat /\ kind' = kind /\ OnHost' = OnHost
      /\ (kind # "broker" => \A n \in 1 .. Len(sink) : sink[n] # <<>>)
  BY KindKept DEF Provenance, Endings, Typed, OnHost
<1>0. OnHost => stray' = FALSE
  <2>1. stray' = stray \/ stray' = FALSE
    BY DEF Next, Progress, GetAvailablePort, NoPort, PrepareConfig, StartSink, StartSinkFails,
           StartCollector, StartCollectorFails, NewTestCase, CreateNamespace, RegisterTeardown,
           CreateCollectorObjects, WaitForListener, NothingListens, WaitForHealthCheck,
           Send, Load, WaitForMetrics, WaitForN, Validate, ShutDownSinks, StopCollector,
           StopCase, DeleteFromCluster, Delete, Run, Finish, Over, Poll, PollFirst, PollSecond,
           PollTimeout, PollPanics, CollectorListens, Deliver, Terminate, StrayDelivers,
           StrayEnds, Take, Leave, outside
  <2>2. QED
    BY <2>1 DEF Provenance
<1>2. CASE UNCHANGED <<sink, delivered>>
  BY <1>0, <1>1, <1>2 DEF Provenance, Senders
<1>3. CASE Deliver
  <2>1. PICK payload \in Payloads(IF OnHost THEN pending ELSE Items) :
            sink' = Append(sink, payload) /\ delivered' = delivered \cup ToSet(payload)
    BY <1>3 DEF Deliver
  <2>2. (IF OnHost THEN pending ELSE Items) \subseteq Items
    BY DEF Typed, UnderTest
  <2>3. payload \in Seq(Items) /\ payload # <<>>
    BY <2>2, PayloadType, SeqMonotonic
  <2>4. payload \in Seq(ToSet(payload))
    BY <2>3, LenProperties DEF ToSet
  <2>5. Senders \subseteq Senders' /\ ToSet(payload) \subseteq Senders'
    BY <1>1, <2>1 DEF Senders
  <2>6. Own \subseteq Own' /\ payload \in Own'
    BY <2>4, <2>5, SeqMonotonic
  <2>7. sink \in Seq(Own')
    BY <1>1, <2>6, SeqMonotonic
  <2>8. /\ sink' \in Seq(Own') /\ Len(sink') = Len(sink) + 1 /\ sink'[Len(sink) + 1] = payload
        /\ \A n \in 1 .. Len(sink) : sink'[n] = sink[n]
    BY <2>1, <2>6, <2>7, AppendProperties
  <2>9. QED
    BY <1>0, <1>1, <2>1, <2>3, <2>8 DEF Provenance
<1>4. CASE StrayDelivers
  <2>0. stray /\ delivered' = delivered /\ sink' = Append(sink, <<Stray>>)
    BY <1>4 DEF StrayDelivers, sut
  <2>1. <<Stray>> \in Own /\ <<Stray>> # <<>> /\ Senders' = Senders
    <3>1. ~OnHost
      BY <2>0 DEF Provenance
    <3>2. Senders = delivered \cup {Stray} /\ Senders' = Senders
      BY <1>1, <2>0, <3>1 DEF Senders
    <3> HIDE <1>1, <2>0
    <3>3. Stray \in Senders
      BY <3>2
    <3> HIDE <3>2
    <3>4. <<Stray>> \in Own /\ <<Stray>> # <<>>
      BY <3>3
    <3>5. QED
      BY <3>2, <3>4
  <2> HIDE DEF Own
  <2>2. /\ sink' \in Seq(Own) /\ Len(sink') = Len(sink) + 1 /\ sink'[Len(sink) + 1] = <<Stray>>
        /\ \A n \in 1 .. Len(sink) : sink'[n] = sink[n]
    BY <1>1, <2>0, <2>1, AppendProperties
  <2>3. QED
    BY <1>0, <1>1, <2>0, <2>1, <2>2 DEF Provenance, Own
<1>5. CASE Poll
  <2>1. delivered' = delivered /\ (sink' = sink \/ (kind = "broker" /\ sink' = [i \in 1 .. Len(sink) |-> <<>>]))
    <3>1. DOMAIN sink = 1 .. Len(sink)
      BY <1>1, LenProperties
    <3>2. sink' = IF kind = "broker" THEN [i \in DOMAIN sink |-> <<>>] ELSE sink
      BY <1>5 DEF Poll, Each
    <3>3. delivered' = delivered
      BY <1>5 DEF Poll, sut
    <3>4. QED
      BY <3>1, <3>2, <3>3
  <2>2. CASE kind = "broker" /\ sink' = [i \in 1 .. Len(sink) |-> <<>>]
    <3>1. PICK n \in Nat : n = Len(sink)
      BY <1>1
    <3>2. <<>> \in Own
      OBVIOUS
    <3> HIDE DEF Own
    <3>3. sink' \in [1 .. n -> Own]
      BY <2>2, <3>1, <3>2
    <3>4. sink' \in Seq(Own)
      BY <3>3
    <3>5. QED
      BY <1>0, <1>1, <2>1, <2>2, <3>4 DEF Provenance, Own, Senders
  <2>3. CASE sink' = sink
    BY <1>0, <1>1, <2>1, <2>3 DEF Provenance, Senders
  <2>4. QED
    BY <2>1, <2>2, <2>3
<1>6. UNCHANGED <<sink, delivered>> \/ Deliver \/ StrayDelivers \/ Poll
  BY DEF Next, Progress, GetAvailablePort, NoPort, PrepareConfig, StartSink, StartSinkFails,
         StartCollector, StartCollectorFails, NewTestCase, CreateNamespace, RegisterTeardown,
         CreateCollectorObjects, WaitForListener, NothingListens, WaitForHealthCheck,
         Send, Load, WaitForMetrics, WaitForN, Validate, ShutDownSinks, StopCollector,
         StopCase, DeleteFromCluster, Delete, Run, Finish, Over, PollFirst, PollSecond,
         PollTimeout, PollPanics, CollectorListens, Terminate, StrayEnds, Take, Leave,
         received, sut
<1>7. QED
  BY <1>2, <1>3, <1>4, <1>5, <1>6

(* A test knows of no failure that it would forget.                        *)
LEMMA FailuresGrow ==
    ASSUME Next
    PROVE  failures \subseteq failures'
  BY DEF Next, Progress, GetAvailablePort, NoPort, PrepareConfig, StartSink, StartSinkFails,
         StartCollector, StartCollectorFails, NewTestCase, CreateNamespace, RegisterTeardown,
         CreateCollectorObjects, WaitForListener, NothingListens, WaitForHealthCheck,
         Send, Load, WaitForMetrics, WaitForN, Validate, ShutDownSinks, StopCollector,
         StopCase, Stopped, DeleteFromCluster, Delete, Run, Finish, Over, Poll, PollFirst, PollSecond,
         PollTimeout, PollPanics, CollectorListens, Deliver, Terminate, StrayDelivers, StrayEnds,
         Take, Leave, script, Done, Reported, Fatal

(* Each of these steps of a script is taken by one action only.            *)
LEMMA OneAction ==
    ASSUME Next, pc' # pc
    PROVE  /\ InScript
           /\ Step = "received" => WaitForN
           /\ Step = "validate" => Validate
           /\ Step = "wait" => WaitForMetrics
           /\ Step = "poll" => Poll \/ PollSecond
  BY DEF Next, Progress, GetAvailablePort, NoPort, PrepareConfig, StartSink, StartSinkFails,
         StartCollector, StartCollectorFails, Launch, NewTestCase, CreateNamespace, RegisterTeardown,
         CreateCollectorObjects, WaitForListener, NothingListens, WaitForHealthCheck,
         Send, Load, WaitForMetrics, WaitForN, Validate, ShutDownSinks, StopCollector,
         StopCase, DeleteFromCluster, Delete, Run, Finish, Over, Poll, PollFirst, PollSecond,
         PollTimeout, PollPanics, CollectorListens, Deliver, Terminate, StrayDelivers, StrayEnds,
         Take, Leave, script, Done, Reported, Fatal, At, Step, InScript, Roles

LEMMA SentBefore ==
    ASSUME Next, sent' # sent
    PROVE  At("send") \/ At("load")
  BY DEF Next, Progress, GetAvailablePort, NoPort, PrepareConfig, StartSink, StartSinkFails,
         StartCollector, StartCollectorFails, NewTestCase, CreateNamespace, RegisterTeardown,
         CreateCollectorObjects, WaitForListener, NothingListens, WaitForHealthCheck,
         Send, Load, WaitForMetrics, WaitForN, Validate, ShutDownSinks, StopCollector,
         StopCase, DeleteFromCluster, Delete, Run, Finish, Over, Poll, PollFirst, PollSecond,
         PollTimeout, PollPanics, CollectorListens, Deliver, Terminate, StrayDelivers, StrayEnds,
         Take, Leave

LEMMA Turns ==
    ASSUME Typed, Next
    PROVE  pc' = pc \/ (InScript /\ pc' = pc + 1 /\ phase' = "run")
<1>1. CASE Stays \/ Advances \/ Fails
  BY <1>1 DEF Stays, Advances, Fails, Fatal, InScript, script
<1>2. ASSUME NEW s, At(s), Done \/ Fatal
      PROVE  pc' = pc \/ (InScript /\ pc' = pc + 1 /\ phase' = "run")
  BY <1>2 DEF At, InScript, Done, Reported, Fatal
<1>3. CASE StartSink
  BY <1>2, <1>3 DEF StartSink, script
<1>4. CASE StartCollector \/ NewTestCase \/ CreateNamespace \/ RegisterTeardown \/ CreateCollectorObjects
  <2>1. \E s : At(s)
    BY <1>4 DEF StartCollector, Launch, NewTestCase, CreateNamespace, RegisterTeardown,
                CreateCollectorObjects
  <2>2. Done \/ Fatal
    BY <1>4 DEF StartCollector, NewTestCase, CreateNamespace, RegisterTeardown, CreateCollectorObjects
  <2>3. QED
    BY <1>2, <2>1, <2>2
<1>5. CASE CollectorListens \/ Terminate \/ Finish \/ Over \/ PollPanics
  BY <1>5 DEF CollectorListens, Terminate, Finish, Over, PollPanics, script
<1>6. CASE ShutDownSinks \/ StopCollector \/ StopCase \/ DeleteFromCluster
  BY <1>6 DEF ShutDownSinks, StopCollector, StopCase, DeleteFromCluster, Delete, Run
<1>7. QED
  BY <1>1, <1>3, <1>4, <1>5, <1>6, NextMoves DEF Typed

LEMMA Ends ==
    ASSUME Next
    PROVE  \/ phase' \in {phase, "run"} \/ Ended \/ phase = "end" \/ PollPanics
           \/ InScript /\ Step \in failures' /\ Step # "teardown"
  BY DEF Next, Progress, GetAvailablePort, NoPort, PrepareConfig, StartSink, StartSinkFails,
         StartCollector, StartCollectorFails, Launch, NewTestCase, CreateNamespace, RegisterTeardown,
         CreateCollectorObjects, WaitForListener, NothingListens, WaitForHealthCheck,
         Send, Load, WaitForMetrics, WaitForN, Validate, ShutDownSinks, StopCollector,
         StopCase, DeleteFromCluster, Delete, Run, Finish, Over, Poll, PollFirst, PollSecond,
         PollTimeout, CollectorListens, Deliver, Terminate, StrayDelivers, StrayEnds,
         Take, Leave, script, Done, Reported, Fatal, At, Step, InScript, Roles

LEMMA SinkStays ==
    ASSUME Typed, Next, kind # "broker", sink # <<>>
    PROVE  sink' # <<>>
<1>1. sink \in Seq(Seq(Items \cup {Stray}))
  BY DEF Typed, Arrived
<1>2. \A x : Append(sink, x) # <<>>
  BY <1>1
<1>3. sink' = sink \/ \E x : sink' = Append(sink, x)
  BY DEF Next, Progress, GetAvailablePort, NoPort, PrepareConfig, StartSink, StartSinkFails,
         StartCollector, StartCollectorFails, NewTestCase, CreateNamespace, RegisterTeardown,
         CreateCollectorObjects, WaitForListener, NothingListens, WaitForHealthCheck,
         Send, Load, WaitForMetrics, WaitForN, Validate, ShutDownSinks, StopCollector,
         StopCase, DeleteFromCluster, Delete, Run, Finish, Over, Poll, PollFirst, PollSecond,
         PollTimeout, PollPanics, CollectorListens, Deliver, Terminate, StrayDelivers, StrayEnds,
         Take, Leave, received
<1>4. QED
  BY <1>2, <1>3

(* As many items as sent, and every payload the expected batch: then the   *)
(* batch was delivered.                                                    *)
LEMMA FilterFinds ==
    ASSUME Typed, Typed', Endings, Provenance, Found, Next, kind = "filter",
           sent', "received" \notin failures'
    PROVE  /\ pc' > 9 => sink' # <<>> \/ Items = {}
           /\ pc' > 10 => delivered' = Items
<1>1. /\ "received" \notin failures /\ pc \in Nat /\ pc' \in {pc, pc + 1}
      /\ delivered \subseteq delivered' /\ delivered' \subseteq Items /\ delivered \subseteq Items
  BY FailuresGrow, Turns, ProvenanceStep, KindsAssumption, ScriptLength
     DEF Typed, Scripted, UnderTest
<1>2. sent \/ pc = 8
  <2>1. kind \in DOMAIN Script /\ pc \in 1 .. Len(Script[kind]) + 1
    BY KindsAssumption DEF Typed, Scripted
  <2>2. ASSUME At("send") \/ At("load")
        PROVE  pc = 8
    <3>1. pc \in 1 .. 10 /\ Script["filter"][pc] \in {"send", "load"}
      BY <2>1, <2>2 DEF At, Ended, Script
    <3>2. QED
      BY <3>1 DEF Script
  <2>3. sent' # sent => pc = 8
    BY <2>2, SentBefore
  <2>4. QED
    BY <2>3, Zenon
<1>3. ASSUME pc' > 9
      PROVE  sink' # <<>> \/ Items = {}
  <2>1. CASE pc > 9
    <3>1. sink # <<>> \/ Items = {}
      BY <1>1, <1>2, <2>1 DEF Found
    <3>2. QED
      BY <3>1, SinkStays
  <2>2. CASE pc = 9
    <3>1. WaitForN /\ sent
      <4>1. Step = "received" /\ pc' # pc /\ sent
        BY <1>2, <1>3, <2>2 DEF Step, Script
      <4>2. QED
        BY <4>1, OneAction
    <3>2. sink' = sink
      BY <3>1 DEF WaitForN, received
    <3>3. Len(FlattenSeq(sink)) = Cardinality(Items)
      <4>1. Step = "received"
        BY <2>2 DEF Step, Script
      <4>2. QED
        BY <1>1, <3>1, <4>1 DEF WaitForN, Reported
    <3>4. CASE sink = <<>>
      <4>1. FlattenSeq(sink) = sink /\ Len(sink) = 0
        BY <3>4 DEF FlattenSeq
      <4>2. Cardinality(Items) = 0
        BY <3>3, <4>1
      <4>3. QED
        BY <4>2, FS_EmptySet, DataAssumption
    <3>5. QED
      BY <3>2, <3>4
  <2>3. QED
    BY <1>1, <1>3, <2>1, <2>2
<1>4. ASSUME pc' > 10
      PROVE  delivered' = Items
  <2>1. CASE pc > 10
    <3>1. delivered = Items
      BY <1>1, <1>2, <2>1 DEF Found
    <3>2. QED
      BY <1>1, <3>1
  <2>2. CASE pc = 10
    <3>1. Validate /\ sent /\ pc' # pc
      <4>1. Step = "validate" /\ pc' # pc /\ sent
        BY <1>2, <1>4, <2>2 DEF Step, Script
      <4>2. QED
        BY <4>1, OneAction
    <3>2. \A payload \in ToSet(sink) : Validated(payload)
      BY <3>1 DEF Validate, Fatal
    <3>3. sink # <<>> \/ Items = {}
      BY <1>1, <2>2, <3>1 DEF Found
    <3>4. CASE sink # <<>>
      <4>1. /\ sink \in Seq(Seq(delivered)) /\ 1 \in DOMAIN sink /\ sink[1] # <<>>
        BY <3>4 DEF Provenance, Senders, OnHost
      <4>2. PICK payload \in Seq(delivered) : payload = sink[1]
        BY <4>1
      <4>3. payload # <<>> /\ Validated(payload)
        BY <3>2, <4>1, <4>2 DEF ToSet
      <4>4. 1 \in DOMAIN payload
        BY <4>2, <4>3
      <4>5. ToSet(payload) = Items
        BY <4>3, <4>4 DEF Validated, ToSet
      <4>6. ToSet(payload) \subseteq delivered
        BY <4>2 DEF ToSet
      <4>7. QED
        BY <1>1, <4>5, <4>6, DataAssumption
    <3>5. QED
      BY <1>1, <3>3, <3>4
  <2>3. QED
    BY <1>1, <1>4, <2>1, <2>2
<1>5. QED
  BY <1>3, <1>4

(* All that was sent is among the payloads.                                *)
LEMMA BrokerFinds ==
    ASSUME Typed, Typed', Endings, Provenance, Found, Next, kind = "broker", pc' > 9
    PROVE  delivered' = Items
<1>1. /\ pc \in Nat /\ pc' \in {pc, pc + 1}
      /\ delivered \subseteq delivered' /\ delivered' \subseteq Items
  BY Turns, ProvenanceStep, KindsAssumption, ScriptLength DEF Typed, Scripted, UnderTest
<1>2. CASE pc > 9
  BY <1>1, <1>2 DEF Found
<1>3. CASE pc = 9
  <2>1. Step = "poll" /\ pc' # pc
    BY <1>1, <1>3 DEF Step, Script
  <2>2. Matches(Got)
    BY <2>1, OneAction DEF Poll, PollSecond, script
  <2>3. Got = FlattenSeq(sink)
    BY DEF Got
  <2>4. ToSet(FlattenSeq(sink)) = Items
    BY <2>2, <2>3 DEF Matches
  <2>5. FlattenSeq(sink) \in Seq(delivered)
    BY FlattenElements DEF Provenance, Senders, OnHost
  <2>6. ToSet(FlattenSeq(sink)) \subseteq delivered
    BY <2>5, LenProperties DEF ToSet
  <2>7. QED
    BY <1>1, <2>4, <2>6, DataAssumption
<1>4. QED
  BY <1>1, <1>2, <1>3

(* The points of the file were among those compared.                       *)
LEMMA FileFinds ==
    ASSUME Typed, Typed', Endings, Provenance, Found, Next, kind \in Files
    PROVE  /\ pc' >= Len(Script[kind]) => sink' # <<>>
           /\ pc' > Len(Script[kind]) /\ KeysTellApart /\ (OnHost \/ StrayIsForeign) =>
                 Covers(ItemPoints(delivered'), Points(Golden))
<1>1. /\ pc \in Nat /\ pc' \in {pc, pc + 1} /\ Len(Script[kind]) \in Nat
      /\ delivered \subseteq delivered'
  BY Turns, ProvenanceStep, KindsAssumption, ScriptLength DEF Typed, Scripted, UnderTest
<1>2. /\ pc = Len(Script[kind]) - 1 => Step = "wait"
      /\ pc = Len(Script[kind]) => Step = "poll"
  <2>1. CASE kind = "local"
    BY <2>1 DEF Step, Script
  <2>2. CASE kind = "cluster"
    BY <2>2 DEF Step, Script
  <2>3. CASE kind = "scale"
    BY <2>3 DEF Step, Script
  <2>4. QED
    BY <2>1, <2>2, <2>3 DEF Files
<1>3. ASSUME pc' >= Len(Script[kind])
      PROVE  sink' # <<>>
  <2>1. CASE pc >= Len(Script[kind])
    BY <2>1, SinkStays DEF Found, Files
  <2>2. CASE pc < Len(Script[kind])
    <3>1. WaitForMetrics /\ pc' # pc
      BY <1>1, <1>2, <1>3, <2>2, OneAction
    <3>2. sink # <<>> /\ sink' = sink
      BY <3>1 DEF WaitForMetrics, Fatal, received
    <3>3. QED
      BY <3>2
  <2>3. QED
    BY <1>1, <2>1, <2>2
<1>4. ASSUME pc' > Len(Script[kind]), KeysTellApart, OnHost \/ StrayIsForeign
      PROVE  Covers(ItemPoints(delivered'), Points(Golden))
  <2>1. CASE pc > Len(Script[kind])
    <3>1. Covers(ItemPoints(delivered), Points(Golden))
      BY <1>4, <2>1 DEF Found, Ended
    <3>2. ItemPoints(delivered) \subseteq ItemPoints(delivered')
      BY <1>1 DEF ItemPoints
    <3>3. QED
      BY <3>1, <3>2 DEF Covers
  <2>2. CASE pc = Len(Script[kind])
    <3>1. (Poll \/ PollSecond) /\ pc' # pc
      BY <1>1, <1>2, <1>4, <2>2, OneAction
    <3>2. Matches(Got)
      BY <3>1 DEF Poll, PollSecond, script
    <3>3. sink # <<>>
      BY <1>1, <2>2 DEF Found
    <3>4. Got \in Seq(Senders) /\ Senders \subseteq Items \cup {Stray}
      BY <3>3, GotType DEF Provenance, Senders, Typed, UnderTest
    <3>5. Got \in Seq(Items \cup {Stray})
      BY <3>4, SeqMonotonic
    <3>6. ToSet(Got) \subseteq Senders
      BY <3>4, LenProperties DEF ToSet
    <3>7. /\ Covers(ItemPoints(ToSet(Got)), Points(Golden))
          /\ Covers(Points(Golden), ItemPoints(ToSet(Got)))
      BY <1>4, <3>2, <3>5, ComparedWithFile DEF Files
    <3>8. ToSet(Got) \subseteq delivered
      <4>1. CASE OnHost
        BY <3>6, <4>1 DEF Senders
      <4>2. CASE StrayIsForeign
        <5>1. PICK x \in ItemPoints({Stray}) : \A y \in Points(Golden) : ~SamePoint(x, y)
          BY <4>2 DEF StrayIsForeign
        <5>2. x \in Points(<<Data[Stray]>>)
          BY <5>1 DEF ItemPoints
        <5>3. \A y \in Points(Golden) : ~SamePoint(y, x)
          BY <5>1, <5>2, ExpectedPoint
        <5>4. x \notin ItemPoints(ToSet(Got))
          BY <3>7, <5>3 DEF Covers
        <5>5. Stray \notin ToSet(Got)
          BY <5>2, <5>4 DEF ItemPoints
        <5>6. QED
          BY <3>6, <5>5 DEF Senders
      <4>3. QED
        BY <1>4, <4>1, <4>2
    <3>9. ItemPoints(ToSet(Got)) \subseteq ItemPoints(delivered')
      BY <1>1, <3>8 DEF ItemPoints
    <3>10. QED
      BY <3>7, <3>9 DEF Covers
  <2>3. QED
    BY <1>1, <1>4, <2>1, <2>2
<1>5. QED
  BY <1>3, <1>4

LEMMA FoundStep ==
    ASSUME Typed, Typed', Endings, Provenance, Found, Next
    PROVE  Found'
<1>1. kind' = kind /\ OnHost' = OnHost /\ Ended' = (pc' > Len(Script[kind]))
  BY KindKept DEF Typed, Endings, OnHost, Ended
<1>2. ASSUME phase' \notin {"run", "died"}
      PROVE  Ended' \/ ~(failures' \subseteq {"teardown"})
  <2>1. pc' = pc /\ Ended' = Ended /\ failures \subseteq failures'
    BY <1>1, <1>2, Turns, FailuresGrow DEF Ended
  <2>2. ~PollPanics
    BY <1>2 DEF PollPanics
  <2>3. CASE phase \notin {"run", "died"}
    BY <2>1, <2>3 DEF Found
  <2>4. CASE InScript /\ Step \in failures' /\ Step # "teardown"
    BY <2>4
  <2>5. QED
    BY <1>2, <2>1, <2>2, <2>3, <2>4, Ends
<1>3. kind \in Files =>
          /\ pc' >= Len(Script[kind]) => sink' # <<>>
          /\ Ended' /\ KeysTellApart /\ (OnHost' \/ StrayIsForeign) =>
                Covers(ItemPoints(delivered'), Points(Golden))
  BY <1>1, FileFinds
<1>4. QED
  BY <1>1, <1>2, <1>3, FilterFinds, BrokerFinds DEF Found

(* A test passes only if the collector under test has delivered what it    *)
(* expects: every item in a filter test that has sent its batch and in a   *)
(* test of the broker, every point of the file in the others.  Whoever     *)
(* else listens on the ports or repeats a delivery can not make it pass,   *)
(* nor, in a cluster, the collector of an earlier test, if that delivers   *)
(* something the file does not hold.  For the tests with a file this holds *)
(* if different attributes have different texts (testutil.go:739).         *)
THEOREM PassingIsEarned ==
    Spec => []((kind \in Files => KeysTellApart) /\ (OnHost \/ StrayIsForeign) => PassedDelivered)
<1>1. Init => Provenance /\ Found
  <2>1. ASSUME Init
        PROVE  Provenance /\ Found
    <3>1. sink = <<>> /\ pc = 1 /\ phase = "run" /\ (OnHost => stray = FALSE)
      BY <2>1 DEF Init, OnHost
    <3>2. kind \in Files => Len(Script[kind]) > 1
      <4>1. Len(Script["local"]) > 1 /\ Len(Script["cluster"]) > 1 /\ Len(Script["scale"]) > 1
        BY DEF Script
      <4>2. QED
        BY <4>1 DEF Files
    <3>3. Provenance
      BY <3>1 DEF Provenance
    <3>4. kind \in Files => ~(pc >= Len(Script[kind])) /\ ~Ended
      BY <3>1, <3>2, ScriptLength DEF Ended, Files, Script
    <3>5. Found
      BY <3>1, <3>4 DEF Found
    <3>6. QED
      BY <3>3, <3>5
  <2>2. QED
    BY <2>1
<1>2. IInv /\ IInv' /\ Provenance /\ Found /\ [Next]_vars => (Provenance /\ Found)'
  <2>1. CASE Next
    BY <2>1, ProvenanceStep, FoundStep DEF IInv
  <2>2. CASE UNCHANGED vars
    BY <2>2 DEF vars, Provenance, Senders, Found, Ended, OnHost, script, sut, received, outside
  <2>3. QED
    BY <2>1, <2>2
<1>3. IInv /\ Found =>
          ((kind \in Files => KeysTellApart) /\ (OnHost \/ StrayIsForeign) => PassedDelivered)
  <2>1. SUFFICES ASSUME IInv, Found, kind \in Files => KeysTellApart, OnHost \/ StrayIsForeign,
                        phase = "over", failures \subseteq {"teardown"}
                 PROVE  CASE kind = "filter" -> sent => delivered = Items
                          [] kind = "broker" -> delivered = Items
                          [] OTHER           -> Covers(ItemPoints(delivered), Points(Golden))
    BY Zenon DEF PassedDelivered, Passed
  <2>2. Ended
    BY <2>1 DEF Found
  <2>3. kind = "filter" => pc > 10
    BY <2>2 DEF Ended, Script
  <2>4. kind = "broker" => pc > 9
    BY <2>2 DEF Ended, Script
  <2>5. "received" \notin failures
    BY <2>1
  <2>6. (kind = "filter" => (sent => delivered = Items)) /\ (kind = "broker" => delivered = Items)
    BY <2>1, <2>3, <2>4, <2>5 DEF Found
  <2>7. kind \notin {"filter", "broker"} => Covers(ItemPoints(delivered), Points(Golden))
    <3>1. kind \in {"local", "broker", "cluster", "scale", "filter"}
      BY <2>1, KindsAssumption DEF IInv, Typed, Scripted, Script
    <3>2. QED
      BY <2>1, <2>2, <3>1 DEF Found, Files
  <2>8. QED
    BY <2>6, <2>7, Zenon
<1>4. QED
  BY <1>1, <1>2, <1>3, Invariant, PTL DEF Spec
================================================================================
