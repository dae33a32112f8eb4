--------------------------- MODULE MCIntegrationTest ---------------------------
(* Instances of ConfiguredTest for TLC.                                    *)
EXTENDS ConfiguredTest

CONSTANTS p1, p2, p3, f1, f2, a, b, c, other

MCFixed == <<f1, f2>>

Metric(pod, uid, version, state) ==
    [attrs  |-> [pod |-> pod, uid |-> uid],
     scopes |-> <<[name |-> "scope", version |-> version,
                   metrics |-> <<[name |-> "m",
                        points |-> <<[attrs |-> [state |-> state]]>>]>>]>>]

(* Three pods of one workload: a and b have a metric each, c repeats the   *)
(* point of a.  The uid is ignored.                                        *)
MCData == (a :> Metric("p", "u1", "1.0", "x")) @@ (b :> Metric("p", "u2", "1.0", "y"))
       @@ (c :> Metric("p", "u3", "1.1", "x")) @@ (other :> Metric("q", "u4", "", "x"))

MCGolden ==
    <<[attrs  |-> [pod |-> "p", uid |-> "*"],
       scopes |-> <<[name |-> "scope", version |-> "*",
                     metrics |-> <<[name |-> "m",
                        points |-> <<[attrs |-> [state |-> "y"]],
                                     [attrs |-> [state |-> "x"]]>>]>>]>>]>>

(* The text of a value of the stray collector holds the separator.         *)
MCKeyOrder == <<"pod", "state", "uid">>
MCAsString == [v \in {"p", "q", "u1", "u2", "u3", "u4", "x", "y", "*"} |->
                   IF v = "q" THEN <<"p", ",">> ELSE <<v>>]

ASSUME StrayIsForeign /\ KeysTellApart

(* An example and its overlays: the local endpoint of an exporter without  *)
(* the headers, a list in place of a mapping, a receiver and a service,    *)
(* and a scalar.                                                           *)
MCKeys == {"receivers", "kubelet", "exporters", "http", "endpoint", "headers", "auth"}
MCValues == {"v1", "v2", "dynatrace", "token", "sink", "null", "p"}

Has(nodes) == Mapping([key \in MCKeys |-> IF key \in DOMAIN nodes THEN nodes[key] ELSE Absent])

MCBase == Has([
    receivers |-> Has([http |-> Leaf("v1"), kubelet |-> Leaf("v1")]),
    exporters |-> Has([
        http |-> Has([endpoint |-> Leaf("dynatrace"),
                          headers |-> Has([auth |-> Leaf("token")])])])])

MCWithoutHeaders == Has([exporters |-> Has([
    http |-> Has([endpoint |-> Leaf("sink"), headers |-> Has(<<>>)])])])

MCOverlays == {
    MCWithoutHeaders,
    Has([receivers |-> Leaf("null")]),
    Has([auth |-> Leaf("p"), receivers |-> Has([kubelet |-> Leaf("v2")])]),
    Leaf("p")}

(* The one overlay of k8scombined/testdata/config-overlays/local.yaml.     *)
MCLocal == {MCWithoutHeaders}
================================================================================
