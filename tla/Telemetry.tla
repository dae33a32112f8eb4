------------------------------- MODULE Telemetry -------------------------------
(***************************************************************************)
(* What the end-to-end tests do to received metrics before they compare    *)
(* them with a file of expected ones                                       *)
(* (src/internal/testcommon/testutil/testutil.go).                         *)
(*                                                                         *)
(* Metrics are a sequence of resources, a resource has scopes, a scope has *)
(* metrics and a metric has points; the five types of metrics are treated  *)
(* alike.  Metrics of one name have one type here: those of two types,     *)
(* which make the code panic when it merges them (testutil.go:804), are    *)
(* left out.  Attributes are a function from keys to values.               *)
(***************************************************************************)
EXTENDS Selections

CONSTANTS
    KeyOrder,  \* the keys of attributes in the order in which they are sorted
    AsString   \* AsString[v]: the characters of a value, whatever its type

ASSUME KeyOrderAssumption == IsInjective(KeyOrder)

Star(attrs, keys) ==
    [k \in DOMAIN attrs |-> IF k \in keys THEN "*" ELSE attrs[k]]

Each(s, F(_)) == [i \in DOMAIN s |-> F(s[i])]

(* The attributes of these keys, and the version of a scope if it has one, *)
(* differ from run to run.                                                 *)
ReplaceAttrValsWithStar(metrics, resourceKeys, datapointKeys) ==
    LET point(p)    == [p EXCEPT !.attrs = Star(@, datapointKeys)]
        metric(m)   == [m EXCEPT !.points = Each(@, point)]
        scope(s)    == [s EXCEPT !.version = IF @ = "" THEN "" ELSE "*",
                                 !.metrics = Each(@, metric)]
        resource(r) == [r EXCEPT !.attrs = Star(@, resourceKeys),
                                 !.scopes = Each(@, scope)]
    IN  Each(metrics, resource)

(* The elements of s that differ in key from every one before them.        *)
Firsts(s, Key(_)) ==
    Without(s, {i \in DOMAIN s : \E j \in 1 .. i - 1 : Key(s[j]) = Key(s[i])})

(* The attributes as text, in the order of their keys.  The separators are *)
(* not escaped and types are lost, so that different attributes may have   *)
(* one key.                                                                *)
canonicalAttrsKey(attrs) ==
    LET pair(k) == <<k, "=">> \o AsString[attrs[k]] \o <<",">>
    IN  FlattenSeq(Each(SelectSeq(KeyOrder, LAMBDA k : k \in DOMAIN attrs), pair))

(* Each of them, With the parts of all the elements of its key, in order;  *)
(* one without parts is dropped.                                           *)
Merged(s, Key(_), Part(_), With(_, _)) ==
    LET parts(e) == FlattenSeq(Each(
                        Without(s, {i \in DOMAIN s : Key(s[i]) # Key(e)}), Part))
        merge(e) == With(e, parts(e))
        firsts   == Firsts(s, Key)
    IN  Each(Without(firsts, {n \in DOMAIN firsts : parts(firsts[n]) = <<>>}), merge)

(* Fault: a duplicate is a point that comes right after its original.      *)
MutAdjacentOnly(points) ==
    Without(points, {i \in DOMAIN points :
                        i > 1 /\ points[i - 1].attrs = points[i].attrs})

(* Of points with one key the first is kept.                               *)
deduplicateDatapoints(points) ==
    Firsts(points, LAMBDA p : canonicalAttrsKey(p.attrs))

(* Metrics of one name become one, with the points of all.                 *)
deduplicateMetricsByName(metrics) ==
    Merged(metrics, LAMBDA m : m.name, LAMBDA m : m.points,
           LAMBDA m, points : [m EXCEPT !.points = deduplicateDatapoints(points)])

(* Scopes of one name become one; the version is that of the first.        *)
deduplicateScopes(scopes) ==
    Merged(scopes, LAMBDA s : s.name, LAMBDA s : s.metrics,
           LAMBDA s, metrics : [s EXCEPT !.metrics = deduplicateMetricsByName(metrics)])

(* Resources of one key become one, with the attributes of the first.      *)
DeduplicateResources(metrics) ==
    Merged(metrics, LAMBDA r : canonicalAttrsKey(r.attrs), LAMBDA r : r.scopes,
           LAMBDA r, scopes : [r EXCEPT !.scopes = deduplicateScopes(scopes)])

--------------------------------------------------------------------------------
(* What metrics look like.                                                 *)
AreAttributes(attrs) == attrs = [k \in DOMAIN attrs |-> attrs[k]]

ArePoints(points) ==
    /\ points \in Seq(ToSet(points))
    /\ \A p \in ToSet(points) : p = [attrs |-> p.attrs] /\ AreAttributes(p.attrs)

AreMetrics(metrics) ==
    /\ metrics \in Seq(ToSet(metrics))
    /\ \A m \in ToSet(metrics) :
        m = [name |-> m.name, points |-> m.points] /\ ArePoints(m.points)

AreScopes(scopes) ==
    /\ scopes \in Seq(ToSet(scopes))
    /\ \A s \in ToSet(scopes) :
        /\ s = [name |-> s.name, version |-> s.version, metrics |-> s.metrics]
        /\ AreMetrics(s.metrics)

AreResources(resources) ==
    /\ resources \in Seq(ToSet(resources))
    /\ \A r \in ToSet(resources) :
        /\ r = [attrs |-> r.attrs, scopes |-> r.scopes]
        /\ AreAttributes(r.attrs) /\ AreScopes(r.scopes)

(* The points that metrics consist of, whatever their arrangement.         *)
Points(metrics) ==
    UNION {UNION {UNION {
        {<<r.attrs, s.name, m.name, p.attrs>> : p \in ToSet(m.points)} :
            m \in ToSet(s.metrics)} : s \in ToSet(r.scopes)} : r \in ToSet(metrics)}

AttributesOf(metrics) ==
    {r.attrs : r \in ToSet(metrics)} \cup {x[4] : x \in Points(metrics)}

(* Those of these attributes that are different have different keys.       *)
TellsApart(attributes) ==
    \A a, b \in attributes : canonicalAttrsKey(a) = canonicalAttrsKey(b) => a = b

(* The points, as far as the keys of their attributes tell them apart.     *)
KeyedPoints(metrics) ==
    {<<canonicalAttrsKey(x[1]), x[2], x[3], canonicalAttrsKey(x[4])>> : x \in Points(metrics)}

(* No two elements of s have one key.                                      *)
Distinct(s, Key(_)) == IsInjective(Each(s, Key))

(* Everything stands in one place.                                         *)
InNormalForm(metrics) ==
    /\ Distinct(metrics, LAMBDA r : r.attrs)
    /\ \A r \in ToSet(metrics) :
        /\ Distinct(r.scopes, LAMBDA s : s.name)
        /\ \A s \in ToSet(r.scopes) :
            /\ Distinct(s.metrics, LAMBDA m : m.name)
            /\ \A m \in ToSet(s.metrics) : Distinct(m.points, LAMBDA p : p.attrs)

(* The comparison with a file of expected metrics in normal form, which    *)
(* disregards order.                                                       *)
AssertMetrics(expected, metrics) ==
    /\ InNormalForm(metrics)
    /\ Points(metrics) = Points(expected)
================================================================================
