---------------------------- MODULE Telemetry_proofs ----------------------------
(***************************************************************************)
(* Deduplication leaves every point in one place, and loses and adds none  *)
(* as far as the keys of attributes tell them apart, however the metrics   *)
(* were arranged.                                                          *)
(***************************************************************************)
EXTENDS Telemetry, Selections_proofs

--------------------------------------------------------------------------------
(* Merged, with functions for its operators: K gives the key of an element *)
(* and P its parts.                                                        *)

Alike(s, K, e) == Without(s, {i \in DOMAIN s : K[s[i]] # K[e]})

PartsOf(s, K, P, e) == FlattenSeq([i \in DOMAIN Alike(s, K, e) |-> P[Alike(s, K, e)[i]]])

FirstsOf(s, K) ==
    Without(s, {i \in DOMAIN s : \E j \in 1 .. i - 1 : K[s[j]] = K[s[i]]})

KeptOf(s, K, P) ==
    Without(FirstsOf(s, K),
            {n \in DOMAIN FirstsOf(s, K) : PartsOf(s, K, P, FirstsOf(s, K)[n]) = <<>>})

LEMMA PartsAreAll ==
    ASSUME NEW S, NEW s \in Seq(S), NEW K, NEW P, NEW T, NEW e,
           \A f \in ToSet(s) : P[f] \in Seq(T)
    PROVE  /\ PartsOf(s, K, P, e) \in Seq(T)
           /\ \A x : x \in ToSet(PartsOf(s, K, P, e)) <=>
                  \E f \in ToSet(s) : K[f] = K[e] /\ x \in ToSet(P[f])
<1> DEFINE D == {i \in DOMAIN s : K[s[i]] # K[e]}
           a == Without(s, D)
           b == [i \in DOMAIN a |-> P[a[i]]]
<1>1. s \in Seq(ToSet(s)) /\ ToSet(s) = {s[i] : i \in 1 .. Len(s)} /\ DOMAIN s = 1 .. Len(s)
  BY SeqOfItself
<1>2. a \in Seq(ToSet(s)) /\ ToSet(a) = {s[i] : i \in (1 .. Len(s)) \ D}
  <2> HIDE DEF D
  <2>1. QED
    BY <1>1, KeptElements
<1>3. ToSet(a) = {f \in ToSet(s) : K[f] = K[e]}
  BY <1>1, <1>2
<1>4. Alike(s, K, e) = a
  BY DEF Alike
<1> HIDE DEF D, a
<1>5. DOMAIN a = 1 .. Len(a) /\ Len(a) \in Nat /\ ToSet(a) = {a[i] : i \in 1 .. Len(a)}
  <2>1. a \in Seq(ToSet(s))
    BY <1>2
  <2> HIDE <1>1, <1>2, <1>3
  <2>2. ToSet(a) = {a[i] : i \in 1 .. Len(a)}
    BY <2>1, SeqOfItself
  <2>3. QED
    BY <2>1, <2>2
<1>6. b \in Seq(Seq(T)) /\ Len(b) = Len(a)
  <2>1. \A i \in 1 .. Len(a) : P[a[i]] \in Seq(T)
    BY <1>3, <1>5
  <2>2. PICK n \in Nat : n = Len(a)
    BY <1>5
  <2>3. b = [i \in 1 .. n |-> P[a[i]]]
    BY <1>5, <2>2
  <2> HIDE DEF b
  <2>4. b \in [1 .. n -> Seq(T)]
    BY <2>1, <2>2, <2>3
  <2>5. QED
    BY <2>2, <2>4
<1>7. \A i \in 1 .. Len(a) : b[i] = P[a[i]]
  BY <1>5
<1>8. PartsOf(s, K, P, e) = FlattenSeq(b)
  BY <1>4 DEF PartsOf
<1> HIDE DEF b
<1>9. FlattenSeq(b) \in Seq(T) /\ ToSet(FlattenSeq(b)) = UNION {ToSet(b[i]) : i \in 1 .. Len(b)}
  BY <1>6, FlattenElements
<1>10. ASSUME NEW x
       PROVE  x \in ToSet(FlattenSeq(b)) <=>
                  \E f \in ToSet(s) : K[f] = K[e] /\ x \in ToSet(P[f])
  <2>1. x \in ToSet(FlattenSeq(b)) <=> \E i \in 1 .. Len(a) : x \in ToSet(P[a[i]])
    BY <1>6, <1>7, <1>9
  <2>2. (\E i \in 1 .. Len(a) : x \in ToSet(P[a[i]])) <=> \E f \in ToSet(a) : x \in ToSet(P[f])
    BY <1>5
  <2>3. QED
    BY <1>3, <2>1, <2>2
<1>11. QED
  BY <1>8, <1>9, <1>10

LEMMA FirstsAreAll ==
    ASSUME NEW S, NEW s \in Seq(S), NEW K
    PROVE  /\ FirstsOf(s, K) \in Seq(ToSet(s))
           /\ \A m, n \in 1 .. Len(FirstsOf(s, K)) :
                  K[FirstsOf(s, K)[m]] = K[FirstsOf(s, K)[n]] => m = n
           /\ \A f \in ToSet(s) : \E e \in ToSet(FirstsOf(s, K)) : K[e] = K[f]
<1> DEFINE D == {i \in 1 .. Len(s) : \E j \in 1 .. i - 1 : K[s[j]] = K[s[i]]}
<1>1. s \in Seq(ToSet(s)) /\ ToSet(s) = {s[i] : i \in 1 .. Len(s)} /\ DOMAIN s = 1 .. Len(s)
  BY SeqOfItself
<1>2. FirstsOf(s, K) = Without(s, D)
  BY <1>1 DEF FirstsOf
<1>3. /\ \A i, j \in (1 .. Len(s)) \ D : K[s[i]] = K[s[j]] => i = j
      /\ \A i \in 1 .. Len(s) : \E j \in (1 .. Len(s)) \ D : K[s[j]] = K[s[i]]
  BY ZenonT(60), <1>1, FirstOfEachKey
<1> HIDE DEF D
<1>4. /\ Without(s, D) \in Seq(ToSet(s))
      /\ ToSet(Without(s, D)) = {s[i] : i \in (1 .. Len(s)) \ D}
  BY <1>1, KeptElements
<1>5. \A m, n \in 1 .. Len(Without(s, D)) :
          K[Without(s, D)[m]] = K[Without(s, D)[n]] => m = n
  <2>1. \A i, j \in (1 .. Len(s)) \ D : K[s[i]] = K[s[j]] => i = j
    BY <1>3
  <2> HIDE <1>1, <1>2, <1>3, <1>4
  <2>2. QED
    BY <2>1, KeptDistinct
<1>6. \A f \in ToSet(s) : \E e \in ToSet(Without(s, D)) : K[e] = K[f]
  <2> TAKE f \in ToSet(s)
  <2>1. PICK i \in 1 .. Len(s) : f = s[i]
    BY <1>1
  <2>2. PICK j \in (1 .. Len(s)) \ D : K[s[j]] = K[s[i]]
    BY <1>3
  <2>3. s[j] \in ToSet(Without(s, D))
    BY <1>4
  <2>4. QED
    BY <2>1, <2>2, <2>3
<1>7. QED
  BY <1>2, <1>4, <1>5, <1>6

LEMMA KeptAreAll ==
    ASSUME NEW S, NEW s \in Seq(S), NEW K, NEW P, NEW T,
           \A f \in ToSet(s) : P[f] \in Seq(T)
    PROVE  /\ KeptOf(s, K, P) \in Seq(ToSet(s))
           /\ \A m, n \in 1 .. Len(KeptOf(s, K, P)) :
                  K[KeptOf(s, K, P)[m]] = K[KeptOf(s, K, P)[n]] => m = n
           /\ \A f \in ToSet(s) : \A x \in ToSet(P[f]) :
                  \E e \in ToSet(KeptOf(s, K, P)) :
                      K[e] = K[f] /\ x \in ToSet(PartsOf(s, K, P, e))
<1> DEFINE r == FirstsOf(s, K)
           D == {n \in DOMAIN r : PartsOf(s, K, P, r[n]) = <<>>}
<1>1. /\ r \in Seq(ToSet(s))
      /\ \A m, n \in 1 .. Len(r) : K[r[m]] = K[r[n]] => m = n
      /\ \A f \in ToSet(s) : \E e \in ToSet(r) : K[e] = K[f]
  BY FirstsAreAll
<1>2. KeptOf(s, K, P) = Without(r, D)
  BY DEF KeptOf
<1> HIDE DEF r
<1>3. ToSet(r) = {r[i] : i \in 1 .. Len(r)} /\ DOMAIN r = 1 .. Len(r)
  <2>1. r \in Seq(ToSet(s))
    BY <1>1
  <2>2. ToSet(r) = {r[i] : i \in 1 .. Len(r)}
    BY <2>1, SeqOfItself
  <2>3. QED
    BY <2>1, <2>2
<1>4. D = {n \in 1 .. Len(r) : PartsOf(s, K, P, r[n]) = <<>>}
  BY <1>3
<1> HIDE DEF D
<1>5. /\ Without(r, D) \in Seq(ToSet(s))
      /\ ToSet(Without(r, D)) = {r[i] : i \in (1 .. Len(r)) \ D}
  BY <1>1, KeptElements
<1>6. \A m, n \in 1 .. Len(Without(r, D)) :
          K[Without(r, D)[m]] = K[Without(r, D)[n]] => m = n
  BY <1>1, KeptDistinct
<1>7. ASSUME NEW f \in ToSet(s), NEW x \in ToSet(P[f])
      PROVE  \E e \in ToSet(Without(r, D)) : K[e] = K[f] /\ x \in ToSet(PartsOf(s, K, P, e))
  <2>0. PICK e \in ToSet(r) : K[e] = K[f]
    BY <1>1
  <2>1. PICK i \in 1 .. Len(r) : K[r[i]] = K[f]
    BY <1>3, <2>0
  <2>2. x \in ToSet(PartsOf(s, K, P, r[i]))
    BY <2>1, PartsAreAll
  <2>3. i \notin D
    <3>1. ToSet(<<>>) = {}
      BY DEF ToSet
    <3>2. QED
      BY <1>4, <2>2, <3>1
  <2>4. QED
    BY <1>5, <2>1, <2>2, <2>3
<1>8. QED
  BY <1>2, <1>5, <1>6, <1>7

--------------------------------------------------------------------------------
(* Points.                                                                 *)

SameKey(a, b) == canonicalAttrsKey(a) = canonicalAttrsKey(b)

HasPoint(points, a) == \E p \in ToSet(points) : p.attrs = a

PointsOnce(points) == \A m, n \in 1 .. Len(points) : points[m].attrs = points[n].attrs => m = n

LEMMA PointsDeduplicated ==
    ASSUME NEW points, ArePoints(points)
    PROVE  /\ ArePoints(deduplicateDatapoints(points))
           /\ PointsOnce(deduplicateDatapoints(points))
           /\ \A a : HasPoint(deduplicateDatapoints(points), a) => HasPoint(points, a)
           /\ \A a : HasPoint(points, a) =>
                  \E b : SameKey(a, b) /\ HasPoint(deduplicateDatapoints(points), b)
<1> DEFINE K == [p \in ToSet(points) |-> canonicalAttrsKey(p.attrs)]
           r == FirstsOf(points, K)
<1>1. /\ points \in Seq(ToSet(points))
      /\ \A p \in ToSet(points) : p = [attrs |-> p.attrs] /\ AreAttributes(p.attrs)
  BY DEF ArePoints
<1>2. ToSet(points) = {points[i] : i \in 1 .. Len(points)} /\ DOMAIN points = 1 .. Len(points)
  BY <1>1, SeqOfItself
<1>3. deduplicateDatapoints(points) = r
  <2>1. \A i \in DOMAIN points : points[i] \in ToSet(points)
    BY <1>2
  <2>2. \A i \in DOMAIN points : \A j \in 1 .. i - 1 :
            K[points[j]] = K[points[i]] <=>
            canonicalAttrsKey(points[j].attrs) = canonicalAttrsKey(points[i].attrs)
    <3> TAKE i \in DOMAIN points
    <3> TAKE j \in 1 .. i - 1
    <3>1. j \in DOMAIN points
      BY <1>1, <1>2
    <3>2. QED
      BY <2>1, <3>1
  <2> HIDE DEF K
  <2>3. {i \in DOMAIN points : \E j \in 1 .. i - 1 :
            canonicalAttrsKey(points[j].attrs) = canonicalAttrsKey(points[i].attrs)}
        = {i \in DOMAIN points : \E j \in 1 .. i - 1 : K[points[j]] = K[points[i]]}
    BY <2>2
  <2>4. QED
    BY <2>3 DEF deduplicateDatapoints, Firsts, FirstsOf
<1>4. /\ r \in Seq(ToSet(points))
      /\ \A m, n \in 1 .. Len(r) : K[r[m]] = K[r[n]] => m = n
      /\ \A f \in ToSet(points) : \E e \in ToSet(r) : K[e] = K[f]
  <2> HIDE DEF K
  <2>1. QED
    BY <1>1, FirstsAreAll
<1> HIDE DEF r
<1>5. /\ r \in Seq(ToSet(r)) /\ ToSet(r) = {r[i] : i \in 1 .. Len(r)}
      /\ \A i \in 1 .. Len(r) : r[i] \in ToSet(points)
  <2>1. r \in Seq(ToSet(points))
    BY <1>4
  <2>2. r \in Seq(ToSet(r)) /\ ToSet(r) = {r[i] : i \in 1 .. Len(r)}
    BY <2>1, SeqOfItself
  <2>3. QED
    BY <2>1, <2>2
<1>6. ToSet(r) \subseteq ToSet(points)
  BY <1>5
<1>7. ArePoints(r)
  BY <1>1, <1>5, <1>6 DEF ArePoints
<1>8. PointsOnce(r)
  BY <1>4, <1>5 DEF PointsOnce
<1>9. \A a : HasPoint(r, a) => HasPoint(points, a)
  BY <1>6 DEF HasPoint
<1>10. \A a : HasPoint(points, a) => \E b : SameKey(a, b) /\ HasPoint(r, b)
  <2> TAKE a
  <2> HAVE HasPoint(points, a)
  <2>1. PICK f \in ToSet(points) : f.attrs = a
    BY DEF HasPoint
  <2>2. PICK e \in ToSet(r) : K[e] = K[f]
    BY <1>4
  <2>3. canonicalAttrsKey(e.attrs) = canonicalAttrsKey(f.attrs)
    BY <1>6, <2>2
  <2>4. SameKey(a, e.attrs) /\ HasPoint(r, e.attrs)
    BY <2>1, <2>2, <2>3 DEF HasPoint, SameKey
  <2>5. QED
    BY <2>4
<1>11. QED
  BY <1>3, <1>7, <1>8, <1>9, <1>10

--------------------------------------------------------------------------------
(* Metrics.                                                                *)

HasMetric(metrics, name, a) ==
    \E m \in ToSet(metrics) : m.name = name /\ HasPoint(m.points, a)

MetricsOnce(metrics) ==
    /\ \A m, n \in 1 .. Len(metrics) : metrics[m].name = metrics[n].name => m = n
    /\ \A n \in 1 .. Len(metrics) : PointsOnce(metrics[n].points)

LEMMA MetricsDeduplicated ==
    ASSUME NEW metrics, AreMetrics(metrics)
    PROVE  /\ AreMetrics(deduplicateMetricsByName(metrics))
           /\ MetricsOnce(deduplicateMetricsByName(metrics))
           /\ \A name, a : HasMetric(deduplicateMetricsByName(metrics), name, a)
                               => HasMetric(metrics, name, a)
           /\ \A name, a : HasMetric(metrics, name, a) =>
                  \E b : SameKey(a, b) /\ HasMetric(deduplicateMetricsByName(metrics), name, b)
<1> DEFINE K == [m \in ToSet(metrics) |-> m.name]
           P == [m \in ToSet(metrics) |-> m.points]
           parts(e) == PartsOf(metrics, K, P, e)
           kept == KeptOf(metrics, K, P)
           T == UNION {ToSet(m.points) : m \in ToSet(metrics)}
           d == [n \in DOMAIN kept |->
                    [kept[n] EXCEPT !.points = deduplicateDatapoints(parts(kept[n]))]]
<1>1. /\ metrics \in Seq(ToSet(metrics))
      /\ \A m \in ToSet(metrics) :
            m = [name |-> m.name, points |-> m.points] /\ ArePoints(m.points)
  BY DEF AreMetrics
<1>2. ToSet(metrics) = {metrics[i] : i \in 1 .. Len(metrics)} /\ DOMAIN metrics = 1 .. Len(metrics)
  BY <1>1, SeqOfItself
<1>3. \A m \in ToSet(metrics) : K[m] = m.name /\ P[m] = m.points
  OBVIOUS
<1>4. \A m \in ToSet(metrics) : P[m] \in Seq(T)
  <2> TAKE m \in ToSet(metrics)
  <2>1. m.points \in Seq(ToSet(m.points)) /\ ToSet(m.points) \subseteq T
    BY <1>1 DEF ArePoints
  <2> HIDE DEF T
  <2>2. QED
    BY <1>3, <2>1
<1> HIDE DEF K, P, T
<1>5. \A e \in ToSet(metrics) :
        /\ parts(e) \in Seq(T)
        /\ \A x : x \in ToSet(parts(e)) <=>
              \E f \in ToSet(metrics) : f.name = e.name /\ x \in ToSet(f.points)
  <2> TAKE e \in ToSet(metrics)
  <2>1. /\ parts(e) \in Seq(T)
        /\ \A x : x \in ToSet(parts(e)) <=>
              \E f \in ToSet(metrics) : K[f] = K[e] /\ x \in ToSet(P[f])
    BY <1>1, <1>4, PartsAreAll
  <2> HIDE DEF parts
  <2>2. QED
    BY <1>3, <2>1
<1>6. /\ kept \in Seq(ToSet(metrics))
      /\ \A m, n \in 1 .. Len(kept) : K[kept[m]] = K[kept[n]] => m = n
      /\ \A f \in ToSet(metrics) : \A x \in ToSet(P[f]) :
            \E e \in ToSet(kept) : K[e] = K[f] /\ x \in ToSet(parts(e))
  BY <1>1, <1>4, KeptAreAll
<1>7. deduplicateMetricsByName(metrics) = d
  <2> DEFINE W(e) == Without(metrics, {i \in DOMAIN metrics : metrics[i].name # e.name})
             lit(e) == FlattenSeq([i \in DOMAIN W(e) |-> W(e)[i].points])
             first == Without(metrics, {i \in DOMAIN metrics :
                          \E j \in 1 .. i - 1 : metrics[j].name = metrics[i].name})
             rest == Without(first, {n \in DOMAIN first : lit(first[n]) = <<>>})
  <2>1. deduplicateMetricsByName(metrics)
            = [n \in DOMAIN rest |->
                  [rest[n] EXCEPT !.points = deduplicateDatapoints(lit(rest[n]))]]
    BY Zenon DEF deduplicateMetricsByName, Merged, Firsts, Each
  <2>2. \A e \in ToSet(metrics) : lit(e) = parts(e)
    <3> TAKE e \in ToSet(metrics)
    <3>1. {i \in DOMAIN metrics : metrics[i].name # e.name}
              = {i \in DOMAIN metrics : K[metrics[i]] # K[e]}
      BY <1>2, <1>3
    <3>2. W(e) = Alike(metrics, K, e)
      BY <3>1 DEF Alike
    <3>3. W(e) \in Seq(ToSet(metrics))
      BY <1>1, KeptElements
    <3> HIDE DEF W
    <3>4. \A i \in DOMAIN W(e) : W(e)[i].points = P[W(e)[i]]
      BY <1>3, <3>3
    <3>5. [i \in DOMAIN W(e) |-> W(e)[i].points] = [i \in DOMAIN W(e) |-> P[W(e)[i]]]
      BY <3>4
    <3>6. QED
      BY <3>2, <3>5 DEF PartsOf
  <2>3. first = FirstsOf(metrics, K)
    <3>1. \A i \in DOMAIN metrics : \A j \in 1 .. i - 1 :
              K[metrics[j]] = K[metrics[i]] <=> metrics[j].name = metrics[i].name
      <4> TAKE i \in DOMAIN metrics
      <4> TAKE j \in 1 .. i - 1
      <4>1. j \in DOMAIN metrics
        BY <1>1, <1>2
      <4>2. QED
        BY <1>2, <1>3, <4>1
    <3>2. {i \in DOMAIN metrics : \E j \in 1 .. i - 1 : metrics[j].name = metrics[i].name}
          = {i \in DOMAIN metrics : \E j \in 1 .. i - 1 : K[metrics[j]] = K[metrics[i]]}
      BY <3>1
    <3>3. QED
      BY <3>2 DEF FirstsOf
  <2>4. first \in Seq(ToSet(metrics))
    BY <1>1, KeptElements
  <2> HIDE DEF lit, first, parts
  <2>5. \A n \in DOMAIN first : first[n] \in ToSet(metrics)
    BY <2>4
  <2>6. {n \in DOMAIN first : lit(first[n]) = <<>>} = {n \in DOMAIN first : parts(first[n]) = <<>>}
    BY <2>2, <2>5
  <2>7. rest = kept
    BY <2>3, <2>6 DEF KeptOf, parts
  <2> HIDE DEF rest, kept
  <2>8. \A n \in DOMAIN kept : lit(kept[n]) = parts(kept[n])
    BY <1>6, <2>2
  <2>9. QED
    BY <2>1, <2>7, <2>8
<1>8. \A x : x \in T <=> \E m \in ToSet(metrics) : x \in ToSet(m.points)
  BY DEF T
<1> HIDE DEF parts, kept
<1>9. /\ Len(kept) \in Nat /\ DOMAIN kept = 1 .. Len(kept)
      /\ ToSet(kept) = {kept[i] : i \in 1 .. Len(kept)}
      /\ \A i \in 1 .. Len(kept) : kept[i] \in ToSet(metrics)
  <2>1. kept \in Seq(ToSet(metrics))
    BY <1>6
  <2>2. ToSet(kept) = {kept[i] : i \in 1 .. Len(kept)}
    BY <2>1, SeqOfItself
  <2>3. QED
    BY <2>1, <2>2
<1>10. \A e \in ToSet(metrics) : ArePoints(parts(e))
  <2> TAKE e \in ToSet(metrics)
  <2>1. parts(e) \in Seq(T)
    BY <1>5
  <2>2. parts(e) \in Seq(ToSet(parts(e)))
    BY <2>1, SeqOfItself
  <2>3. \A x \in ToSet(parts(e)) : x = [attrs |-> x.attrs] /\ AreAttributes(x.attrs)
    BY <1>1, <1>5 DEF ArePoints
  <2>4. QED
    BY <2>2, <2>3 DEF ArePoints
<1>11. ASSUME NEW n \in 1 .. Len(kept)
       PROVE  /\ d[n] = [name |-> kept[n].name, points |-> d[n].points]
              /\ d[n].name = kept[n].name
              /\ d[n].points = deduplicateDatapoints(parts(kept[n]))
              /\ ArePoints(d[n].points) /\ PointsOnce(d[n].points)
              /\ \A a : HasPoint(d[n].points, a) => HasPoint(parts(kept[n]), a)
              /\ \A a : HasPoint(parts(kept[n]), a) =>
                     \E b : SameKey(a, b) /\ HasPoint(d[n].points, b)
  <2>1. d[n] = [kept[n] EXCEPT !.points = deduplicateDatapoints(parts(kept[n]))]
    BY <1>9
  <2>2. kept[n] = [name |-> kept[n].name, points |-> kept[n].points]
    BY <1>1, <1>9
  <2> HIDE DEF d
  <2>3. /\ d[n] = [name |-> kept[n].name, points |-> deduplicateDatapoints(parts(kept[n]))]
        /\ d[n].name = kept[n].name
        /\ d[n].points = deduplicateDatapoints(parts(kept[n]))
    BY <2>1, <2>2
  <2>4. ArePoints(parts(kept[n]))
    BY <1>9, <1>10
  <2>5. /\ ArePoints(d[n].points) /\ PointsOnce(d[n].points)
        /\ \A a : HasPoint(d[n].points, a) => HasPoint(parts(kept[n]), a)
        /\ \A a : HasPoint(parts(kept[n]), a) =>
               \E b : SameKey(a, b) /\ HasPoint(d[n].points, b)
    BY <2>3, <2>4, PointsDeduplicated
  <2>6. QED
    BY <2>3, <2>5
<1>12. /\ Len(d) = Len(kept) /\ d \in Seq(ToSet(d))
       /\ ToSet(d) = {d[n] : n \in 1 .. Len(kept)}
  <2>1. PICK l \in Nat : l = Len(kept)
    BY <1>9
  <2>2. d = [n \in 1 .. l |-> d[n]]
    BY <1>9, <2>1
  <2> HIDE DEF d
  <2>3. d \in [1 .. l -> {d[n] : n \in 1 .. l}]
    BY <2>2
  <2>4. d \in Seq({d[n] : n \in 1 .. l}) /\ Len(d) = l
    BY <2>1, <2>3
  <2>5. d \in Seq(ToSet(d)) /\ ToSet(d) = {d[n] : n \in 1 .. Len(d)}
    BY <2>4, SeqOfItself
  <2>6. QED
    BY <2>1, <2>4, <2>5
<1> HIDE DEF d
<1>13. AreMetrics(d)
  <2>1. \A m \in ToSet(d) : m = [name |-> m.name, points |-> m.points] /\ ArePoints(m.points)
    <3> TAKE m \in ToSet(d)
    <3>1. PICK n \in 1 .. Len(kept) : m = d[n]
      BY <1>12
    <3>2. QED
      BY <1>11, <3>1
  <2>2. QED
    BY <1>12, <2>1 DEF AreMetrics
<1>14. MetricsOnce(d)
  <2>1. \A m, n \in 1 .. Len(kept) : d[m].name = d[n].name => m = n
    <3> TAKE m, n \in 1 .. Len(kept)
    <3> HAVE d[m].name = d[n].name
    <3>1. K[kept[m]] = K[kept[n]]
      BY <1>3, <1>9, <1>11
    <3>2. QED
      BY <1>6, <3>1
  <2>2. QED
    BY <1>11, <1>12, <2>1 DEF MetricsOnce
<1>15. ASSUME NEW name, NEW a, HasMetric(d, name, a)
       PROVE  HasMetric(metrics, name, a)
  <2>1. PICK n \in 1 .. Len(kept) : d[n].name = name /\ HasPoint(d[n].points, a)
    BY <1>12, <1>15 DEF HasMetric
  <2>2. HasPoint(parts(kept[n]), a)
    BY <1>11, <2>1
  <2>3. PICK x \in ToSet(parts(kept[n])) : x.attrs = a
    BY <2>2 DEF HasPoint
  <2>4. PICK f \in ToSet(metrics) : f.name = kept[n].name /\ x \in ToSet(f.points)
    BY <1>5, <1>9
  <2>5. f.name = name
    BY <1>11, <2>1, <2>4
  <2>6. QED
    BY <2>3, <2>4, <2>5 DEF HasMetric, HasPoint
<1>16. ASSUME NEW name, NEW a, HasMetric(metrics, name, a)
       PROVE  \E b : SameKey(a, b) /\ HasMetric(d, name, b)
  <2>1. PICK f \in ToSet(metrics) : f.name = name /\ HasPoint(f.points, a)
    BY <1>16 DEF HasMetric
  <2>2. PICK x \in ToSet(f.points) : x.attrs = a
    BY <2>1 DEF HasPoint
  <2>3. x \in ToSet(P[f])
    BY <1>3, <2>2
  <2>4. PICK e \in ToSet(kept) : K[e] = K[f] /\ x \in ToSet(parts(e))
    BY <1>6, <2>3
  <2>5. PICK n \in 1 .. Len(kept) : e = kept[n]
    BY <1>9, <2>4
  <2>6. HasPoint(parts(kept[n]), a)
    BY <2>2, <2>4, <2>5 DEF HasPoint
  <2>7. PICK b : SameKey(a, b) /\ HasPoint(d[n].points, b)
    BY <1>11, <2>6
  <2>8. K[kept[n]] = kept[n].name /\ K[f] = f.name
    BY <1>3, <1>9
  <2>9. d[n].name = name /\ d[n] \in ToSet(d)
    BY <1>11, <1>12, <2>1, <2>4, <2>5, <2>8
  <2>10. QED
    BY <2>7, <2>9 DEF HasMetric
<1>17. QED
  BY <1>7, <1>13, <1>14, <1>15, <1>16

--------------------------------------------------------------------------------
(* Scopes.                                                                 *)

HasScope(scopes, scope, name, a) ==
    \E s \in ToSet(scopes) : s.name = scope /\ HasMetric(s.metrics, name, a)

ScopesOnce(scopes) ==
    /\ \A m, n \in 1 .. Len(scopes) : scopes[m].name = scopes[n].name => m = n
    /\ \A n \in 1 .. Len(scopes) : MetricsOnce(scopes[n].metrics)

LEMMA ScopesDeduplicated ==
    ASSUME NEW scopes, AreScopes(scopes)
    PROVE  /\ AreScopes(deduplicateScopes(scopes))
           /\ ScopesOnce(deduplicateScopes(scopes))
           /\ \A scope, name, a : HasScope(deduplicateScopes(scopes), scope, name, a)
                                      => HasScope(scopes, scope, name, a)
           /\ \A scope, name, a : HasScope(scopes, scope, name, a) =>
                  \E b : SameKey(a, b) /\ HasScope(deduplicateScopes(scopes), scope, name, b)
<1> DEFINE K == [s \in ToSet(scopes) |-> s.name]
           P == [s \in ToSet(scopes) |-> s.metrics]
           parts(e) == PartsOf(scopes, K, P, e)
           kept == KeptOf(scopes, K, P)
           T == UNION {ToSet(s.metrics) : s \in ToSet(scopes)}
           d == [n \in DOMAIN kept |->
                    [kept[n] EXCEPT !.metrics = deduplicateMetricsByName(parts(kept[n]))]]
<1>1. /\ scopes \in Seq(ToSet(scopes))
      /\ \A s \in ToSet(scopes) :
            s = [name |-> s.name, version |-> s.version, metrics |-> s.metrics] /\ AreMetrics(s.metrics)
  BY DEF AreScopes
<1>2. ToSet(scopes) = {scopes[i] : i \in 1 .. Len(scopes)} /\ DOMAIN scopes = 1 .. Len(scopes)
  BY <1>1, SeqOfItself
<1>3. \A s \in ToSet(scopes) : K[s] = s.name /\ P[s] = s.metrics
  OBVIOUS
<1>4. \A s \in ToSet(scopes) : P[s] \in Seq(T)
  <2> TAKE s \in ToSet(scopes)
  <2>1. s.metrics \in Seq(ToSet(s.metrics)) /\ ToSet(s.metrics) \subseteq T
    BY <1>1 DEF AreMetrics
  <2> HIDE DEF T
  <2>2. QED
    BY <1>3, <2>1
<1> HIDE DEF K, P, T
<1>5. \A e \in ToSet(scopes) :
        /\ parts(e) \in Seq(T)
        /\ \A x : x \in ToSet(parts(e)) <=>
              \E f \in ToSet(scopes) : f.name = e.name /\ x \in ToSet(f.metrics)
  <2> TAKE e \in ToSet(scopes)
  <2>1. /\ parts(e) \in Seq(T)
        /\ \A x : x \in ToSet(parts(e)) <=>
              \E f \in ToSet(scopes) : K[f] = K[e] /\ x \in ToSet(P[f])
    BY <1>1, <1>4, PartsAreAll
  <2> HIDE DEF parts
  <2>2. QED
    BY <1>3, <2>1
<1>6. /\ kept \in Seq(ToSet(scopes))
      /\ \A m, n \in 1 .. Len(kept) : K[kept[m]] = K[kept[n]] => m = n
      /\ \A f \in ToSet(scopes) : \A x \in ToSet(P[f]) :
            \E e \in ToSet(kept) : K[e] = K[f] /\ x \in ToSet(parts(e))
  BY <1>1, <1>4, KeptAreAll
<1>7. deduplicateScopes(scopes) = d
  <2> DEFINE W(e) == Without(scopes, {i \in DOMAIN scopes : scopes[i].name # e.name})
             lit(e) == FlattenSeq([i \in DOMAIN W(e) |-> W(e)[i].metrics])
             first == Without(scopes, {i \in DOMAIN scopes :
                          \E j \in 1 .. i - 1 : scopes[j].name = scopes[i].name})
             rest == Without(first, {n \in DOMAIN first : lit(first[n]) = <<>>})
  <2>1. deduplicateScopes(scopes)
            = [n \in DOMAIN rest |->
                  [rest[n] EXCEPT !.metrics = deduplicateMetricsByName(lit(rest[n]))]]
    BY Zenon DEF deduplicateScopes, Merged, Firsts, Each
  <2>2. \A e \in ToSet(scopes) : lit(e) = parts(e)
    <3> TAKE e \in ToSet(scopes)
    <3>1. {i \in DOMAIN scopes : scopes[i].name # e.name}
              = {i \in DOMAIN scopes : K[scopes[i]] # K[e]}
      BY <1>2, <1>3
    <3>2. W(e) = Alike(scopes, K, e)
      BY <3>1 DEF Alike
    <3>3. W(e) \in Seq(ToSet(scopes))
      BY <1>1, KeptElements
    <3> HIDE DEF W
    <3>4. \A i \in DOMAIN W(e) : W(e)[i].metrics = P[W(e)[i]]
      BY <1>3, <3>3
    <3>5. [i \in DOMAIN W(e) |-> W(e)[i].metrics] = [i \in DOMAIN W(e) |-> P[W(e)[i]]]
      BY <3>4
    <3>6. QED
      BY <3>2, <3>5 DEF PartsOf
  <2>3. first = FirstsOf(scopes, K)
    <3>1. \A i \in DOMAIN scopes : \A j \in 1 .. i - 1 :
              K[scopes[j]] = K[scopes[i]] <=> scopes[j].name = scopes[i].name
      <4> TAKE i \in DOMAIN scopes
      <4> TAKE j \in 1 .. i - 1
      <4>1. j \in DOMAIN scopes
        BY <1>1, <1>2
      <4>2. QED
        BY <1>2, <1>3, <4>1
    <3>2. {i \in DOMAIN scopes : \E j \in 1 .. i - 1 : scopes[j].name = scopes[i].name}
          = {i \in DOMAIN scopes : \E j \in 1 .. i - 1 : K[scopes[j]] = K[scopes[i]]}
      BY <3>1
    <3>3. QED
      BY <3>2 DEF FirstsOf
  <2>4. first \in Seq(ToSet(scopes))
    BY <1>1, KeptElements
  <2> HIDE DEF lit, first, parts
  <2>5. \A n \in DOMAIN first : first[n] \in ToSet(scopes)
    BY <2>4
  <2>6. {n \in DOMAIN first : lit(first[n]) = <<>>} = {n \in DOMAIN first : parts(first[n]) = <<>>}
    BY <2>2, <2>5
  <2>7. rest = kept
    BY <2>3, <2>6 DEF KeptOf, parts
  <2> HIDE DEF rest, kept
  <2>8. \A n \in DOMAIN kept : lit(kept[n]) = parts(kept[n])
    BY <1>6, <2>2
  <2>9. QED
    BY <2>1, <2>7, <2>8
<1>8. \A x : x \in T <=> \E s \in ToSet(scopes) : x \in ToSet(s.metrics)
  BY DEF T
<1> HIDE DEF parts, kept
<1>9. /\ Len(kept) \in Nat /\ DOMAIN kept = 1 .. Len(kept)
      /\ ToSet(kept) = {kept[i] : i \in 1 .. Len(kept)}
      /\ \A i \in 1 .. Len(kept) : kept[i] \in ToSet(scopes)
  <2>1. kept \in Seq(ToSet(scopes))
    BY <1>6
  <2>2. ToSet(kept) = {kept[i] : i \in 1 .. Len(kept)}
    BY <2>1, SeqOfItself
  <2>3. QED
    BY <2>1, <2>2
<1>10. \A e \in ToSet(scopes) : AreMetrics(parts(e))
  <2> TAKE e \in ToSet(scopes)
  <2>1. parts(e) \in Seq(T)
    BY <1>5
  <2>2. parts(e) \in Seq(ToSet(parts(e)))
    BY <2>1, SeqOfItself
  <2>3. \A x \in ToSet(parts(e)) : x = [name |-> x.name, points |-> x.points] /\ ArePoints(x.points)
    BY <1>1, <1>5 DEF AreMetrics
  <2>4. QED
    BY <2>2, <2>3 DEF AreMetrics
<1>11. ASSUME NEW n \in 1 .. Len(kept)
       PROVE  /\ d[n] = [name |-> kept[n].name, version |-> d[n].version, metrics |-> d[n].metrics]
              /\ d[n].name = kept[n].name
              /\ d[n].metrics = deduplicateMetricsByName(parts(kept[n]))
              /\ AreMetrics(d[n].metrics) /\ MetricsOnce(d[n].metrics)
              /\ \A name, a : HasMetric(d[n].metrics, name, a) => HasMetric(parts(kept[n]), name, a)
              /\ \A name, a : HasMetric(parts(kept[n]), name, a) =>
                     \E b : SameKey(a, b) /\ HasMetric(d[n].metrics, name, b)
  <2>1. d[n] = [kept[n] EXCEPT !.metrics = deduplicateMetricsByName(parts(kept[n]))]
    BY <1>9
  <2>2. kept[n] = [name |-> kept[n].name, version |-> kept[n].version, metrics |-> kept[n].metrics]
    BY <1>1, <1>9
  <2> HIDE DEF d
  <2>3. /\ d[n] = [name |-> kept[n].name, version |-> kept[n].version,
                 metrics |-> deduplicateMetricsByName(parts(kept[n]))]
        /\ d[n].name = kept[n].name
        /\ d[n].metrics = deduplicateMetricsByName(parts(kept[n]))
    BY <2>1, <2>2
  <2>4. AreMetrics(parts(kept[n]))
    BY <1>9, <1>10
  <2>5. /\ AreMetrics(d[n].metrics) /\ MetricsOnce(d[n].metrics)
        /\ \A name, a : HasMetric(d[n].metrics, name, a) => HasMetric(parts(kept[n]), name, a)
        /\ \A name, a : HasMetric(parts(kept[n]), name, a) =>
               \E b : SameKey(a, b) /\ HasMetric(d[n].metrics, name, b)
    BY <2>3, <2>4, MetricsDeduplicated
  <2>6. QED
    BY <2>3, <2>5
<1>12. /\ Len(d) = Len(kept) /\ d \in Seq(ToSet(d))
       /\ ToSet(d) = {d[n] : n \in 1 .. Len(kept)}
  <2>1. PICK l \in Nat : l = Len(kept)
    BY <1>9
  <2>2. d = [n \in 1 .. l |-> d[n]]
    BY <1>9, <2>1
  <2> HIDE DEF d
  <2>3. d \in [1 .. l -> {d[n] : n \in 1 .. l}]
    BY <2>2
  <2>4. d \in Seq({d[n] : n \in 1 .. l}) /\ Len(d) = l
    BY <2>1, <2>3
  <2>5. d \in Seq(ToSet(d)) /\ ToSet(d) = {d[n] : n \in 1 .. Len(d)}
    BY <2>4, SeqOfItself
  <2>6. QED
    BY <2>1, <2>4, <2>5
<1> HIDE DEF d
<1>13. AreScopes(d)
  <2>1. \A s \in ToSet(d) : s = [name |-> s.name, version |-> s.version, metrics |-> s.metrics] /\ AreMetrics(s.metrics)
    <3> TAKE s \in ToSet(d)
    <3>1. PICK n \in 1 .. Len(kept) : s = d[n]
      BY <1>12
    <3>2. QED
      BY <1>11, <3>1
  <2>2. QED
    BY <1>12, <2>1 DEF AreScopes
<1>14. ScopesOnce(d)
  <2>1. \A m, n \in 1 .. Len(kept) : d[m].name = d[n].name => m = n
    <3> TAKE m, n \in 1 .. Len(kept)
    <3> HAVE d[m].name = d[n].name
    <3>1. K[kept[m]] = K[kept[n]]
      BY <1>3, <1>9, <1>11
    <3>2. QED
      BY <1>6, <3>1
  <2>2. QED
    BY <1>11, <1>12, <2>1 DEF ScopesOnce
<1>15. ASSUME NEW scope, NEW name, NEW a, HasScope(d, scope, name, a)
       PROVE  HasScope(scopes, scope, name, a)
  <2>1. PICK n \in 1 .. Len(kept) : d[n].name = scope /\ HasMetric(d[n].metrics, name, a)
    BY <1>12, <1>15 DEF HasScope
  <2>2. HasMetric(parts(kept[n]), name, a)
    BY <1>11, <2>1
  <2>3. PICK x \in ToSet(parts(kept[n])) : x.name = name /\ HasPoint(x.points, a)
    BY <2>2 DEF HasMetric
  <2>4. PICK f \in ToSet(scopes) : f.name = kept[n].name /\ x \in ToSet(f.metrics)
    BY <1>5, <1>9
  <2>5. f.name = scope
    BY <1>11, <2>1, <2>4
  <2>6. QED
    BY <2>3, <2>4, <2>5 DEF HasScope, HasMetric
<1>16. ASSUME NEW scope, NEW name, NEW a, HasScope(scopes, scope, name, a)
       PROVE  \E b : SameKey(a, b) /\ HasScope(d, scope, name, b)
  <2>1. PICK f \in ToSet(scopes) : f.name = scope /\ HasMetric(f.metrics, name, a)
    BY <1>16 DEF HasScope
  <2>2. PICK x \in ToSet(f.metrics) : x.name = name /\ HasPoint(x.points, a)
    BY <2>1 DEF HasMetric
  <2>3. x \in ToSet(P[f])
    BY <1>3, <2>2
  <2>4. PICK e \in ToSet(kept) : K[e] = K[f] /\ x \in ToSet(parts(e))
    BY <1>6, <2>3
  <2>5. PICK n \in 1 .. Len(kept) : e = kept[n]
    BY <1>9, <2>4
  <2>6. HasMetric(parts(kept[n]), name, a)
    BY <2>2, <2>4, <2>5 DEF HasMetric
  <2>7. PICK b : SameKey(a, b) /\ HasMetric(d[n].metrics, name, b)
    BY <1>11, <2>6
  <2>8. K[kept[n]] = kept[n].name /\ K[f] = f.name
    BY <1>3, <1>9
  <2>9. d[n].name = scope /\ d[n] \in ToSet(d)
    BY <1>11, <1>12, <2>1, <2>4, <2>5, <2>8
  <2>10. QED
    BY <2>7, <2>9 DEF HasScope
<1>17. QED
  BY <1>7, <1>13, <1>14, <1>15, <1>16

--------------------------------------------------------------------------------
(* Resources.                                                              *)

HasResource(resources, attrs, scope, name, a) ==
    \E r \in ToSet(resources) : r.attrs = attrs /\ HasScope(r.scopes, scope, name, a)

ResourcesOnce(resources) ==
    /\ \A m, n \in 1 .. Len(resources) : resources[m].attrs = resources[n].attrs => m = n
    /\ \A n \in 1 .. Len(resources) : ScopesOnce(resources[n].scopes)

LEMMA ResourcesDeduplicated ==
    ASSUME NEW resources, AreResources(resources)
    PROVE  /\ AreResources(DeduplicateResources(resources))
           /\ ResourcesOnce(DeduplicateResources(resources))
           /\ \A r \in ToSet(DeduplicateResources(resources)) :
                  \E f \in ToSet(resources) : r.attrs = f.attrs
           /\ \A attrs, scope, name, a :
                  HasResource(DeduplicateResources(resources), attrs, scope, name, a) =>
                      \E b : SameKey(attrs, b) /\ HasResource(resources, b, scope, name, a)
           /\ \A attrs, scope, name, a : HasResource(resources, attrs, scope, name, a) =>
                  \E b, c : /\ SameKey(attrs, b) /\ SameKey(a, c)
                            /\ HasResource(DeduplicateResources(resources), b, scope, name, c)
<1> DEFINE K == [r \in ToSet(resources) |-> canonicalAttrsKey(r.attrs)]
           P == [r \in ToSet(resources) |-> r.scopes]
           parts(e) == PartsOf(resources, K, P, e)
           kept == KeptOf(resources, K, P)
           T == UNION {ToSet(r.scopes) : r \in ToSet(resources)}
           d == [n \in DOMAIN kept |->
                    [kept[n] EXCEPT !.scopes = deduplicateScopes(parts(kept[n]))]]
<1>1. /\ resources \in Seq(ToSet(resources))
      /\ \A r \in ToSet(resources) :
            /\ r = [attrs |-> r.attrs, scopes |-> r.scopes]
            /\ AreAttributes(r.attrs) /\ AreScopes(r.scopes)
  BY DEF AreResources
<1>2. ToSet(resources) = {resources[i] : i \in 1 .. Len(resources)} /\ DOMAIN resources = 1 .. Len(resources)
  BY <1>1, SeqOfItself
<1>3. \A r \in ToSet(resources) : K[r] = canonicalAttrsKey(r.attrs) /\ P[r] = r.scopes
  OBVIOUS
<1>4. \A r \in ToSet(resources) : P[r] \in Seq(T)
  <2> TAKE r \in ToSet(resources)
  <2>1. r.scopes \in Seq(ToSet(r.scopes)) /\ ToSet(r.scopes) \subseteq T
    BY <1>1 DEF AreScopes
  <2> HIDE DEF T
  <2>2. QED
    BY <1>3, <2>1
<1> HIDE DEF K, P, T
<1>0. \A e, f \in ToSet(resources) : K[e] = K[f] <=> SameKey(e.attrs, f.attrs)
  BY <1>3 DEF SameKey
<1>5. \A e \in ToSet(resources) :
        /\ parts(e) \in Seq(T)
        /\ \A x : x \in ToSet(parts(e)) <=>
              \E f \in ToSet(resources) : K[f] = K[e] /\ x \in ToSet(f.scopes)
  <2> TAKE e \in ToSet(resources)
  <2>1. /\ parts(e) \in Seq(T)
        /\ \A x : x \in ToSet(parts(e)) <=>
              \E f \in ToSet(resources) : K[f] = K[e] /\ x \in ToSet(P[f])
    BY <1>1, <1>4, PartsAreAll
  <2> HIDE DEF parts
  <2>2. QED
    BY <1>3, <2>1
<1>6. /\ kept \in Seq(ToSet(resources))
      /\ \A m, n \in 1 .. Len(kept) : K[kept[m]] = K[kept[n]] => m = n
      /\ \A f \in ToSet(resources) : \A x \in ToSet(P[f]) :
            \E e \in ToSet(kept) : K[e] = K[f] /\ x \in ToSet(parts(e))
  BY <1>1, <1>4, KeptAreAll
<1>7. DeduplicateResources(resources) = d
  <2> DEFINE W(e) == Without(resources, {i \in DOMAIN resources : canonicalAttrsKey(resources[i].attrs) # canonicalAttrsKey(e.attrs)})
             lit(e) == FlattenSeq([i \in DOMAIN W(e) |-> W(e)[i].scopes])
             first == Without(resources, {i \in DOMAIN resources :
                          \E j \in 1 .. i - 1 : canonicalAttrsKey(resources[j].attrs) = canonicalAttrsKey(resources[i].attrs)})
             rest == Without(first, {n \in DOMAIN first : lit(first[n]) = <<>>})
  <2>1. DeduplicateResources(resources)
            = [n \in DOMAIN rest |->
                  [rest[n] EXCEPT !.scopes = deduplicateScopes(lit(rest[n]))]]
    BY Zenon DEF DeduplicateResources, Merged, Firsts, Each
  <2>2. \A e \in ToSet(resources) : lit(e) = parts(e)
    <3> TAKE e \in ToSet(resources)
    <3>1. {i \in DOMAIN resources : canonicalAttrsKey(resources[i].attrs) # canonicalAttrsKey(e.attrs)}
              = {i \in DOMAIN resources : K[resources[i]] # K[e]}
      BY <1>2, <1>3
    <3>2. W(e) = Alike(resources, K, e)
      BY <3>1 DEF Alike
    <3>3. W(e) \in Seq(ToSet(resources))
      BY <1>1, KeptElements
    <3> HIDE DEF W
    <3>4. \A i \in DOMAIN W(e) : W(e)[i].scopes = P[W(e)[i]]
      BY <1>3, <3>3
    <3>5. [i \in DOMAIN W(e) |-> W(e)[i].scopes] = [i \in DOMAIN W(e) |-> P[W(e)[i]]]
      BY <3>4
    <3>6. QED
      BY <3>2, <3>5 DEF PartsOf
  <2>3. first = FirstsOf(resources, K)
    <3>1. \A i \in DOMAIN resources : \A j \in 1 .. i - 1 :
              K[resources[j]] = K[resources[i]] <=> canonicalAttrsKey(resources[j].attrs) = canonicalAttrsKey(resources[i].attrs)
      <4> TAKE i \in DOMAIN resources
      <4> TAKE j \in 1 .. i - 1
      <4>1. j \in DOMAIN resources
        BY <1>1, <1>2
      <4>2. QED
        BY <1>2, <1>3, <4>1
    <3>2. {i \in DOMAIN resources : \E j \in 1 .. i - 1 : canonicalAttrsKey(resources[j].attrs) = canonicalAttrsKey(resources[i].attrs)}
          = {i \in DOMAIN resources : \E j \in 1 .. i - 1 : K[resources[j]] = K[resources[i]]}
      BY <3>1
    <3>3. QED
      BY <3>2 DEF FirstsOf
  <2>4. first \in Seq(ToSet(resources))
    BY <1>1, KeptElements
  <2> HIDE DEF lit, first, parts
  <2>5. \A n \in DOMAIN first : first[n] \in ToSet(resources)
    BY <2>4
  <2>6. {n \in DOMAIN first : lit(first[n]) = <<>>} = {n \in DOMAIN first : parts(first[n]) = <<>>}
    BY <2>2, <2>5
  <2>7. rest = kept
    BY <2>3, <2>6 DEF KeptOf, parts
  <2> HIDE DEF rest, kept
  <2>8. \A n \in DOMAIN kept : lit(kept[n]) = parts(kept[n])
    BY <1>6, <2>2
  <2>9. QED
    BY <2>1, <2>7, <2>8
<1>8. \A x : x \in T <=> \E r \in ToSet(resources) : x \in ToSet(r.scopes)
  BY DEF T
<1> HIDE DEF parts, kept
<1>9. /\ Len(kept) \in Nat /\ DOMAIN kept = 1 .. Len(kept)
      /\ ToSet(kept) = {kept[i] : i \in 1 .. Len(kept)}
      /\ \A i \in 1 .. Len(kept) : kept[i] \in ToSet(resources)
  <2>1. kept \in Seq(ToSet(resources))
    BY <1>6
  <2>2. ToSet(kept) = {kept[i] : i \in 1 .. Len(kept)}
    BY <2>1, SeqOfItself
  <2>3. QED
    BY <2>1, <2>2
<1>10. \A e \in ToSet(resources) : AreScopes(parts(e))
  <2> TAKE e \in ToSet(resources)
  <2>1. parts(e) \in Seq(T)
    BY <1>5
  <2>2. parts(e) \in Seq(ToSet(parts(e)))
    BY <2>1, SeqOfItself
  <2>3. \A x \in ToSet(parts(e)) : /\ x = [name |-> x.name, version |-> x.version, metrics |-> x.metrics]
                                  /\ AreMetrics(x.metrics)
    BY <1>1, <1>5 DEF AreScopes
  <2>4. QED
    BY <2>2, <2>3 DEF AreScopes
<1>11. ASSUME NEW n \in 1 .. Len(kept)
       PROVE  /\ d[n] = [attrs |-> kept[n].attrs, scopes |-> d[n].scopes]
              /\ d[n].attrs = kept[n].attrs
              /\ d[n].scopes = deduplicateScopes(parts(kept[n]))
              /\ AreScopes(d[n].scopes) /\ ScopesOnce(d[n].scopes)
              /\ \A scope, name, a : HasScope(d[n].scopes, scope, name, a)
                                       => HasScope(parts(kept[n]), scope, name, a)
              /\ \A scope, name, a : HasScope(parts(kept[n]), scope, name, a) =>
                     \E b : SameKey(a, b) /\ HasScope(d[n].scopes, scope, name, b)
  <2>1. d[n] = [kept[n] EXCEPT !.scopes = deduplicateScopes(parts(kept[n]))]
    BY <1>9
  <2>2. kept[n] = [attrs |-> kept[n].attrs, scopes |-> kept[n].scopes]
    BY <1>1, <1>9
  <2> HIDE DEF d
  <2>3. /\ d[n] = [attrs |-> kept[n].attrs,
                 scopes |-> deduplicateScopes(parts(kept[n]))]
        /\ d[n].attrs = kept[n].attrs
        /\ d[n].scopes = deduplicateScopes(parts(kept[n]))
    BY <2>1, <2>2
  <2>4. AreScopes(parts(kept[n]))
    BY <1>9, <1>10
  <2>5. /\ AreScopes(d[n].scopes) /\ ScopesOnce(d[n].scopes)
        /\ \A scope, name, a : HasScope(d[n].scopes, scope, name, a)
                                       => HasScope(parts(kept[n]), scope, name, a)
        /\ \A scope, name, a : HasScope(parts(kept[n]), scope, name, a) =>
               \E b : SameKey(a, b) /\ HasScope(d[n].scopes, scope, name, b)
    BY <2>3, <2>4, ScopesDeduplicated
  <2>6. QED
    BY <2>3, <2>5
<1>12. /\ Len(d) = Len(kept) /\ d \in Seq(ToSet(d))
       /\ ToSet(d) = {d[n] : n \in 1 .. Len(kept)}
  <2>1. PICK l \in Nat : l = Len(kept)
    BY <1>9
  <2>2. d = [n \in 1 .. l |-> d[n]]
    BY <1>9, <2>1
  <2> HIDE DEF d
  <2>3. d \in [1 .. l -> {d[n] : n \in 1 .. l}]
    BY <2>2
  <2>4. d \in Seq({d[n] : n \in 1 .. l}) /\ Len(d) = l
    BY <2>1, <2>3
  <2>5. d \in Seq(ToSet(d)) /\ ToSet(d) = {d[n] : n \in 1 .. Len(d)}
    BY <2>4, SeqOfItself
  <2>6. QED
    BY <2>1, <2>4, <2>5
<1> HIDE DEF d
<1>13. AreResources(d)
  <2>1. \A r \in ToSet(d) : /\ r = [attrs |-> r.attrs, scopes |-> r.scopes]
                            /\ AreAttributes(r.attrs) /\ AreScopes(r.scopes)
    <3> TAKE r \in ToSet(d)
    <3>1. PICK n \in 1 .. Len(kept) : r = d[n]
      BY <1>12
    <3>2. AreAttributes(r.attrs)
      BY <1>1, <1>9, <1>11, <3>1
    <3>3. QED
      BY <1>11, <3>1, <3>2
  <2>2. QED
    BY <1>12, <2>1 DEF AreResources
<1>14. ResourcesOnce(d)
  <2>1. \A m, n \in 1 .. Len(kept) : d[m].attrs = d[n].attrs => m = n
    <3> TAKE m, n \in 1 .. Len(kept)
    <3> HAVE d[m].attrs = d[n].attrs
    <3>1. kept[m].attrs = kept[n].attrs /\ kept[m] \in ToSet(resources) /\ kept[n] \in ToSet(resources)
      BY <1>9, <1>11
    <3>2. K[kept[m]] = K[kept[n]]
      BY <1>0, <3>1 DEF SameKey
    <3>3. QED
      BY <1>6, <3>2
  <2>2. QED
    BY <1>11, <1>12, <2>1 DEF ResourcesOnce
<1>15. ASSUME NEW attrs, NEW scope, NEW name, NEW a, HasResource(d, attrs, scope, name, a)
       PROVE  \E b : SameKey(attrs, b) /\ HasResource(resources, b, scope, name, a)
  <2>1. PICK n \in 1 .. Len(kept) : d[n].attrs = attrs /\ HasScope(d[n].scopes, scope, name, a)
    BY <1>12, <1>15 DEF HasResource
  <2>2. HasScope(parts(kept[n]), scope, name, a)
    BY <1>11, <2>1
  <2>3. PICK x \in ToSet(parts(kept[n])) : x.name = scope /\ HasMetric(x.metrics, name, a)
    BY <2>2 DEF HasScope
  <2>4. PICK f \in ToSet(resources) : K[f] = K[kept[n]] /\ x \in ToSet(f.scopes)
    BY <1>5, <1>9
  <2>5. SameKey(attrs, f.attrs)
    <3>1. kept[n] \in ToSet(resources)
      BY <1>9
    <3>2. K[f] = K[kept[n]]
      BY <2>4
    <3>3. SameKey(f.attrs, kept[n].attrs)
      BY <1>0, <3>1, <3>2, Zenon
    <3>4. kept[n].attrs = attrs
      BY <1>11, <2>1
    <3>5. QED
      BY <3>3, <3>4, Zenon DEF SameKey
  <2>6. HasResource(resources, f.attrs, scope, name, a)
    BY <2>3, <2>4 DEF HasResource, HasScope
  <2>7. QED
    BY <2>5, <2>6
<1>16. ASSUME NEW attrs, NEW scope, NEW name, NEW a, HasResource(resources, attrs, scope, name, a)
       PROVE  \E b, c : /\ SameKey(attrs, b) /\ SameKey(a, c)
                        /\ HasResource(d, b, scope, name, c)
  <2>1. PICK f \in ToSet(resources) : f.attrs = attrs /\ HasScope(f.scopes, scope, name, a)
    BY <1>16 DEF HasResource
  <2>2. PICK x \in ToSet(f.scopes) : x.name = scope /\ HasMetric(x.metrics, name, a)
    BY <2>1 DEF HasScope
  <2>3. x \in ToSet(P[f])
    BY <1>3, <2>2
  <2>4. PICK e \in ToSet(kept) : K[e] = K[f] /\ x \in ToSet(parts(e))
    BY <1>6, <2>3
  <2>5. PICK n \in 1 .. Len(kept) : e = kept[n]
    BY <1>9, <2>4
  <2>6. HasScope(parts(kept[n]), scope, name, a)
    BY <2>2, <2>4, <2>5 DEF HasScope
  <2>7. PICK c : SameKey(a, c) /\ HasScope(d[n].scopes, scope, name, c)
    BY <1>11, <2>6
  <2>8. SameKey(attrs, kept[n].attrs)
    BY <1>0, <1>9, <2>1, <2>4, <2>5 DEF SameKey
  <2>9. d[n].attrs = kept[n].attrs /\ d[n] \in ToSet(d)
    BY <1>11, <1>12
  <2>10. HasResource(d, kept[n].attrs, scope, name, c)
    BY <2>7, <2>9 DEF HasResource
  <2>11. QED
    BY <2>7, <2>8, <2>10
<1>17. \A r \in ToSet(d) : \E f \in ToSet(resources) : r.attrs = f.attrs
  BY <1>9, <1>11, <1>12
<1>18. QED
  BY <1>7, <1>13, <1>14, <1>15, <1>16, <1>17

--------------------------------------------------------------------------------
(* Metrics as a whole.                                                     *)

LEMMA OnceIsNormal ==
    ASSUME NEW metrics, AreResources(metrics), ResourcesOnce(metrics)
    PROVE  InNormalForm(metrics)
<1>1. Distinct(metrics, LAMBDA r : r.attrs)
  <2>1. DOMAIN metrics = 1 .. Len(metrics)
    BY DEF AreResources
  <2>2. QED
    BY <2>1, Zenon DEF Distinct, IsInjective, Each, ResourcesOnce
<1>2. ASSUME NEW r \in ToSet(metrics)
      PROVE  AreScopes(r.scopes) /\ ScopesOnce(r.scopes)
  <2>1. PICK n \in 1 .. Len(metrics) : r = metrics[n]
    BY SeqOfItself DEF AreResources
  <2>2. QED
    BY <2>1 DEF AreResources, ResourcesOnce
<1>3. ASSUME NEW scopes, AreScopes(scopes), ScopesOnce(scopes)
      PROVE  /\ Distinct(scopes, LAMBDA s : s.name)
             /\ \A s \in ToSet(scopes) : AreMetrics(s.metrics) /\ MetricsOnce(s.metrics)
  <2>1. DOMAIN scopes = 1 .. Len(scopes)
    BY <1>3 DEF AreScopes
  <2>2. Distinct(scopes, LAMBDA s : s.name)
    BY <1>3, <2>1, Zenon DEF Distinct, IsInjective, Each, ScopesOnce
  <2>3. ASSUME NEW s \in ToSet(scopes)
        PROVE  AreMetrics(s.metrics) /\ MetricsOnce(s.metrics)
    <3>1. PICK n \in 1 .. Len(scopes) : s = scopes[n]
      BY <1>3, SeqOfItself DEF AreScopes
    <3>2. QED
      BY <1>3, <3>1 DEF AreScopes, ScopesOnce
  <2>4. QED
    BY <2>2, <2>3
<1>4. ASSUME NEW s, AreMetrics(s), MetricsOnce(s)
      PROVE  /\ Distinct(s, LAMBDA m : m.name)
             /\ \A m \in ToSet(s) : ArePoints(m.points) /\ PointsOnce(m.points)
  <2>1. DOMAIN s = 1 .. Len(s)
    BY <1>4 DEF AreMetrics
  <2>2. Distinct(s, LAMBDA m : m.name)
    BY <1>4, <2>1, Zenon DEF Distinct, IsInjective, Each, MetricsOnce
  <2>3. ASSUME NEW m \in ToSet(s)
        PROVE  ArePoints(m.points) /\ PointsOnce(m.points)
    <3>1. PICK n \in 1 .. Len(s) : m = s[n]
      BY <1>4, SeqOfItself DEF AreMetrics
    <3>2. QED
      BY <1>4, <3>1 DEF AreMetrics, MetricsOnce
  <2>4. QED
    BY <2>2, <2>3
<1>5. ASSUME NEW points, ArePoints(points), PointsOnce(points)
      PROVE  Distinct(points, LAMBDA p : p.attrs)
  <2>1. DOMAIN points = 1 .. Len(points)
    BY <1>5 DEF ArePoints
  <2>2. QED
    BY <1>5, <2>1, Zenon DEF Distinct, IsInjective, Each, PointsOnce
<1>6. QED
  BY <1>1, <1>2, <1>3, <1>4, <1>5, Zenon DEF InNormalForm

(* A point of the whole is a point of some metric of some scope of some    *)
(* resource.                                                               *)
LEMMA PointsAreHad ==
    ASSUME NEW metrics, NEW x
    PROVE  x \in Points(metrics) <=>
               \E attrs, scope, name, a :
                   /\ x = <<attrs, scope, name, a>>
                   /\ HasResource(metrics, attrs, scope, name, a)
<1>1. ASSUME x \in Points(metrics)
      PROVE  \E attrs, scope, name, a :
                 x = <<attrs, scope, name, a>> /\ HasResource(metrics, attrs, scope, name, a)
  <2>1. PICK r \in ToSet(metrics) :
            x \in UNION {UNION {{<<r.attrs, s.name, m.name, p.attrs>> : p \in ToSet(m.points)} :
                m \in ToSet(s.metrics)} : s \in ToSet(r.scopes)}
    BY <1>1 DEF Points
  <2>2. PICK s \in ToSet(r.scopes) :
            x \in UNION {{<<r.attrs, s.name, m.name, p.attrs>> : p \in ToSet(m.points)} :
                m \in ToSet(s.metrics)}
    BY <2>1
  <2>3. PICK m \in ToSet(s.metrics) :
            x \in {<<r.attrs, s.name, m.name, p.attrs>> : p \in ToSet(m.points)}
    BY <2>2
  <2>4. PICK p \in ToSet(m.points) : x = <<r.attrs, s.name, m.name, p.attrs>>
    BY <2>3
  <2> HIDE <1>1, <2>1, <2>2, <2>3
  <2>5. HasResource(metrics, r.attrs, s.name, m.name, p.attrs)
    BY DEF HasResource, HasScope, HasMetric, HasPoint
  <2>6. QED
    BY <2>4, <2>5
<1>2. ASSUME NEW attrs, NEW scope, NEW name, NEW a,
             x = <<attrs, scope, name, a>>, HasResource(metrics, attrs, scope, name, a)
      PROVE  x \in Points(metrics)
  <2>1. PICK r \in ToSet(metrics) : r.attrs = attrs /\ HasScope(r.scopes, scope, name, a)
    BY <1>2 DEF HasResource
  <2>2. PICK s \in ToSet(r.scopes) : s.name = scope /\ HasMetric(s.metrics, name, a)
    BY <2>1 DEF HasScope
  <2>3. PICK m \in ToSet(s.metrics) : m.name = name /\ HasPoint(m.points, a)
    BY <2>2 DEF HasMetric
  <2>4. PICK p \in ToSet(m.points) : p.attrs = a
    BY <2>3 DEF HasPoint
  <2>5. x = <<r.attrs, s.name, m.name, p.attrs>>
    BY <1>2, <2>1, <2>2, <2>3, <2>4
  <2> HIDE <1>2, <2>1, <2>2, <2>3, <2>4
  <2>6. QED
    BY <2>5 DEF Points
<1>3. QED
  BY <1>1, <1>2

(* An attribute of a point is one of the metrics.                          *)
LEMMA AttributesHad ==
    ASSUME NEW metrics, NEW attrs, NEW scope, NEW name, NEW a,
           HasResource(metrics, attrs, scope, name, a)
    PROVE  /\ <<attrs, scope, name, a>> \in Points(metrics)
           /\ attrs \in AttributesOf(metrics) /\ a \in AttributesOf(metrics)
<1>1. <<attrs, scope, name, a>> \in Points(metrics)
  BY PointsAreHad
<1>2. PICK r \in ToSet(metrics) : r.attrs = attrs
  BY DEF HasResource
<1>3. QED
  BY <1>1, <1>2 DEF AttributesOf

(* Deduplication (testutil.go:632) of metrics in which metrics of one name *)
(* have one type leaves every point in one place, however the metrics were *)
(* arranged, with attributes they had.  It loses none and adds none as far *)
(* as the keys of their attributes (:739) tell points apart: if they tell  *)
(* all attributes of the metrics apart, the points are the same.           *)
THEOREM Deduplicated ==
    ASSUME NEW metrics, AreResources(metrics)
    PROVE  /\ AreResources(DeduplicateResources(metrics))
           /\ InNormalForm(DeduplicateResources(metrics))
           /\ AttributesOf(DeduplicateResources(metrics)) \subseteq AttributesOf(metrics)
           /\ KeyedPoints(DeduplicateResources(metrics)) = KeyedPoints(metrics)
           /\ TellsApart(AttributesOf(metrics)) =>
                  Points(DeduplicateResources(metrics)) = Points(metrics)
<1> DEFINE d == DeduplicateResources(metrics)
<1>1. /\ AreResources(d) /\ ResourcesOnce(d)
      /\ \A r \in ToSet(d) : \E f \in ToSet(metrics) : r.attrs = f.attrs
      /\ \A attrs, scope, name, a : HasResource(d, attrs, scope, name, a) =>
             \E b : SameKey(attrs, b) /\ HasResource(metrics, b, scope, name, a)
      /\ \A attrs, scope, name, a : HasResource(metrics, attrs, scope, name, a) =>
             \E b, c : /\ SameKey(attrs, b) /\ SameKey(a, c)
                       /\ HasResource(d, b, scope, name, c)
  BY ResourcesDeduplicated
<1> HIDE DEF d
<1>2. InNormalForm(d)
  BY <1>1, OnceIsNormal
<1>3. AttributesOf(d) \subseteq AttributesOf(metrics)
  <2>1. ASSUME NEW r \in ToSet(d)
        PROVE  r.attrs \in AttributesOf(metrics)
    <3>1. PICK f \in ToSet(metrics) : r.attrs = f.attrs
      BY <1>1
    <3>2. QED
      BY <3>1 DEF AttributesOf
  <2>2. ASSUME NEW x \in Points(d)
        PROVE  x[4] \in AttributesOf(metrics)
    <3>1. PICK attrs, scope, name, a :
              x = <<attrs, scope, name, a>> /\ HasResource(d, attrs, scope, name, a)
      BY PointsAreHad
    <3>2. PICK b : HasResource(metrics, b, scope, name, a)
      BY <1>1, <3>1
    <3>3. QED
      BY <3>1, <3>2, AttributesHad
  <2>3. QED
    BY <2>1, <2>2 DEF AttributesOf
<1> DEFINE key(x) == <<canonicalAttrsKey(x[1]), x[2], x[3], canonicalAttrsKey(x[4])>>
<1>4. ASSUME NEW x \in Points(d)
      PROVE  \E y \in Points(metrics) : /\ key(x) = key(y)
                                        /\ TellsApart(AttributesOf(metrics)) => x = y
  <2>1. PICK attrs, scope, name, a :
            x = <<attrs, scope, name, a>> /\ HasResource(d, attrs, scope, name, a)
    BY PointsAreHad
  <2>2. PICK b : SameKey(attrs, b) /\ HasResource(metrics, b, scope, name, a)
    BY <1>1, <2>1
  <2>3. <<b, scope, name, a>> \in Points(metrics) /\ b \in AttributesOf(metrics)
    BY <2>2, AttributesHad
  <2>4. key(x) = key(<<b, scope, name, a>>)
    BY <2>1, <2>2 DEF SameKey
  <2>5. attrs \in AttributesOf(metrics)
    BY <1>3, <2>1, AttributesHad
  <2>6. TellsApart(AttributesOf(metrics)) => attrs = b
    BY <2>2, <2>3, <2>5 DEF TellsApart, SameKey
  <2>7. QED
    BY <2>1, <2>3, <2>4, <2>6
<1>5. ASSUME NEW y \in Points(metrics)
      PROVE  \E x \in Points(d) : /\ key(x) = key(y)
                                  /\ TellsApart(AttributesOf(metrics)) => x = y
  <2>1. PICK attrs, scope, name, a :
            y = <<attrs, scope, name, a>> /\ HasResource(metrics, attrs, scope, name, a)
    BY PointsAreHad
  <2>2. PICK b, c : SameKey(attrs, b) /\ SameKey(a, c) /\ HasResource(d, b, scope, name, c)
    BY <1>1, <2>1
  <2>3. /\ <<b, scope, name, c>> \in Points(d)
        /\ b \in AttributesOf(metrics) /\ c \in AttributesOf(metrics)
    BY <1>3, <2>2, AttributesHad
  <2>4. attrs \in AttributesOf(metrics) /\ a \in AttributesOf(metrics)
    BY <2>1, AttributesHad
  <2>5. key(<<b, scope, name, c>>) = key(y)
    BY <2>1, <2>2 DEF SameKey
  <2>6. TellsApart(AttributesOf(metrics)) => attrs = b /\ a = c
    BY <2>2, <2>3, <2>4 DEF TellsApart, SameKey
  <2>7. QED
    BY <2>1, <2>3, <2>5, <2>6
<1>6. KeyedPoints(d) = KeyedPoints(metrics)
  <2>1. KeyedPoints(d) = {key(x) : x \in Points(d)} /\ KeyedPoints(metrics) = {key(x) : x \in Points(metrics)}
    BY DEF KeyedPoints
  <2> HIDE DEF key
  <2>2. QED
    BY <1>4, <1>5, <2>1
<1>7. TellsApart(AttributesOf(metrics)) => Points(d) = Points(metrics)
  <2> HIDE DEF key
  <2>1. QED
    BY <1>4, <1>5
<1>8. QED
  BY <1>1, <1>2, <1>3, <1>6, <1>7 DEF d

--------------------------------------------------------------------------------
(* What differs from run to run, replaced by stars.                        *)

Starred(x, resourceKeys, datapointKeys) ==
    <<Star(x[1], resourceKeys), x[2], x[3], Star(x[4], datapointKeys)>>

StarPoints(points, keys) == [i \in DOMAIN points |-> [points[i] EXCEPT !.attrs = Star(@, keys)]]

StarMetrics(metrics, keys) ==
    [i \in DOMAIN metrics |-> [metrics[i] EXCEPT !.points = StarPoints(@, keys)]]

StarScopes(scopes, keys) ==
    [i \in DOMAIN scopes |-> [scopes[i] EXCEPT !.version = IF @ = "" THEN "" ELSE "*",
                                               !.metrics = StarMetrics(@, keys)]]

StarResources(resources, resourceKeys, datapointKeys) ==
    [i \in DOMAIN resources |-> [resources[i] EXCEPT !.attrs = Star(@, resourceKeys),
                                                     !.scopes = StarScopes(@, datapointKeys)]]

LEMMA StarsAreAll ==
    ASSUME NEW metrics, NEW rk, NEW dk
    PROVE  ReplaceAttrValsWithStar(metrics, rk, dk) = StarResources(metrics, rk, dk)
BY Zenon DEF ReplaceAttrValsWithStar, StarResources, StarScopes, StarMetrics, StarPoints, Each

LEMMA StarKeeps == \A attrs, keys : AreAttributes(Star(attrs, keys))
BY DEF Star, AreAttributes

(* A sequence changed element by element.                                  *)
LEMMA Elementwise ==
    ASSUME NEW S, NEW s \in Seq(S), NEW R, NEW r \in [DOMAIN s -> R]
    PROVE  /\ r \in Seq(ToSet(r)) /\ DOMAIN r = 1 .. Len(s)
           /\ ToSet(s) = {s[i] : i \in 1 .. Len(s)}
           /\ ToSet(r) = {r[i] : i \in 1 .. Len(s)}
<1>1. PICK l \in Nat : l = Len(s)
  OBVIOUS
<1>2. r \in [1 .. l -> R]
  BY <1>1
<1>3. r \in Seq(R) /\ Len(r) = l
  BY <1>2
<1>4. r \in Seq(ToSet(r)) /\ ToSet(r) = {r[i] : i \in 1 .. Len(r)}
  BY <1>3, SeqOfItself
<1>5. ToSet(s) = {s[i] : i \in 1 .. Len(s)}
  BY SeqOfItself
<1>6. QED
  BY <1>1, <1>2, <1>3, <1>4, <1>5

LEMMA PointsStarred ==
    ASSUME NEW points, ArePoints(points), NEW dk
    PROVE  /\ ArePoints(StarPoints(points, dk))
           /\ \A b : HasPoint(StarPoints(points, dk), b) <=>
                  \E a : HasPoint(points, a) /\ b = Star(a, dk)
<1> DEFINE r == StarPoints(points, dk)
<1>1. /\ points \in Seq(ToSet(points))
      /\ \A p \in ToSet(points) : p = [attrs |-> p.attrs]
  BY DEF ArePoints
<1>2. r = [i \in DOMAIN points |-> [points[i] EXCEPT !.attrs = Star(@, dk)]]
  BY DEF StarPoints
<1> HIDE DEF r
<1>3. r \in [DOMAIN points -> {r[i] : i \in DOMAIN points}]
  BY <1>2
<1>4. /\ r \in Seq(ToSet(r)) /\ DOMAIN r = 1 .. Len(points)
      /\ ToSet(points) = {points[i] : i \in 1 .. Len(points)}
      /\ ToSet(r) = {r[i] : i \in 1 .. Len(points)}
  BY <1>1, <1>3, Elementwise
<1>5. ASSUME NEW i \in 1 .. Len(points)
      PROVE  r[i] = [attrs |-> r[i].attrs] /\ r[i].attrs = Star(points[i].attrs, dk)
  <2>0. points[i] \in ToSet(points) /\ i \in DOMAIN points
    BY <1>1, <1>4
  <2>1. points[i] = [attrs |-> points[i].attrs] /\ i \in DOMAIN points
    BY <1>1, <2>0
  <2>2. r[i] = [points[i] EXCEPT !.attrs = Star(@, dk)]
    BY <1>2, <2>1
  <2>3. QED
    BY <2>1, <2>2
<1>6. ArePoints(r)
  BY <1>4, <1>5, StarKeeps DEF ArePoints
<1>7. ASSUME NEW b
      PROVE  HasPoint(r, b) <=> \E a : HasPoint(points, a) /\ b = Star(a, dk)
  <2>1. HasPoint(r, b) <=> \E i \in 1 .. Len(points) : b = Star(points[i].attrs, dk)
    BY <1>4, <1>5 DEF HasPoint
  <2>2. \A a : HasPoint(points, a) <=> \E i \in 1 .. Len(points) : a = points[i].attrs
    BY <1>4 DEF HasPoint
  <2>3. QED
    BY <2>1, <2>2
<1>8. QED
  BY <1>6, <1>7 DEF r

LEMMA MetricsStarred ==
    ASSUME NEW metrics, AreMetrics(metrics), NEW dk
    PROVE  /\ AreMetrics(StarMetrics(metrics, dk))
           /\ \A name, b : HasMetric(StarMetrics(metrics, dk), name, b) <=>
                  \E a : HasMetric(metrics, name, a) /\ b = Star(a, dk)
<1> DEFINE r == StarMetrics(metrics, dk)
<1>1. /\ metrics \in Seq(ToSet(metrics))
      /\ \A m \in ToSet(metrics) :
            m = [name |-> m.name, points |-> m.points] /\ ArePoints(m.points)
  BY DEF AreMetrics
<1>2. r = [i \in DOMAIN metrics |-> [metrics[i] EXCEPT !.points = StarPoints(@, dk)]]
  BY DEF StarMetrics
<1> HIDE DEF r
<1>3. r \in [DOMAIN metrics -> {r[i] : i \in DOMAIN metrics}]
  BY <1>2
<1>4. /\ r \in Seq(ToSet(r)) /\ DOMAIN r = 1 .. Len(metrics)
      /\ ToSet(metrics) = {metrics[i] : i \in 1 .. Len(metrics)}
      /\ ToSet(r) = {r[i] : i \in 1 .. Len(metrics)}
  BY ZenonT(60), <1>1, <1>3, Elementwise
<1>5. ASSUME NEW i \in 1 .. Len(metrics)
      PROVE  /\ r[i] = [name |-> r[i].name, points |-> r[i].points]
             /\ r[i].name = metrics[i].name
             /\ ArePoints(r[i].points)
             /\ \A b : HasPoint(r[i].points, b) <=>
                    \E a : HasPoint(metrics[i].points, a) /\ b = Star(a, dk)
  <2>1. /\ metrics[i] = [name |-> metrics[i].name, points |-> metrics[i].points]
        /\ i \in DOMAIN metrics /\ ArePoints(metrics[i].points)
    BY <1>1, <1>4
  <2>2. r[i] = [metrics[i] EXCEPT !.points = StarPoints(@, dk)]
    BY <1>2, <2>1
  <2>3. /\ r[i] = [name |-> r[i].name, points |-> r[i].points]
        /\ r[i].name = metrics[i].name /\ r[i].points = StarPoints(metrics[i].points, dk)
    BY <2>1, <2>2
  <2>4. QED
    BY <2>1, <2>3, PointsStarred
<1>6. AreMetrics(r)
  BY <1>4, <1>5 DEF AreMetrics
<1>7. ASSUME NEW name, NEW b
      PROVE  HasMetric(r, name, b) <=> \E a : HasMetric(metrics, name, a) /\ b = Star(a, dk)
  <2>0. HasMetric(r, name, b) <=>
            \E i \in 1 .. Len(metrics) : r[i].name = name /\ HasPoint(r[i].points, b)
    BY <1>4 DEF HasMetric
  <2>1. HasMetric(r, name, b) <=>
            \E i \in 1 .. Len(metrics) : /\ metrics[i].name = name
                                         /\ \E a : /\ HasPoint(metrics[i].points, a)
                                                   /\ b = Star(a, dk)
    BY <1>5, <2>0, Zenon
  <2>2. \A a : HasMetric(metrics, name, a) <=>
            \E i \in 1 .. Len(metrics) : metrics[i].name = name /\ HasPoint(metrics[i].points, a)
    BY <1>4 DEF HasMetric
  <2> HIDE <1>1, <1>2, <1>3, <1>4, <1>5, <1>6
  <2>3. QED
    BY <2>1, <2>2, Zenon
<1>8. QED
  BY <1>6, <1>7 DEF r

LEMMA ScopesStarred ==
    ASSUME NEW scopes, AreScopes(scopes), NEW dk
    PROVE  /\ AreScopes(StarScopes(scopes, dk))
           /\ \A scope, name, b : HasScope(StarScopes(scopes, dk), scope, name, b) <=>
                  \E a : HasScope(scopes, scope, name, a) /\ b = Star(a, dk)
<1> DEFINE r == StarScopes(scopes, dk)
<1>1. /\ scopes \in Seq(ToSet(scopes))
      /\ \A s \in ToSet(scopes) :
            /\ s = [name |-> s.name, version |-> s.version, metrics |-> s.metrics]
            /\ AreMetrics(s.metrics)
  BY DEF AreScopes
<1>2. r = [i \in DOMAIN scopes |-> [scopes[i] EXCEPT !.version = IF @ = "" THEN "" ELSE "*",
                                              !.metrics = StarMetrics(@, dk)]]
  BY DEF StarScopes
<1> HIDE DEF r
<1>3. r \in [DOMAIN scopes -> {r[i] : i \in DOMAIN scopes}]
  BY <1>2
<1>4. /\ r \in Seq(ToSet(r)) /\ DOMAIN r = 1 .. Len(scopes)
      /\ ToSet(scopes) = {scopes[i] : i \in 1 .. Len(scopes)}
      /\ ToSet(r) = {r[i] : i \in 1 .. Len(scopes)}
  BY ZenonT(60), <1>1, <1>3, Elementwise
<1>5. ASSUME NEW i \in 1 .. Len(scopes)
      PROVE  /\ r[i] = [name |-> r[i].name, version |-> r[i].version, metrics |-> r[i].metrics]
             /\ r[i].name = scopes[i].name
             /\ AreMetrics(r[i].metrics)
             /\ \A name, b : HasMetric(r[i].metrics, name, b) <=>
                    \E a : HasMetric(scopes[i].metrics, name, a) /\ b = Star(a, dk)
  <2>1. /\ scopes[i] = [name |-> scopes[i].name, version |-> scopes[i].version,
                        metrics |-> scopes[i].metrics]
        /\ i \in DOMAIN scopes /\ AreMetrics(scopes[i].metrics)
    BY <1>1, <1>4
  <2>2. r[i] = [scopes[i] EXCEPT !.version = IF @ = "" THEN "" ELSE "*",
                                              !.metrics = StarMetrics(@, dk)]
    BY <1>2, <2>1
  <2>3. /\ r[i] = [name |-> r[i].name, version |-> r[i].version, metrics |-> r[i].metrics]
        /\ r[i].name = scopes[i].name /\ r[i].metrics = StarMetrics(scopes[i].metrics, dk)
    BY <2>1, <2>2
  <2>4. QED
    BY <2>1, <2>3, MetricsStarred
<1>6. AreScopes(r)
  BY <1>4, <1>5 DEF AreScopes
<1>7. ASSUME NEW scope, NEW name, NEW b
      PROVE  HasScope(r, scope, name, b) <=> \E a : HasScope(scopes, scope, name, a) /\ b = Star(a, dk)
  <2>0. HasScope(r, scope, name, b) <=>
            \E i \in 1 .. Len(scopes) : r[i].name = scope /\ HasMetric(r[i].metrics, name, b)
    BY <1>4 DEF HasScope
  <2>1. HasScope(r, scope, name, b) <=>
            \E i \in 1 .. Len(scopes) : /\ scopes[i].name = scope
                                         /\ \E a : /\ HasMetric(scopes[i].metrics, name, a)
                                                   /\ b = Star(a, dk)
    <3>1. \A i \in 1 .. Len(scopes) :
              /\ r[i].name = scopes[i].name
              /\ HasMetric(r[i].metrics, name, b) <=>
                     \E a : HasMetric(scopes[i].metrics, name, a) /\ b = Star(a, dk)
      <4> TAKE i \in 1 .. Len(scopes)
      <4>1. /\ r[i].name = scopes[i].name
            /\ \A v, w : HasMetric(r[i].metrics, v, w) <=>
                   \E a : HasMetric(scopes[i].metrics, v, a) /\ w = Star(a, dk)
        BY <1>5
      <4> QED
        BY <4>1
    <3> HIDE <1>5
    <3>2. QED
      BY <2>0, <3>1
  <2>2. \A a : HasScope(scopes, scope, name, a) <=>
            \E i \in 1 .. Len(scopes) : scopes[i].name = scope /\ HasMetric(scopes[i].metrics, name, a)
    BY <1>4 DEF HasScope
  <2> HIDE <1>1, <1>2, <1>3, <1>4, <1>5, <1>6
  <2>3. QED
    BY <2>1, <2>2, Zenon
<1>8. QED
  BY <1>6, <1>7 DEF r

LEMMA ResourcesStarred ==
    ASSUME NEW resources, AreResources(resources), NEW rk, NEW dk
    PROVE  /\ AreResources(StarResources(resources, rk, dk))
           /\ \A b, scope, name, c :
                  HasResource(StarResources(resources, rk, dk), b, scope, name, c) <=>
                      \E attrs, a : /\ HasResource(resources, attrs, scope, name, a)
                                    /\ b = Star(attrs, rk) /\ c = Star(a, dk)
<1> DEFINE r == StarResources(resources, rk, dk)
<1>1. /\ resources \in Seq(ToSet(resources))
      /\ \A q \in ToSet(resources) :
            /\ q = [attrs |-> q.attrs, scopes |-> q.scopes]
            /\ AreScopes(q.scopes)
  BY DEF AreResources
<1>2. r = [i \in DOMAIN resources |-> [resources[i] EXCEPT !.attrs = Star(@, rk),
                                                           !.scopes = StarScopes(@, dk)]]
  BY DEF StarResources
<1> HIDE DEF r
<1>3. r \in [DOMAIN resources -> {r[i] : i \in DOMAIN resources}]
  BY <1>2
<1>4. /\ r \in Seq(ToSet(r)) /\ DOMAIN r = 1 .. Len(resources)
      /\ ToSet(resources) = {resources[i] : i \in 1 .. Len(resources)}
      /\ ToSet(r) = {r[i] : i \in 1 .. Len(resources)}
  BY ZenonT(60), <1>1, <1>3, Elementwise
<1>5. ASSUME NEW i \in 1 .. Len(resources)
      PROVE  /\ r[i] = [attrs |-> r[i].attrs, scopes |-> r[i].scopes]
             /\ r[i].attrs = Star(resources[i].attrs, rk)
             /\ AreScopes(r[i].scopes)
             /\ \A scope, name, c : HasScope(r[i].scopes, scope, name, c) <=>
                    \E a : HasScope(resources[i].scopes, scope, name, a) /\ c = Star(a, dk)
  <2>1. /\ resources[i] = [attrs |-> resources[i].attrs, scopes |-> resources[i].scopes]
        /\ i \in DOMAIN resources /\ AreScopes(resources[i].scopes)
    BY <1>1, <1>4
  <2>2. r[i] = [resources[i] EXCEPT !.attrs = Star(@, rk), !.scopes = StarScopes(@, dk)]
    BY <1>2, <2>1
  <2>3. /\ r[i] = [attrs |-> r[i].attrs, scopes |-> r[i].scopes]
        /\ r[i].attrs = Star(resources[i].attrs, rk)
        /\ r[i].scopes = StarScopes(resources[i].scopes, dk)
    BY <2>1, <2>2
  <2>4. QED
    BY <2>1, <2>3, ScopesStarred
<1>6. AreResources(r)
  BY <1>4, <1>5, StarKeeps DEF AreResources
<1>7. ASSUME NEW b, NEW scope, NEW name, NEW c
      PROVE  HasResource(r, b, scope, name, c) <=>
                 \E attrs, a : /\ HasResource(resources, attrs, scope, name, a)
                               /\ b = Star(attrs, rk) /\ c = Star(a, dk)
  <2>0. HasResource(r, b, scope, name, c) <=>
            \E i \in 1 .. Len(resources) : r[i].attrs = b /\ HasScope(r[i].scopes, scope, name, c)
    BY <1>4 DEF HasResource
  <2>1. HasResource(r, b, scope, name, c) <=>
            \E i \in 1 .. Len(resources) :
                /\ Star(resources[i].attrs, rk) = b
                /\ \E a : HasScope(resources[i].scopes, scope, name, a) /\ c = Star(a, dk)
    <3>1. \A i \in 1 .. Len(resources) :
              /\ r[i].attrs = Star(resources[i].attrs, rk)
              /\ HasScope(r[i].scopes, scope, name, c) <=>
                     \E a : HasScope(resources[i].scopes, scope, name, a) /\ c = Star(a, dk)
      <4> TAKE i \in 1 .. Len(resources)
      <4>1. /\ r[i].attrs = Star(resources[i].attrs, rk)
            /\ \A u, v, w : HasScope(r[i].scopes, u, v, w) <=>
                   \E a : HasScope(resources[i].scopes, u, v, a) /\ w = Star(a, dk)
        BY <1>5
      <4> QED
        BY <4>1
    <3> HIDE <1>5
    <3>2. QED
      BY <2>0, <3>1
  <2>2. \A attrs, a : HasResource(resources, attrs, scope, name, a) <=>
            \E i \in 1 .. Len(resources) :
                resources[i].attrs = attrs /\ HasScope(resources[i].scopes, scope, name, a)
    BY <1>4 DEF HasResource
  <2> HIDE <1>1, <1>2, <1>3, <1>4, <1>5, <1>6
  <2>3. QED
    BY <2>1, <2>2, Zenon
<1>8. QED
  BY <1>6, <1>7 DEF r

(* The points of metrics after ReplaceAttrValsWithStar (testutil.go:561)   *)
(* are their points before it, each with stars for what is ignored.        *)
LEMMA StarringPoints ==
    ASSUME NEW metrics, AreResources(metrics), NEW rk, NEW dk
    PROVE  /\ AreResources(ReplaceAttrValsWithStar(metrics, rk, dk))
           /\ Points(ReplaceAttrValsWithStar(metrics, rk, dk)) = {Starred(x, rk, dk) : x \in Points(metrics)}
<1> DEFINE s == StarResources(metrics, rk, dk)
<1>1. /\ AreResources(s)
      /\ \A b, scope, name, c : HasResource(s, b, scope, name, c) <=>
            \E attrs, a : /\ HasResource(metrics, attrs, scope, name, a)
                          /\ b = Star(attrs, rk) /\ c = Star(a, dk)
  BY ResourcesStarred
<1> HIDE DEF s
<1>2. ASSUME NEW y \in Points(s)
      PROVE  \E x \in Points(metrics) : y = Starred(x, rk, dk)
  <2>1. PICK b, scope, name, c : y = <<b, scope, name, c>> /\ HasResource(s, b, scope, name, c)
    BY PointsAreHad
  <2>2. PICK attrs, a : /\ HasResource(metrics, attrs, scope, name, a)
                        /\ b = Star(attrs, rk) /\ c = Star(a, dk)
    BY <1>1, <2>1
  <2>3. <<attrs, scope, name, a>> \in Points(metrics)
    BY <2>2, PointsAreHad
  <2>4. y = Starred(<<attrs, scope, name, a>>, rk, dk)
    BY <2>1, <2>2 DEF Starred
  <2>5. QED
    BY <2>3, <2>4
<1>3. ASSUME NEW x \in Points(metrics)
      PROVE  Starred(x, rk, dk) \in Points(s)
  <2>1. PICK attrs, scope, name, a : /\ x = <<attrs, scope, name, a>>
                                     /\ HasResource(metrics, attrs, scope, name, a)
    BY PointsAreHad
  <2>2. HasResource(s, Star(attrs, rk), scope, name, Star(a, dk))
    BY <1>1, <2>1
  <2>3. Starred(x, rk, dk) = <<Star(attrs, rk), scope, name, Star(a, dk)>>
    BY <2>1 DEF Starred
  <2>4. QED
    BY <2>2, <2>3, PointsAreHad
<1>4. Points(s) = {Starred(x, rk, dk) : x \in Points(metrics)}
  BY <1>2, <1>3
<1>5. QED
  BY <1>1, <1>4, StarsAreAll DEF s

(* So are the attributes of their resources.                               *)
LEMMA StarringAttributes ==
    ASSUME NEW metrics, AreResources(metrics), NEW rk, NEW dk
    PROVE  {r.attrs : r \in ToSet(ReplaceAttrValsWithStar(metrics, rk, dk))}
               = {Star(r.attrs, rk) : r \in ToSet(metrics)}
<1> DEFINE s == StarResources(metrics, rk, dk)
<1>1. metrics \in Seq(ToSet(metrics)) /\ DOMAIN metrics = 1 .. Len(metrics)
  BY DEF AreResources
<1>2. s = [i \in DOMAIN metrics |-> [metrics[i] EXCEPT !.attrs = Star(@, rk),
                                                      !.scopes = StarScopes(@, dk)]]
  BY DEF StarResources
<1>3. s = ReplaceAttrValsWithStar(metrics, rk, dk)
  BY StarsAreAll
<1> HIDE DEF s
<1>4. s \in [DOMAIN metrics -> {s[i] : i \in DOMAIN metrics}]
  BY <1>2
<1>5. /\ ToSet(metrics) = {metrics[i] : i \in 1 .. Len(metrics)}
      /\ ToSet(s) = {s[i] : i \in 1 .. Len(metrics)}
  BY ZenonT(60), <1>1, <1>4, Elementwise
<1>6. \A i \in 1 .. Len(metrics) : s[i].attrs = Star(metrics[i].attrs, rk)
  <2> TAKE i \in 1 .. Len(metrics)
  <2>1. metrics[i] = [attrs |-> metrics[i].attrs, scopes |-> metrics[i].scopes]
    BY <1>5 DEF AreResources
  <2>2. s[i] = [metrics[i] EXCEPT !.attrs = Star(@, rk), !.scopes = StarScopes(@, dk)]
    BY <1>1, <1>2
  <2>3. QED
    BY <2>1, <2>2
<1>7. {r.attrs : r \in ToSet(s)} = {Star(r.attrs, rk) : r \in ToSet(metrics)}
  BY <1>5, <1>6
<1>8. QED
  BY <1>3, <1>7

================================================================================
