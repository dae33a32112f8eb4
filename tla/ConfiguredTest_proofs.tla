------------------------- MODULE ConfiguredTest_proofs -------------------------
(***************************************************************************)
(* Proofs about the configs of the tests in a cluster, for any keys and    *)
(* values, any nesting and any overlays.  The induction is on how deep the *)
(* nodes are nested.                                                       *)
(***************************************************************************)
EXTENDS ConfiguredTest, IntegrationTest_proofs

(* What holds at 0 and passes from each number to the next holds up to n.  *)
LEMMA StepByStep ==
    ASSUME NEW n \in Nat, NEW Good, 0 \in Good,
           \A k \in 1 .. n : k - 1 \in Good => k \in Good
    PROVE  n \in Good /\ \A k \in 0 .. n : k \in Good
<1> DEFINE Bad == (0 .. n) \ Good
<1>1. SUFFICES ASSUME Bad # {} PROVE FALSE
  <2>1. n \in 0 .. n
    OBVIOUS
  <2>2. QED
    BY <2>1
<1>2. PICK m \in Bad : \A k \in Bad : m <= k
  <2>1. Bad \subseteq Nat
    OBVIOUS
  <2> HIDE DEF Bad
  <2>2. QED
    BY <1>1, <2>1, Least
<1>3. m \in 1 .. n /\ m \notin Good /\ m - 1 \in 0 .. n /\ ~(m <= m - 1)
  OBVIOUS
<1>4. m - 1 \in Good
  BY <1>2, <1>3
<1>5. QED
  BY <1>3, <1>4

--------------------------------------------------------------------------------
(* The nodes of YAML.                                                      *)

(* The recursive function of the nodes exists, and takes its values.       *)
LEMMA NodesUnfold ==
    /\ NodesOf[0] = [leaf : Values]
    /\ \A d \in 1 .. MaxDepth :
        NodesOf[d] = NodesOf[d - 1] \cup [entries : [Keys -> NodesOf[d - 1] \cup {Absent}]]
<1> DEFINE Body(g, d) == IF d = 0 THEN [leaf : Values]
                         ELSE g[d - 1] \cup [entries : [Keys -> g[d - 1] \cup {Absent}]]
           Unfold(g, n) == [d \in 0 .. n |-> Body(g, d)]
<1>0. MaxDepth \in Nat
  BY DepthAssumption
<1>1. \E g : g = Unfold(g, MaxDepth)
  <2> DEFINE Good == {n \in Nat : \E g : g = Unfold(g, n)}
  <2>1. 0 \in Good
    <3> DEFINE one == [d \in 0 .. 0 |-> [leaf : Values]]
    <3>1. one = Unfold(one, 0)
      OBVIOUS
    <3> HIDE DEF one, Unfold
    <3>2. QED
      BY <3>1
  <2>2. SUFFICES ASSUME NEW n \in 1 .. MaxDepth, n - 1 \in Good PROVE n \in Good
    <3>1. \A k \in 1 .. MaxDepth : k - 1 \in Good => k \in Good
      BY <2>2, Zenon
    <3> HIDE DEF Good
    <3>2. MaxDepth \in Good
      BY <1>0, <2>1, <3>1, StepByStep
    <3>3. QED
      BY <3>2, Zenon DEF Good
  <2>5. n \in Nat
    BY <1>0
  <2>6. PICK g : g = Unfold(g, n - 1)
    BY <2>2, Zenon
  <2> DEFINE h == Unfold(g, n)
  <2>7. \A d \in 0 .. n - 1 : h[d] = g[d]
    <3> TAKE d \in 0 .. n - 1
    <3>1. g[d] = Body(g, d)
      <4> HIDE DEF Body
      <4>1. QED
        BY <2>6
    <3>2. h[d] = Body(g, d)
      <4> HIDE DEF Body
      <4>1. d \in 0 .. n
        BY <2>5
      <4>2. QED
        BY <4>1
    <3>3. QED
      BY <3>1, <3>2, Zenon
  <2>8. h = Unfold(h, n)
    <3>1. SUFFICES ASSUME NEW d \in 0 .. n PROVE h[d] = Body(h, d)
      <4> HIDE DEF Body
      <4>1. QED
        OBVIOUS
    <3>2. h[d] = Body(g, d)
      <4> HIDE DEF Body
      <4>1. QED
        BY <3>1
    <3>3. d # 0 => h[d - 1] = g[d - 1]
      <4> HIDE DEF h
      <4>1. d # 0 => d - 1 \in 0 .. n - 1
        BY <2>5, <3>1
      <4>2. QED
        BY <2>7, <4>1
    <3> HIDE DEF h
    <3>4. Body(g, d) = Body(h, d)
      BY <3>3, Zenon
    <3>5. QED
      BY <3>2, <3>4, Zenon
  <2>9. QED
    BY <2>5, <2>8, Zenon
<1>2. NodesOf = Unfold(NodesOf, MaxDepth)
  <2> DEFINE f == CHOOSE g : g = Unfold(g, MaxDepth)
  <2>1. NodesOf = f
    BY Zenon DEF NodesOf
  <2>2. f = Unfold(f, MaxDepth)
    BY <1>1, Zenon
  <2>3. QED
    BY <2>1, <2>2, Zenon
<1>3. \A d \in 0 .. MaxDepth : NodesOf[d] = Body(NodesOf, d)
  <2> HIDE DEF Body
  <2>1. QED
    BY <1>2, Zenon
<1>4. QED
  <2>1. 0 \in 0 .. MaxDepth /\ \A d \in 1 .. MaxDepth : d \in 0 .. MaxDepth /\ d # 0
    BY <1>0
  <2>2. QED
    BY <1>3, <2>1, Zenon

(* A mapping has the nodes of a level below its own.                       *)
LEMMA Shape ==
    ASSUME NEW d \in 0 .. MaxDepth, NEW node \in NodesOf[d]
    PROVE  /\ node # Absent
           /\ IsMapping(node) =>
                /\ d \in 1 .. MaxDepth
                /\ node.entries \in [Keys -> NodesOf[d - 1] \cup {Absent}]
                /\ node = Mapping(node.entries)
<1> DEFINE Level(n, x) == /\ x # Absent
                          /\ IsMapping(x) =>
                                /\ n \in 1 .. MaxDepth
                                /\ x.entries \in [Keys -> NodesOf[n - 1] \cup {Absent}]
                                /\ x = Mapping(x.entries)
           Good == {n \in 0 .. MaxDepth : \A x \in NodesOf[n] : Level(n, x)}
<1>1. MaxDepth \in Nat
  BY DepthAssumption
<1>6. \A v : Leaf(v) # Absent /\ ~IsMapping(Leaf(v))
  BY DEF Leaf, Absent, IsMapping
<1>7. \A e : Mapping(e) # Absent /\ Mapping(e).entries = e
  BY DEF Mapping, Absent
<1>8. 0 \in Good
  <2>1. \A x \in NodesOf[0] : \E v \in Values : x = Leaf(v)
    BY NodesUnfold DEF Leaf
  <2>2. \A x \in NodesOf[0] : Level(0, x)
    BY <1>6, <2>1
  <2>3. 0 \in 0 .. MaxDepth
    BY <1>1
  <2>4. QED
    BY <2>2, <2>3, Zenon
<1>9. ASSUME NEW n \in 1 .. MaxDepth, n - 1 \in Good
      PROVE  n \in Good
  <2>1. n \in 0 .. MaxDepth
    BY <1>1
  <2>2. NodesOf[n] = NodesOf[n - 1] \cup [entries : [Keys -> NodesOf[n - 1] \cup {Absent}]]
    BY <1>9, NodesUnfold
  <2>3. \A x \in NodesOf[n - 1] : Level(n, x)
    <3> TAKE x \in NodesOf[n - 1]
    <3>1. Level(n - 1, x)
      BY <1>9, Zenon
    <3>2. SUFFICES ASSUME IsMapping(x)
                   PROVE  x.entries \in [Keys -> NodesOf[n - 1] \cup {Absent}]
      BY <1>9, <3>1
    <3>3. n - 1 \in 1 .. MaxDepth /\ x.entries \in [Keys -> NodesOf[n - 1 - 1] \cup {Absent}]
      BY <3>1, <3>2
    <3>4. NodesOf[n - 1 - 1] \subseteq NodesOf[n - 1]
      BY <3>3, NodesUnfold
    <3>5. QED
      BY <3>3, <3>4
  <2>4. \A x \in [entries : [Keys -> NodesOf[n - 1] \cup {Absent}]] : Level(n, x)
    <3> TAKE x \in [entries : [Keys -> NodesOf[n - 1] \cup {Absent}]]
    <3>1. x = Mapping(x.entries) /\ x.entries \in [Keys -> NodesOf[n - 1] \cup {Absent}]
      BY DEF Mapping
    <3>2. QED
      BY <1>7, <1>9, <3>1
  <2> HIDE DEF Level
  <2>5. QED
    BY <2>1, <2>2, <2>3, <2>4
<1>10. d \in Good
  <2>1. \A n \in 1 .. MaxDepth : n - 1 \in Good => n \in Good
    BY <1>9, Zenon
  <2> HIDE DEF Good
  <2>2. QED
    BY <1>1, <1>8, <2>1, StepByStep
<1>11. QED
  BY <1>10, Zenon

(* A node of some depth is one of every greater depth.                     *)
LEMMA Levels ==
    /\ MaxDepth \in Nat
    /\ \A d \in 1 .. MaxDepth : d - 1 \in 0 .. MaxDepth /\ NodesOf[d - 1] \subseteq NodesOf[d]
    /\ \A d \in 0 .. MaxDepth : NodesOf[d] \subseteq Nodes
<1>1. MaxDepth \in Nat
  BY DepthAssumption
<1>2. \A d \in 1 .. MaxDepth : d - 1 \in 0 .. MaxDepth /\ NodesOf[d - 1] \subseteq NodesOf[d]
  BY <1>1, NodesUnfold
<1>3. \A d \in 0 .. MaxDepth : NodesOf[d] \subseteq Nodes
  <2> DEFINE Good == {k \in 0 .. MaxDepth : NodesOf[MaxDepth - k] \subseteq Nodes}
  <2>1. 0 \in Good
    BY <1>1 DEF Nodes
  <2>2. ASSUME NEW k \in 1 .. MaxDepth, k - 1 \in Good PROVE k \in Good
    <3>1. NodesOf[MaxDepth - (k - 1)] \subseteq Nodes
      BY <2>2, Zenon
    <3>2. /\ MaxDepth - (k - 1) \in 1 .. MaxDepth
          /\ MaxDepth - (k - 1) - 1 = MaxDepth - k
          /\ k \in 0 .. MaxDepth
      BY <1>1
    <3>3. NodesOf[MaxDepth - k] \subseteq NodesOf[MaxDepth - (k - 1)]
      BY <1>2, <3>2
    <3>4. NodesOf[MaxDepth - k] \subseteq Nodes
      BY <3>1, <3>3, Zenon
    <3>5. QED
      BY <3>2, <3>4, Zenon
  <2>3. \A k \in 0 .. MaxDepth : k \in Good
    <3>1. \A k \in 1 .. MaxDepth : k - 1 \in Good => k \in Good
      BY <2>2, Zenon
    <3> HIDE DEF Good
    <3>2. QED
      BY <1>1, <2>1, <3>1, StepByStep
  <2> TAKE d \in 0 .. MaxDepth
  <2>4. MaxDepth - d \in 0 .. MaxDepth /\ MaxDepth - (MaxDepth - d) = d
    BY <1>1
  <2>5. NodesOf[MaxDepth - (MaxDepth - d)] \subseteq Nodes
    BY <2>3, <2>4, Zenon
  <2>6. QED
    BY <2>4, <2>5
<1>4. QED
  BY <1>1, <1>2, <1>3

--------------------------------------------------------------------------------
(* Recursion over nodes.  mergeNodes and Leaves visit the nodes of the     *)
(* keys of a mapping, and nothing else.                                    *)
Merging(g, node) ==
    [over \in Nodes |->
        IF IsMapping(node) /\ IsMapping(over)
        THEN Mapping([key \in Keys |->
                IF key \notin KeysOf(over) THEN node.entries[key]
                ELSE IF key \notin KeysOf(node) THEN over.entries[key]
                ELSE g[node.entries[key]][over.entries[key]]])
        ELSE over]

Collecting(g, node) ==
    IF ~IsMapping(node) \/ IsEmpty(node) THEN {[path |-> <<>>, node |-> node]}
    ELSE UNION {{Under(key, leaf) : leaf \in g[node.entries[key]]} : key \in KeysOf(node)}

Visit(what, g, node) == IF what = "merge" THEN Merging(g, node) ELSE Collecting(g, node)

SameBelow(g, h, node) ==
    IsMapping(node) => \A key \in KeysOf(node) : g[node.entries[key]] = h[node.entries[key]]

(* A visit of a mapping looks at a function only for the nodes of its      *)
(* keys.                                                                   *)
LEMMA VisitAgrees ==
    ASSUME NEW what, NEW g, NEW h, NEW node, SameBelow(g, h, node)
    PROVE  Visit(what, g, node) = Visit(what, h, node)
<1>1. Merging(g, node) = Merging(h, node)
  <2>1. SUFFICES ASSUME NEW over \in Nodes, IsMapping(node), IsMapping(over)
                 PROVE  [key \in Keys |->
                            IF key \notin KeysOf(over) THEN node.entries[key]
                            ELSE IF key \notin KeysOf(node) THEN over.entries[key]
                            ELSE g[node.entries[key]][over.entries[key]]]
                      = [key \in Keys |->
                            IF key \notin KeysOf(over) THEN node.entries[key]
                            ELSE IF key \notin KeysOf(node) THEN over.entries[key]
                            ELSE h[node.entries[key]][over.entries[key]]]
    BY Zenon DEF Merging
  <2>2. \A key \in KeysOf(node) : g[node.entries[key]] = h[node.entries[key]]
    BY <2>1 DEF SameBelow
  <2>3. QED
    BY <2>2, Zenon
<1>2. Collecting(g, node) = Collecting(h, node)
  <2>1. CASE ~IsMapping(node) \/ IsEmpty(node)
    BY <2>1, Zenon DEF Collecting
  <2>2. CASE IsMapping(node) /\ ~IsEmpty(node)
    <3>1. \A key \in KeysOf(node) :
            {Under(key, leaf) : leaf \in g[node.entries[key]]}
            = {Under(key, leaf) : leaf \in h[node.entries[key]]}
      BY <2>2, Zenon DEF SameBelow
    <3>2. UNION {{Under(key, leaf) : leaf \in g[node.entries[key]]} : key \in KeysOf(node)}
          = UNION {{Under(key, leaf) : leaf \in h[node.entries[key]]} : key \in KeysOf(node)}
      BY <3>1
    <3>3. QED
      BY <2>2, <3>2, Zenon DEF Collecting
  <2>3. QED
    BY <2>1, <2>2
<1>3. QED
  BY <1>1, <1>2, Zenon DEF Visit

(* The nodes of the keys of a mapping are less deep than it is.            *)
LEMMA Below ==
    ASSUME NEW d \in 0 .. MaxDepth, NEW node \in NodesOf[d], IsMapping(node)
    PROVE  d \in 1 .. MaxDepth /\ \A key \in KeysOf(node) : node.entries[key] \in NodesOf[d - 1]
<1>1. d \in 1 .. MaxDepth /\ node.entries \in [Keys -> NodesOf[d - 1] \cup {Absent}]
  BY Shape
<1>2. QED
  BY <1>1 DEF KeysOf

(* A function defined by visits exists.                                    *)
LEMMA VisitsEnd ==
    ASSUME NEW what
    PROVE  \E g : g = [node \in Nodes |-> Visit(what, g, node)]
<1> DEFINE Unfold(g, n) == [node \in NodesOf[n] |-> Visit(what, g, node)]
           Good == {n \in Nat : \E g : g = Unfold(g, n)}
<1>1. MaxDepth \in Nat
  BY DepthAssumption
<1>2. 0 \in Good
  <2> DEFINE g == [node \in NodesOf[0] |-> Visit(what, node, node)]
  <2>1. \A node \in NodesOf[0] : SameBelow(node, g, node)
    <3> HIDE DEF g
    <3>1. 0 \in 0 .. MaxDepth /\ 0 \notin 1 .. MaxDepth
      BY <1>1
    <3>2. \A node \in NodesOf[0] : ~IsMapping(node)
      BY <3>1, Below
    <3>3. QED
      BY <3>2, Zenon DEF SameBelow
  <2>2. \A node \in NodesOf[0] : Visit(what, node, node) = Visit(what, g, node)
    <3> HIDE DEF g
    <3>1. QED
      BY <2>1, VisitAgrees, Zenon
  <2>3. g = Unfold(g, 0)
    <3>1. [node \in NodesOf[0] |-> Visit(what, node, node)] = Unfold(g, 0)
      <4> HIDE DEF g
      <4>1. QED
        BY <2>2, Zenon
    <3>2. QED
      BY <3>1, Zenon
  <2> HIDE DEF g, Unfold
  <2>4. QED
    BY <2>3
<1>3. SUFFICES ASSUME NEW n \in 1 .. MaxDepth, n - 1 \in Good PROVE n \in Good
  <2>1. \A k \in 1 .. MaxDepth : k - 1 \in Good => k \in Good
    BY <1>3, Zenon
  <2> HIDE DEF Good
  <2>2. MaxDepth \in Good
    BY <1>1, <1>2, <2>1, StepByStep
  <2>3. QED
    BY <2>2, Zenon DEF Good, Nodes
<1>4. n \in Nat /\ n \in 0 .. MaxDepth
  BY <1>1
<1>5. PICK g : g = Unfold(g, n - 1)
  BY <1>3, Zenon
<1> HIDE DEF Good
<1> DEFINE h == Unfold(g, n)
<1>6. \A node \in NodesOf[n] : SameBelow(g, h, node)
  <2>1. SUFFICES ASSUME NEW node \in NodesOf[n], IsMapping(node), NEW key \in KeysOf(node)
                 PROVE  g[node.entries[key]] = h[node.entries[key]]
    <3> HIDE DEF h
    <3>1. QED
      BY <2>1, Zenon DEF SameBelow
  <2>2. node.entries[key] \in NodesOf[n - 1] /\ node.entries[key] \in NodesOf[n]
    BY <1>4, <2>1, Below, Levels
  <2>3. g[node.entries[key]] = Visit(what, g, node.entries[key])
    BY <1>5, <2>2, Zenon
  <2>4. h[node.entries[key]] = Visit(what, g, node.entries[key])
    BY <2>2, Zenon
  <2>5. QED
    BY <2>3, <2>4, Zenon
<1>7. \A node \in NodesOf[n] : Visit(what, g, node) = Visit(what, h, node)
  <2> HIDE DEF h
  <2>1. QED
    BY <1>6, VisitAgrees, Zenon
<1>8. h = Unfold(h, n)
  <2>1. Unfold(g, n) = Unfold(h, n)
    <3> HIDE DEF h
    <3>1. QED
      BY <1>7, Zenon
  <2>2. QED
    BY <2>1, Zenon
<1>9. QED
  BY <1>4, <1>8, Zenon DEF Good

(* What the two recursive functions give.                                  *)
LEMMA mergeNodesUnfolds ==
    ASSUME NEW base \in Nodes, NEW overlay \in Nodes
    PROVE  mergeNodes(base, overlay) =
            IF IsMapping(base) /\ IsMapping(overlay)
            THEN Mapping([key \in Keys |->
                    IF key \notin KeysOf(overlay) THEN base.entries[key]
                    ELSE IF key \notin KeysOf(base) THEN overlay.entries[key]
                    ELSE mergeNodes(base.entries[key], overlay.entries[key])])
            ELSE overlay
<1> DEFINE m == CHOOSE g : g = [node \in Nodes |-> Merging(g, node)]
<1>1. \A b, o : mergeNodes(b, o) = m[b][o]
  BY Zenon DEF mergeNodes, Merging
<1>2. m = [node \in Nodes |-> Merging(m, node)]
  <2>1. \A g, node : Visit("merge", g, node) = Merging(g, node)
    BY Zenon DEF Visit
  <2>2. PICK g : g = [node \in Nodes |-> Visit("merge", g, node)]
    BY VisitsEnd
  <2>3. g = [node \in Nodes |-> Merging(g, node)]
    <3>1. [node \in Nodes |-> Visit("merge", g, node)] = [node \in Nodes |-> Merging(g, node)]
      BY <2>1, Zenon
    <3>2. QED
      BY <2>2, <3>1, Zenon
  <2>4. QED
    BY <2>3, Zenon
<1> HIDE DEF m
<1>3. m[base] = Merging(m, base)
  BY <1>2, Zenon
<1>4. m[base][overlay] =
        IF IsMapping(base) /\ IsMapping(overlay)
        THEN Mapping([key \in Keys |->
                IF key \notin KeysOf(overlay) THEN base.entries[key]
                ELSE IF key \notin KeysOf(base) THEN overlay.entries[key]
                ELSE m[base.entries[key]][overlay.entries[key]]])
        ELSE overlay
  BY <1>3, Zenon DEF Merging
<1>5. QED
  BY <1>1, <1>4, Zenon

(* Two mappings are merged into a mapping.                                 *)
LEMMA MergedIsMapping ==
    ASSUME NEW base \in Nodes, NEW overlay \in Nodes, IsMapping(base), IsMapping(overlay)
    PROVE  IsMapping(mergeNodes(base, overlay))
<1>1. \A e : IsMapping(Mapping(e))
  BY DEF IsMapping, Mapping
<1> DEFINE f == [key \in Keys |->
                    IF key \notin KeysOf(overlay) THEN base.entries[key]
                    ELSE IF key \notin KeysOf(base) THEN overlay.entries[key]
                    ELSE mergeNodes(base.entries[key], overlay.entries[key])]
<1>2. mergeNodes(base, overlay) = Mapping(f)
  BY mergeNodesUnfolds, Zenon
<1> HIDE DEF f
<1>3. QED
  BY <1>1, <1>2

(* The leaves of a mapping are those of the nodes of its keys.             *)
LEMMA LeavesUnfold ==
    ASSUME NEW tree \in Nodes
    PROVE  Leaves(tree) =
            IF ~IsMapping(tree) \/ IsEmpty(tree) THEN {[path |-> <<>>, node |-> tree]}
            ELSE UNION {{Under(key, leaf) : leaf \in Leaves(tree.entries[key])} :
                            key \in KeysOf(tree)}
<1> DEFINE m == CHOOSE g : g = [node \in Nodes |-> Collecting(g, node)]
<1>1. \A t : Leaves(t) = m[t]
  BY Zenon DEF Leaves, Collecting
<1>2. m = [node \in Nodes |-> Collecting(m, node)]
  <2>1. \A g, node : Visit("collect", g, node) = Collecting(g, node)
    BY DEF Visit
  <2>2. PICK g : g = [node \in Nodes |-> Visit("collect", g, node)]
    BY VisitsEnd
  <2>3. g = [node \in Nodes |-> Collecting(g, node)]
    <3>1. [node \in Nodes |-> Visit("collect", g, node)] = [node \in Nodes |-> Collecting(g, node)]
      BY <2>1, Zenon
    <3>2. QED
      BY <2>2, <3>1, Zenon
  <2>4. QED
    BY <2>3, Zenon
<1> HIDE DEF m
<1>3. m[tree] = Collecting(m, tree)
  BY <1>2, Zenon
<1>4. Leaves(tree) = Collecting(m, tree)
  BY <1>1, <1>3, Zenon
<1>5. CASE ~IsMapping(tree) \/ IsEmpty(tree)
  BY <1>4, <1>5, Zenon DEF Collecting
<1>6. CASE IsMapping(tree) /\ ~IsEmpty(tree)
  <2>1. Leaves(tree) = UNION {{Under(key, leaf) : leaf \in m[tree.entries[key]]} :
                                key \in KeysOf(tree)}
    BY <1>4, <1>6, Zenon DEF Collecting
  <2>2. \A key \in KeysOf(tree) :
            {Under(key, leaf) : leaf \in m[tree.entries[key]]}
            = {Under(key, leaf) : leaf \in Leaves(tree.entries[key])}
    BY <1>1, Zenon
  <2>3. UNION {{Under(key, leaf) : leaf \in m[tree.entries[key]]} : key \in KeysOf(tree)}
        = UNION {{Under(key, leaf) : leaf \in Leaves(tree.entries[key])} : key \in KeysOf(tree)}
    BY <2>2
  <2>4. QED
    BY <1>6, <2>1, <2>3, Zenon
<1>7. QED
  BY <1>5, <1>6

--------------------------------------------------------------------------------
(* Paths and leaves.                                                       *)

(* What IsPrefix says, in terms of positions.                              *)
StartsWith(p, q) == Len(p) <= Len(q) /\ \A i \in 1 .. Len(p) : p[i] = q[i]

(* A prefix agrees with the whole at each of its positions.                *)
LEMMA PrefixByPosition ==
    ASSUME NEW S, NEW p \in Seq(S), NEW q \in Seq(S)
    PROVE  IsPrefix(p, q) <=> StartsWith(p, q)
<1>1. Len(p) \in Nat /\ Len(q) \in Nat
  OBVIOUS
<1>2. CASE Len(p) <= Len(q)
  <2>1. SubSeq(p, 1, Len(p)) = p
    BY <1>1
  <2>2. /\ Len(SubSeq(q, 1, Len(p))) = Len(p)
        /\ SubSeq(q, 1, Len(p)) \in Seq(S)
        /\ \A i \in 1 .. Len(p) : SubSeq(q, 1, Len(p))[i] = q[i]
    BY <1>1, <1>2, SubSeqProperties
  <2>3. (\A i \in 1 .. Len(p) : p[i] = q[i]) => p = SubSeq(q, 1, Len(p))
    BY <1>1, <2>2
  <2>4. p = SubSeq(q, 1, Len(p)) => \A i \in 1 .. Len(p) : p[i] = q[i]
    BY <2>2
  <2>5. QED
    BY <1>2, <2>1, <2>3, <2>4 DEF IsPrefix, StartsWith
<1>3. CASE ~(Len(p) <= Len(q))
  BY <1>3 DEF IsPrefix, StartsWith
<1>4. QED
  BY <1>2, <1>3

(* One path is a prefix of another if both go down the same key and the    *)
(* rest of the one is a prefix of the rest of the other.                   *)
LEMMA PrefixOfBelow ==
    ASSUME NEW S, NEW p \in Seq(S), NEW q \in Seq(S), NEW j \in S, NEW k \in S
    PROVE  /\ IsPrefix(<<>>, q)
           /\ ~IsPrefix(<<j>> \o p, <<>>)
           /\ IsPrefix(<<j>> \o p, <<k>> \o q) <=> j = k /\ IsPrefix(p, q)
           /\ <<j>> \o p \in Seq(S) /\ <<>> \in Seq(S) /\ <<j>> \o p # <<>>
           /\ <<j>> \o p = <<k>> \o q <=> j = k /\ p = q
<1>1. \A s \in Seq(S), e \in S :
        /\ <<e>> \o s \in Seq(S) /\ Len(<<e>> \o s) = Len(s) + 1 /\ (<<e>> \o s)[1] = e
        /\ \A i \in 1 .. Len(s) : (<<e>> \o s)[i + 1] = s[i]
  <2> TAKE s \in Seq(S), e \in S
  <2>1. <<e>> \in Seq(S) /\ Len(<<e>>) = 1 /\ <<e>>[1] = e
    OBVIOUS
  <2>2. Len(s) \in Nat
    OBVIOUS
  <2>3. <<e>> \o s \in Seq(S) /\ Len(<<e>> \o s) = Len(s) + 1
    BY <2>1, ConcatProperties
  <2>4. \A i \in 1 .. 1 + Len(s) :
            (<<e>> \o s)[i] = IF i <= 1 THEN <<e>>[i] ELSE s[i - 1]
    BY <2>1, ConcatProperties
  <2>5. \A i \in 1 .. Len(s) : i + 1 \in 1 .. 1 + Len(s) /\ ~(i + 1 <= 1) /\ i + 1 - 1 = i
    BY <2>2
  <2>6. 1 \in 1 .. 1 + Len(s)
    BY <2>2
  <2>7. QED
    BY <2>1, <2>3, <2>4, <2>5, <2>6
<1> DEFINE a == <<j>> \o p
           b == <<k>> \o q
<1>2. /\ a \in Seq(S) /\ Len(a) = Len(p) + 1 /\ a[1] = j
      /\ \A i \in 1 .. Len(p) : a[i + 1] = p[i]
      /\ b \in Seq(S) /\ Len(b) = Len(q) + 1 /\ b[1] = k
      /\ \A i \in 1 .. Len(q) : b[i + 1] = q[i]
  BY <1>1
<1> HIDE DEF a, b
<1>3. Len(p) \in Nat /\ Len(q) \in Nat /\ <<>> \in Seq(S) /\ Len(<<>>) = 0
  OBVIOUS
<1>4. IsPrefix(<<>>, q)
  <2>1. \A e \in Seq(S) : Len(e) = 0 => IsPrefix(e, q)
    <3> SUFFICES ASSUME NEW e \in Seq(S), Len(e) = 0 PROVE IsPrefix(e, q)
      OBVIOUS
    <3>1. IsPrefix(e, q) <=> StartsWith(e, q)
      BY PrefixByPosition, Zenon
    <3>2. Len(e) <= Len(q) /\ 1 .. Len(e) = {}
      BY <1>3
    <3>3. QED
      BY <3>1, <3>2, Zenon DEF StartsWith
  <2>2. QED
    BY <1>3, <2>1
<1>5. ~IsPrefix(a, <<>>) /\ a # <<>>
  <2>1. \A e \in Seq(S) : Len(e) = 0 => ~IsPrefix(a, e) /\ a # e
    <3> SUFFICES ASSUME NEW e \in Seq(S), Len(e) = 0 PROVE ~IsPrefix(a, e) /\ a # e
      OBVIOUS
    <3>1. IsPrefix(a, e) => Len(a) <= Len(e)
      BY <1>2, PrefixByPosition DEF StartsWith
    <3>2. QED
      BY <1>2, <1>3, <3>1
  <2>2. QED
    BY <1>3, <2>1
<1>6. IsPrefix(a, b) <=> Len(a) <= Len(b) /\ \A i \in 1 .. Len(a) : a[i] = b[i]
  <2>1. IsPrefix(a, b) <=> StartsWith(a, b)
    BY <1>2, PrefixByPosition, Zenon
  <2>2. QED
    BY <2>1, Zenon DEF StartsWith
<1>7. IsPrefix(p, q) <=> Len(p) <= Len(q) /\ \A i \in 1 .. Len(p) : p[i] = q[i]
  <2>1. IsPrefix(p, q) <=> StartsWith(p, q)
    BY PrefixByPosition
  <2>2. QED
    BY <2>1, Zenon DEF StartsWith
<1>8. IsPrefix(a, b) => j = k /\ IsPrefix(p, q)
  <2>1. SUFFICES ASSUME Len(a) <= Len(b), \A i \in 1 .. Len(a) : a[i] = b[i]
                 PROVE  j = k /\ Len(p) <= Len(q) /\ \A i \in 1 .. Len(p) : p[i] = q[i]
    BY <1>6, <1>7
  <2>2. 1 \in 1 .. Len(a) /\ Len(p) <= Len(q)
    BY <1>2, <1>3, <2>1
  <2>3. \A i \in 1 .. Len(p) : i + 1 \in 1 .. Len(a) /\ i \in 1 .. Len(q)
    BY <1>2, <1>3, <2>2
  <2>4. QED
    BY <1>2, <2>1, <2>2, <2>3
<1>9. j = k /\ IsPrefix(p, q) => IsPrefix(a, b)
  <2>1. SUFFICES ASSUME j = k, Len(p) <= Len(q), \A i \in 1 .. Len(p) : p[i] = q[i]
                 PROVE  Len(a) <= Len(b) /\ \A i \in 1 .. Len(a) : a[i] = b[i]
    BY <1>6, <1>7
  <2>2. \A i \in 1 .. Len(a) : i = 1 \/ (i - 1 \in 1 .. Len(p) /\ i - 1 + 1 = i)
    BY <1>2, <1>3
  <2>3. \A i \in 1 .. Len(p) : i \in 1 .. Len(q)
    BY <1>3, <2>1
  <2>4. \A i \in 1 .. Len(p) : a[i + 1] = b[i + 1]
    BY <1>2, <2>1, <2>3
  <2>5. Len(a) <= Len(b)
    BY <1>2, <1>3, <2>1
  <2>6. ASSUME NEW i \in 1 .. Len(a) PROVE a[i] = b[i]
    <3>1. CASE i = 1
      BY <1>2, <2>1, <3>1
    <3>2. CASE i # 1
      <4>1. i - 1 \in 1 .. Len(p) /\ i - 1 + 1 = i
        BY <2>2, <3>2
      <4>2. QED
        BY <2>4, <4>1
    <3>3. QED
      BY <3>1, <3>2
  <2>7. QED
    BY <2>5, <2>6
<1>10. a = b <=> j = k /\ p = q
  <2>1. SUFFICES ASSUME a = b PROVE j = k /\ p = q
    BY DEF a, b
  <2>2. Len(p) = Len(q)
    BY <1>2, <1>3, <2>1
  <2>3. \A i \in 1 .. Len(p) : p[i] = q[i]
    BY <1>2, <2>1, <2>2
  <2>4. QED
    BY <1>2, <2>1, <2>2, <2>3
<1>11. QED
  BY <1>2, <1>3, <1>4, <1>5, <1>8, <1>9, <1>10 DEF a, b

(* A leaf has a path of keys.                                              *)
Lists(leaves) ==
    /\ leaves # {}
    /\ \A leaf \in leaves :
        leaf.path \in Seq(Keys) /\ leaf = [path |-> leaf.path, node |-> leaf.node]

(* A leaf under a key has a longer path and the same node.                 *)
LEMMA UnderFields ==
    ASSUME NEW key, NEW leaf
    PROVE  /\ Under(key, leaf).path = <<key>> \o leaf.path /\ Under(key, leaf).node = leaf.node
           /\ Under(key, leaf) = [path |-> Under(key, leaf).path, node |-> Under(key, leaf).node]
  BY DEF Under

(* Every node has leaves, and their paths are sequences of keys.           *)
LEMMA LeavesListed ==
    ASSUME NEW d \in 0 .. MaxDepth, NEW tree \in NodesOf[d]
    PROVE  tree \in Nodes /\ Lists(Leaves(tree))
<1> DEFINE Good == {n \in 0 .. MaxDepth : \A t \in NodesOf[n] : Lists(Leaves(t))}
<1>1. /\ MaxDepth \in Nat
      /\ \A n \in 0 .. MaxDepth : NodesOf[n] \subseteq Nodes
      /\ \A n \in 1 .. MaxDepth : NodesOf[n - 1] \subseteq NodesOf[n]
  BY Levels
<1>2. ASSUME NEW t \in Nodes, ~IsMapping(t) \/ IsEmpty(t)
      PROVE  Lists(Leaves(t))
  <2>1. Leaves(t) = {[path |-> <<>>, node |-> t]}
    BY <1>2, LeavesUnfold, Zenon
  <2>2. <<>> \in Seq(Keys)
    OBVIOUS
  <2>3. QED
    BY <2>1, <2>2 DEF Lists
<1>3. ASSUME NEW n \in 1 .. MaxDepth, n - 1 \in Good, NEW t \in NodesOf[n],
             IsMapping(t), ~IsEmpty(t)
      PROVE  Lists(Leaves(t))
  <2>1. t \in Nodes /\ n \in 0 .. MaxDepth
    BY <1>1
  <2>2. Leaves(t) = UNION {{Under(key, leaf) : leaf \in Leaves(t.entries[key])} :
                                key \in KeysOf(t)}
    BY <1>3, <2>1, LeavesUnfold, Zenon
  <2>3. \A key \in KeysOf(t) : key \in Keys /\ Lists(Leaves(t.entries[key]))
    <3>1. \A key \in KeysOf(t) : t.entries[key] \in NodesOf[n - 1]
      BY <1>3, <2>1, Below
    <3>2. \A x \in NodesOf[n - 1] : Lists(Leaves(x))
      BY <1>3, Zenon
    <3>3. QED
      BY <3>1, <3>2 DEF KeysOf
  <2>4. PICK key \in KeysOf(t) : TRUE
    BY <1>3 DEF IsEmpty
  <2>5. Leaves(t) # {}
    <3>1. PICK leaf \in Leaves(t.entries[key]) : TRUE
      BY <2>3, <2>4 DEF Lists
    <3>2. Under(key, leaf) \in Leaves(t)
      BY <2>2, <3>1
    <3>3. QED
      BY <3>2
  <2>6. ASSUME NEW k \in KeysOf(t), NEW leaf \in Leaves(t.entries[k])
        PROVE  /\ Under(k, leaf).path \in Seq(Keys)
               /\ Under(k, leaf) = [path |-> Under(k, leaf).path, node |-> Under(k, leaf).node]
    <3>1. k \in Keys /\ leaf.path \in Seq(Keys)
      BY <2>3, <2>6 DEF Lists
    <3>2. <<k>> \o leaf.path \in Seq(Keys)
      BY <3>1, PrefixOfBelow
    <3>3. QED
      BY <3>2, UnderFields
  <2>7. \A x \in Leaves(t) : x.path \in Seq(Keys) /\ x = [path |-> x.path, node |-> x.node]
    BY <2>2, <2>6
  <2>8. QED
    BY <2>5, <2>7, Zenon DEF Lists
<1>4. 0 \in Good
  <2>1. 0 \in 0 .. MaxDepth /\ 0 \notin 1 .. MaxDepth
    BY <1>1
  <2>2. \A t \in NodesOf[0] : t \in Nodes /\ ~IsMapping(t)
    BY <1>1, <2>1, Below
  <2>3. QED
    BY <1>2, <2>1, <2>2, Zenon
<1>5. \A n \in 1 .. MaxDepth : n - 1 \in Good => n \in Good
  <2> TAKE n \in 1 .. MaxDepth
  <2>1. n \in 0 .. MaxDepth
    BY <1>1
  <2>2. \A t \in NodesOf[n] : t \in Nodes
    BY <1>1, <2>1
  <2>3. n - 1 \in Good => \A t \in NodesOf[n] : Lists(Leaves(t))
    BY <1>2, <1>3, <2>2, Zenon
  <2>4. QED
    BY <2>1, <2>3, Zenon
<1>6. d \in Good
  <2> HIDE DEF Good
  <2>1. QED
    BY <1>1, <1>4, <1>5, StepByStep
<1>7. QED
  BY <1>1, <1>6, Zenon

--------------------------------------------------------------------------------
(* What a node says: its leaves without the empty mappings.                *)
Said(tree) == {leaf \in Leaves(tree) : ~IsEmpty(leaf.node)}

(* What takes the place of a leaf when an overlay with it is merged: an    *)
(* empty mapping has nothing to put in the place of a mapping.             *)
Displaces(later, leaf) ==
    \/ IsPrefix(leaf.path, later.path)
    \/ ~IsEmpty(later.node) /\ IsPrefix(later.path, leaf.path)

(* No leaf of an overlay displaces it.                                     *)
Spared(overlay, leaf) == \A later \in Leaves(overlay) : ~Displaces(later, leaf)

(* What a mapping says is what the nodes of its keys say.                  *)
LEMMA SaidBelow ==
    ASSUME NEW tree \in Nodes, IsMapping(tree), NEW leaf
    PROVE  leaf \in Said(tree) <=>
            \E key \in KeysOf(tree) : \E below \in Said(tree.entries[key]) :
                leaf = Under(key, below)
<1>1. CASE IsEmpty(tree)
  <2>1. Leaves(tree) = {[path |-> <<>>, node |-> tree]}
    BY <1>1, LeavesUnfold, Zenon
  <2>2. leaf \notin Said(tree)
    BY <1>1, <2>1 DEF Said
  <2>3. KeysOf(tree) = {}
    BY <1>1 DEF IsEmpty
  <2>4. QED
    BY <2>2, <2>3
<1>2. CASE ~IsEmpty(tree)
  <2>1. Leaves(tree) = UNION {{Under(key, below) : below \in Leaves(tree.entries[key])} :
                                key \in KeysOf(tree)}
    BY <1>2, LeavesUnfold, Zenon
  <2>2. \A key, below : Under(key, below).node = below.node
    BY UnderFields
  <2>3. QED
    BY <2>1, <2>2 DEF Said
<1>3. QED
  BY <1>1, <1>2

(* An overlay spares what is under a key if it does not have the key, or   *)
(* if what it has there spares it.                                         *)
LEMMA SparedBelow ==
    ASSUME NEW overlay \in Nodes, IsMapping(overlay), NEW key \in Keys, NEW leaf,
           leaf.path \in Seq(Keys)
    PROVE  Spared(overlay, Under(key, leaf)) <=>
            (key \in KeysOf(overlay) => Spared(overlay.entries[key], leaf))
<1>0. Under(key, leaf).path = <<key>> \o leaf.path
  BY UnderFields
<1>1. CASE IsEmpty(overlay)
  <2>1. Leaves(overlay) = {[path |-> <<>>, node |-> overlay]}
    BY <1>1, LeavesUnfold, Zenon
  <2>2. \A later \in Leaves(overlay) : later.path = <<>> /\ IsEmpty(later.node)
    BY <1>1, <2>1
  <2>3. ~IsPrefix(<<key>> \o leaf.path, <<>>)
    <3>1. \A p, q \in Seq(Keys), i, j \in Keys : ~IsPrefix(<<i>> \o p, <<>>)
      BY PrefixOfBelow
    <3>2. QED
      BY <3>1
  <2>4. Spared(overlay, Under(key, leaf))
    BY <1>0, <2>2, <2>3 DEF Spared, Displaces
  <2>5. KeysOf(overlay) = {}
    BY <1>1 DEF IsEmpty
  <2>6. QED
    BY <2>4, <2>5
<1>2. CASE ~IsEmpty(overlay)
  <2>1. Leaves(overlay) = UNION {{Under(k, below) : below \in Leaves(overlay.entries[k])} :
                                    k \in KeysOf(overlay)}
    BY <1>2, LeavesUnfold, Zenon
  <2>2. \A k \in KeysOf(overlay) : k \in Keys /\ Lists(Leaves(overlay.entries[k]))
    <3>1. \A k \in KeysOf(overlay) : MaxDepth - 1 \in 0 .. MaxDepth
                                        /\ overlay.entries[k] \in NodesOf[MaxDepth - 1]
      BY Below, Levels DEF Nodes
    <3>2. QED
      BY <3>1, LeavesListed DEF KeysOf
  <2>3. ASSUME NEW k \in KeysOf(overlay), NEW below \in Leaves(overlay.entries[k])
        PROVE  Displaces(Under(k, below), Under(key, leaf)) <=> k = key /\ Displaces(below, leaf)
    <3>1. k \in Keys /\ below.path \in Seq(Keys)
      BY <2>2, <2>3 DEF Lists
    <3>2. /\ IsPrefix(<<key>> \o leaf.path, <<k>> \o below.path)
                <=> k = key /\ IsPrefix(leaf.path, below.path)
          /\ IsPrefix(<<k>> \o below.path, <<key>> \o leaf.path)
                <=> k = key /\ IsPrefix(below.path, leaf.path)
      <4>1. \A p, q \in Seq(Keys), i, j \in Keys :
                IsPrefix(<<i>> \o p, <<j>> \o q) <=> i = j /\ IsPrefix(p, q)
        BY PrefixOfBelow
      <4>2. QED
        BY <3>1, <4>1
    <3>3. Under(k, below).path = <<k>> \o below.path /\ Under(k, below).node = below.node
      BY UnderFields
    <3>4. QED
      BY <1>0, <3>2, <3>3, Zenon DEF Displaces
  <2>4. \A later : later \in Leaves(overlay) <=>
            \E k \in KeysOf(overlay) : \E below \in Leaves(overlay.entries[k]) :
                later = Under(k, below)
    BY <2>1
  <2>5. CASE key \in KeysOf(overlay)
    <3>1. ASSUME Spared(overlay, Under(key, leaf)), NEW below \in Leaves(overlay.entries[key])
          PROVE  ~Displaces(below, leaf)
      <4>1. Under(key, below) \in Leaves(overlay)
        BY <2>4, <2>5
      <4>2. QED
        BY <2>3, <2>5, <3>1, <4>1, Zenon DEF Spared
    <3>2. ASSUME Spared(overlay.entries[key], leaf), NEW later \in Leaves(overlay)
          PROVE  ~Displaces(later, Under(key, leaf))
      <4>1. PICK k \in KeysOf(overlay) : \E below \in Leaves(overlay.entries[k]) :
                    later = Under(k, below)
        BY <2>4, <3>2
      <4>2. PICK below \in Leaves(overlay.entries[k]) : later = Under(k, below)
        BY <4>1
      <4>3. k = key => ~Displaces(below, leaf)
        BY <3>2, Zenon DEF Spared
      <4>4. QED
        BY <2>3, <4>2, <4>3
    <3>3. QED
      BY <2>5, <3>1, <3>2, Zenon DEF Spared
  <2>6. CASE key \notin KeysOf(overlay)
    <3>1. ASSUME NEW later \in Leaves(overlay)
          PROVE  ~Displaces(later, Under(key, leaf))
      <4>1. PICK k \in KeysOf(overlay) : \E below \in Leaves(overlay.entries[k]) :
                    later = Under(k, below)
        BY <2>4, <3>1
      <4>2. QED
        BY <2>3, <2>6, <4>1
    <3>2. QED
      BY <2>6, <3>1, Zenon DEF Spared
  <2>7. QED
    BY <2>5, <2>6
<1>3. QED
  BY <1>1, <1>2

(* What merging is to achieve.                                             *)
SaysBoth(merged, base, overlay) ==
    \A leaf : leaf \in Said(merged) <=>
                leaf \in Said(overlay) \/ (leaf \in Said(base) /\ Spared(overlay, leaf))

(* Whatever is not two mappings becomes the overlay, of which a leaf       *)
(* displaces everything in the base.                                       *)
LEMMA ReplacedSays ==
    ASSUME NEW base \in Nodes, NEW overlay \in Nodes, ~(IsMapping(base) /\ IsMapping(overlay))
    PROVE  SaysBoth(overlay, base, overlay)
<1>1. SUFFICES ASSUME NEW leaf \in Said(base)
               PROVE  ~Spared(overlay, leaf)
  BY Zenon DEF SaysBoth
<1>2. Lists(Leaves(base)) /\ Lists(Leaves(overlay))
  <2>1. MaxDepth \in 0 .. MaxDepth
    BY Levels
  <2>2. QED
    BY <2>1, LeavesListed DEF Nodes
<1>3. \A q \in Seq(Keys) : IsPrefix(<<>>, q)
  <2> TAKE q \in Seq(Keys)
  <2>1. <<>> \in Seq(Keys) /\ StartsWith(<<>>, q)
    BY DEF StartsWith
  <2>2. QED
    BY <2>1, PrefixByPosition
<1>4. leaf \in Leaves(base) /\ leaf.path \in Seq(Keys)
  BY <1>2 DEF Said, Lists
<1>5. CASE ~IsMapping(base)
  <2>1. Leaves(base) = {[path |-> <<>>, node |-> base]}
    BY <1>5, LeavesUnfold, Zenon
  <2>2. leaf.path = <<>>
    BY <1>4, <2>1
  <2>3. PICK later \in Leaves(overlay) : later.path \in Seq(Keys)
    BY <1>2 DEF Lists
  <2>4. Displaces(later, leaf)
    BY <1>3, <2>2, <2>3 DEF Displaces
  <2>5. QED
    BY <2>3, <2>4 DEF Spared
<1>6. CASE ~IsMapping(overlay)
  <2>1. Leaves(overlay) = {[path |-> <<>>, node |-> overlay]}
    BY <1>6, LeavesUnfold, Zenon
  <2>2. PICK later \in Leaves(overlay) : later.path = <<>> /\ later.node = overlay
    BY <2>1
  <2>3. ~IsEmpty(later.node)
    BY <1>6, <2>2 DEF IsEmpty
  <2>4. Displaces(later, leaf)
    BY <1>3, <1>4, <2>2, <2>3 DEF Displaces
  <2>5. QED
    BY <2>2, <2>4 DEF Spared
<1>7. QED
  BY <1>1, <1>5, <1>6

(* A node merged of two says what the overlay says, and of the base what   *)
(* no leaf of the overlay displaces.                                       *)
LEMMA MergedSays ==
    ASSUME NEW d \in 0 .. MaxDepth, NEW base \in NodesOf[d], NEW overlay \in NodesOf[d]
    PROVE  /\ mergeNodes(base, overlay) \in NodesOf[d]
           /\ SaysBoth(mergeNodes(base, overlay), base, overlay)
<1> DEFINE Merges(n, b, o) == /\ mergeNodes(b, o) \in NodesOf[n]
                              /\ SaysBoth(mergeNodes(b, o), b, o)
           Good == {n \in 0 .. MaxDepth : \A b, o \in NodesOf[n] : Merges(n, b, o)}
<1>1. /\ MaxDepth \in Nat
      /\ \A n \in 0 .. MaxDepth : NodesOf[n] \subseteq Nodes
      /\ \A n \in 1 .. MaxDepth : NodesOf[n - 1] \subseteq NodesOf[n]
  BY Levels
<1>2. ASSUME NEW n \in 0 .. MaxDepth, NEW b \in NodesOf[n], NEW o \in NodesOf[n],
             ~(IsMapping(b) /\ IsMapping(o))
      PROVE  Merges(n, b, o)
  <2>1. b \in Nodes /\ o \in Nodes
    BY <1>1
  <2>2. mergeNodes(b, o) = o
    BY <1>2, <2>1, mergeNodesUnfolds, Zenon
  <2>3. SaysBoth(o, b, o)
    BY <1>2, <2>1, ReplacedSays
  <2>4. QED
    BY <2>2, <2>3, Zenon
<1>3. ASSUME NEW n \in 1 .. MaxDepth, n - 1 \in Good, NEW b \in NodesOf[n], NEW o \in NodesOf[n],
             IsMapping(b), IsMapping(o)
      PROVE  Merges(n, b, o)
  <2> DEFINE f == [key \in Keys |->
                    IF key \notin KeysOf(o) THEN b.entries[key]
                    ELSE IF key \notin KeysOf(b) THEN o.entries[key]
                    ELSE mergeNodes(b.entries[key], o.entries[key])]
             m == Mapping(f)
  <2>1. b \in Nodes /\ o \in Nodes /\ n \in 0 .. MaxDepth
    BY <1>1
  <2>2. mergeNodes(b, o) = m
    BY <1>3, <2>1, mergeNodesUnfolds, Zenon
  <2>3. /\ b.entries \in [Keys -> NodesOf[n - 1] \cup {Absent}]
        /\ o.entries \in [Keys -> NodesOf[n - 1] \cup {Absent}]
    BY <1>3, <2>1, Shape
  <2>4. /\ \A key \in KeysOf(b) : b.entries[key] \in NodesOf[n - 1]
        /\ \A key \in KeysOf(o) : o.entries[key] \in NodesOf[n - 1]
        /\ \A key \in Keys \ KeysOf(b) : b.entries[key] = Absent
        /\ \A key \in Keys \ KeysOf(o) : o.entries[key] = Absent
        /\ KeysOf(b) \subseteq Keys /\ KeysOf(o) \subseteq Keys
    BY <2>3 DEF KeysOf
  <2>5. \A x, y \in NodesOf[n - 1] : Merges(n - 1, x, y)
    BY <1>3, Zenon
  <2>6. \A x \in NodesOf[n - 1] : x # Absent /\ x \in Nodes
    <3>1. n - 1 \in 0 .. MaxDepth
      BY <1>1
    <3>2. QED
      BY <1>1, <3>1, Shape
  <2>7. \A key \in Keys :
            /\ key \in KeysOf(b) \cup KeysOf(o) => f[key] \in NodesOf[n - 1]
            /\ key \notin KeysOf(b) \cup KeysOf(o) => f[key] = Absent
    BY <2>4, <2>5
  <2>8. m.entries = f /\ IsMapping(m)
    BY DEF Mapping, IsMapping
  <2>9. KeysOf(m) = KeysOf(b) \cup KeysOf(o)
    <3> HIDE DEF f, m
    <3>1. QED
      BY <2>4, <2>6, <2>7, <2>8 DEF KeysOf
  <2>10. m \in NodesOf[n]
    <3>1. f \in [Keys -> NodesOf[n - 1] \cup {Absent}]
      BY <2>7
    <3> HIDE DEF f
    <3>2. m \in [entries : [Keys -> NodesOf[n - 1] \cup {Absent}]]
      BY <3>1 DEF Mapping
    <3> HIDE DEF m
    <3>3. QED
      BY <3>2, NodesUnfold
  <2>11. ASSUME NEW key \in KeysOf(b) \cup KeysOf(o), NEW leaf
         PROVE  leaf \in Said(f[key]) <=>
                    \/ key \in KeysOf(o) /\ leaf \in Said(o.entries[key])
                    \/ /\ key \in KeysOf(b) /\ leaf \in Said(b.entries[key])
                       /\ key \in KeysOf(o) => Spared(o.entries[key], leaf)
    <3>1. CASE key \notin KeysOf(o)
      <4>1. f[key] = b.entries[key] /\ key \in KeysOf(b)
        BY <2>4, <2>11, <3>1
      <4> HIDE DEF f
      <4>2. QED
        BY <3>1, <4>1
    <3>2. CASE key \notin KeysOf(b)
      <4>1. f[key] = o.entries[key] /\ key \in KeysOf(o)
        BY <2>4, <2>11, <3>2
      <4> HIDE DEF f
      <4>2. QED
        BY <3>2, <4>1
    <3>3. CASE key \in KeysOf(b) /\ key \in KeysOf(o)
      <4>1. f[key] = mergeNodes(b.entries[key], o.entries[key])
        BY <2>4, <3>3
      <4>2. SaysBoth(mergeNodes(b.entries[key], o.entries[key]), b.entries[key], o.entries[key])
        BY <2>4, <2>5, <3>3
      <4> HIDE DEF f
      <4>3. QED
        BY <3>3, <4>1, <4>2, Zenon DEF SaysBoth
    <3>4. QED
      BY <3>1, <3>2, <3>3
  <2> HIDE DEF f, Merges, Good
  <2>12. \A leaf : leaf \in Said(m) <=>
            \E key \in KeysOf(b) \cup KeysOf(o) : \E below \in Said(f[key]) :
                leaf = Under(key, below)
    <3> HIDE DEF m
    <3>1. m \in Nodes
      BY <1>1, <2>1, <2>10
    <3>2. \A leaf : leaf \in Said(m) <=>
            \E key \in KeysOf(m) : \E below \in Said(m.entries[key]) : leaf = Under(key, below)
      BY <2>8, <3>1, SaidBelow, Zenon
    <3>3. QED
      BY <2>8, <2>9, <3>2, Zenon
  <2> HIDE DEF m
  <2>13. /\ \A leaf : leaf \in Said(b) <=>
                \E key \in KeysOf(b) : \E below \in Said(b.entries[key]) : leaf = Under(key, below)
         /\ \A leaf : leaf \in Said(o) <=>
                \E key \in KeysOf(o) : \E below \in Said(o.entries[key]) : leaf = Under(key, below)
    BY <1>3, <2>1, SaidBelow, Zenon
  <2>14. \A key \in KeysOf(b) : \A below \in Said(b.entries[key]) :
            Spared(o, Under(key, below)) <=> (key \in KeysOf(o) => Spared(o.entries[key], below))
    <3> TAKE key \in KeysOf(b)
    <3> TAKE below \in Said(b.entries[key])
    <3>1. key \in Keys /\ b.entries[key] \in NodesOf[n - 1] /\ n - 1 \in 0 .. MaxDepth
      BY <1>1, <2>4
    <3>2. below.path \in Seq(Keys)
      BY <3>1, LeavesListed DEF Said, Lists
    <3>3. QED
      BY <1>3, <2>1, <3>1, <3>2, SparedBelow
  <2>15. ASSUME NEW leaf \in Said(m)
         PROVE  leaf \in Said(o) \/ (leaf \in Said(b) /\ Spared(o, leaf))
    <3>1. PICK key \in KeysOf(b) \cup KeysOf(o) : \E below \in Said(f[key]) :
                leaf = Under(key, below)
      BY <2>12, <2>15
    <3>2. PICK below \in Said(f[key]) : leaf = Under(key, below)
      BY <3>1
    <3>3. CASE key \in KeysOf(o) /\ below \in Said(o.entries[key])
      BY <2>13, <3>2, <3>3
    <3>4. CASE /\ key \in KeysOf(b) /\ below \in Said(b.entries[key])
               /\ key \in KeysOf(o) => Spared(o.entries[key], below)
      <4>1. leaf \in Said(b)
        BY <2>13, <3>2, <3>4
      <4>2. Spared(o, Under(key, below))
        BY <2>14, <3>4
      <4>3. QED
        BY <3>2, <4>1, <4>2
    <3>5. QED
      BY <2>11, <3>2, <3>3, <3>4, Zenon
  <2>16. ASSUME NEW leaf \in Said(o)
         PROVE  leaf \in Said(m)
    <3>1. PICK key \in KeysOf(o) : \E below \in Said(o.entries[key]) : leaf = Under(key, below)
      BY <2>13, <2>16
    <3>2. PICK below \in Said(o.entries[key]) : leaf = Under(key, below)
      BY <3>1
    <3>3. key \in KeysOf(b) \cup KeysOf(o)
      OBVIOUS
    <3>4. below \in Said(f[key])
      BY <2>11, <3>2, <3>3, Zenon
    <3>5. QED
      BY <2>12, <3>2, <3>3, <3>4
  <2>17. ASSUME NEW leaf \in Said(b), Spared(o, leaf)
         PROVE  leaf \in Said(m)
    <3>1. PICK key \in KeysOf(b) : \E below \in Said(b.entries[key]) : leaf = Under(key, below)
      BY <2>13, <2>17
    <3>2. PICK below \in Said(b.entries[key]) : leaf = Under(key, below)
      BY <3>1
    <3>3. key \in KeysOf(b) \cup KeysOf(o)
      OBVIOUS
    <3>4. key \in KeysOf(o) => Spared(o.entries[key], below)
      BY <2>14, <2>17, <3>2
    <3>5. below \in Said(f[key])
      BY <2>11, <3>2, <3>3, <3>4, Zenon
    <3>6. QED
      BY <2>12, <3>2, <3>3, <3>5
  <2>18. SaysBoth(m, b, o)
    BY <2>15, <2>16, <2>17, Zenon DEF SaysBoth
  <2>19. QED
    BY <2>2, <2>10, <2>18, Zenon DEF Merges
<1>4. 0 \in Good
  <2>1. 0 \in 0 .. MaxDepth /\ 0 \notin 1 .. MaxDepth
    BY <1>1
  <2>2. \A b \in NodesOf[0] : ~IsMapping(b)
    BY <2>1, Below
  <2>3. QED
    BY <1>2, <2>1, <2>2, Zenon
<1>5. \A n \in 1 .. MaxDepth : n - 1 \in Good => n \in Good
  <2> TAKE n \in 1 .. MaxDepth
  <2>1. n \in 0 .. MaxDepth
    BY <1>1
  <2>2. n - 1 \in Good => \A b, o \in NodesOf[n] : Merges(n, b, o)
    BY <1>2, <1>3, <2>1, Zenon
  <2>3. QED
    BY <2>1, <2>2, Zenon
<1>6. d \in Good
  <2> HIDE DEF Good
  <2>1. QED
    BY <1>1, <1>4, <1>5, StepByStep
<1>7. QED
  BY <1>6, Zenon

--------------------------------------------------------------------------------
(* The overlays one after the other.                                       *)

(* c[n] is the config after the first n overlays.                          *)
Builds(c, base, overlays) ==
    /\ GetCollectorConfig(base, overlays) = c[Len(overlays)]
    /\ c[0] = base
    /\ \A n \in 1 .. Len(overlays) :
          c[n] = IF IsMapping(c[n - 1]) /\ IsMapping(overlays[n])
                 THEN mergeNodes(c[n - 1], overlays[n]) ELSE c[n - 1]

(* The recursive function of GetCollectorConfig exists.                    *)
LEMMA ConfigUnfolds ==
    ASSUME NEW base, NEW overlays, Len(overlays) \in Nat
    PROVE  \E c : Builds(c, base, overlays)
<1> DEFINE Body(g, n) == IF n = 0 THEN base
                         ELSE IF IsMapping(g[n - 1]) /\ IsMapping(overlays[n])
                         THEN mergeNodes(g[n - 1], overlays[n])
                         ELSE g[n - 1]
           Unfold(g, m) == [n \in 0 .. m |-> Body(g, n)]
           Good == {m \in Nat : \E g : g = Unfold(g, m)}
           c == CHOOSE g : g = Unfold(g, Len(overlays))
<1>1. GetCollectorConfig(base, overlays) = c[Len(overlays)]
  BY Zenon DEF GetCollectorConfig
<1>2. 0 \in Good
  <2> DEFINE one == [n \in 0 .. 0 |-> base]
  <2>1. one = Unfold(one, 0)
    OBVIOUS
  <2> HIDE DEF one, Unfold
  <2>2. QED
    BY <2>1
<1>3. ASSUME NEW m \in 1 .. Len(overlays), m - 1 \in Good PROVE m \in Good
  <2>1. m \in Nat
    OBVIOUS
  <2>2. PICK g : g = Unfold(g, m - 1)
    BY <1>3, Zenon
  <2> HIDE DEF Good
  <2> DEFINE h == Unfold(g, m)
  <2>3. \A n \in 0 .. m - 1 : h[n] = g[n]
    <3> TAKE n \in 0 .. m - 1
    <3> HIDE DEF Body
    <3>1. g[n] = Body(g, n)
      BY <2>2
    <3>2. n \in 0 .. m
      BY <2>1
    <3>3. h[n] = Body(g, n)
      BY <3>2
    <3>4. QED
      BY <3>1, <3>3, Zenon
  <2>4. \A n \in 0 .. m : Body(g, n) = Body(h, n)
    <3> HIDE DEF h
    <3> TAKE n \in 0 .. m
    <3>1. n # 0 => n - 1 \in 0 .. m - 1
      BY <2>1
    <3>2. n # 0 => h[n - 1] = g[n - 1]
      BY <2>3, <3>1
    <3>3. QED
      BY <3>2, Zenon
  <2>5. h = Unfold(h, m)
    <3>1. Unfold(g, m) = Unfold(h, m)
      <4> HIDE DEF h, Body
      <4>1. QED
        BY <2>4, Zenon
    <3>2. QED
      BY <3>1, Zenon
  <2> HIDE DEF h, Unfold
  <2>6. QED
    BY <2>1, <2>5 DEF Good
<1>4. Len(overlays) \in Good
  <2>1. \A m \in 1 .. Len(overlays) : m - 1 \in Good => m \in Good
    BY <1>3, Zenon
  <2> HIDE DEF Good
  <2>2. QED
    BY <1>2, <2>1, StepByStep
<1>5. c = Unfold(c, Len(overlays))
  BY <1>4, Zenon
<1> HIDE DEF c
<1>6. \A n \in 0 .. Len(overlays) : c[n] = Body(c, n)
  <2> HIDE DEF Body
  <2>1. QED
    BY <1>5, Zenon
<1>7. 0 \in 0 .. Len(overlays) /\ \A n \in 1 .. Len(overlays) : n \in 0 .. Len(overlays) /\ n # 0
  OBVIOUS
<1>8. Builds(c, base, overlays)
  BY <1>1, <1>6, <1>7, Zenon DEF Builds
<1>9. QED
  BY <1>8, Zenon

(* What is said after the first n overlays, documents[i] being the leaves  *)
(* of the i-th.                                                            *)
SaidOf(documents, n) ==
    {leaf \in UNION {documents[i] : i \in 0 .. n} :
        /\ ~IsEmpty(leaf.node)
        /\ \E i \in 0 .. n :
            /\ leaf \in documents[i]
            /\ \A m \in i + 1 .. n : \A later \in documents[m] : ~Displaces(later, leaf)}

(* One more document says what it says, and leaves of the others what it   *)
(* does not displace.                                                      *)
LEMMA SaidGrows ==
    ASSUME NEW n \in Nat \ {0}, NEW documents, NEW leaf
    PROVE  leaf \in SaidOf(documents, n) <=>
            \/ leaf \in documents[n] /\ ~IsEmpty(leaf.node)
            \/ /\ leaf \in SaidOf(documents, n - 1)
               /\ \A later \in documents[n] : ~Displaces(later, leaf)
<1>1. /\ n \in 0 .. n /\ n + 1 .. n = {}
      /\ \A i \in 0 .. n : i = n \/ i \in 0 .. n - 1
      /\ \A i \in 0 .. n - 1 : i \in 0 .. n /\ n \in i + 1 .. n
      /\ \A i \in 0 .. n - 1 : \A m \in i + 1 .. n : m = n \/ m \in i + 1 .. n - 1
      /\ \A i \in 0 .. n - 1 : \A m \in i + 1 .. n - 1 : m \in i + 1 .. n
  OBVIOUS
<1> DEFINE Lasts(i, k) == \A m \in i + 1 .. k : \A later \in documents[m] : ~Displaces(later, leaf)
<1>2. \A k : leaf \in SaidOf(documents, k) <=>
            ~IsEmpty(leaf.node) /\ \E i \in 0 .. k : leaf \in documents[i] /\ Lasts(i, k)
  BY DEF SaidOf
<1>3. Lasts(n, n)
  BY <1>1
<1>4. \A i \in 0 .. n - 1 : Lasts(i, n) <=>
            Lasts(i, n - 1) /\ \A later \in documents[n] : ~Displaces(later, leaf)
  <2> TAKE i \in 0 .. n - 1
  <2>1. Lasts(i, n) => Lasts(i, n - 1) /\ \A later \in documents[n] : ~Displaces(later, leaf)
    BY <1>1, Zenon
  <2>2. Lasts(i, n - 1) /\ (\A later \in documents[n] : ~Displaces(later, leaf)) => Lasts(i, n)
    BY <1>1, Zenon
  <2>3. QED
    BY <2>1, <2>2
<1> HIDE DEF Lasts
<1>5. QED
  BY <1>1, <1>2, <1>3, <1>4, Zenon

(* The leaves that count of the i-th document, the base being the 0-th.    *)
Documents(base, overlays) ==
    [n \in 0 .. Len(overlays) |->
        IF n = 0 THEN Leaves(base)
        ELSE IF IsMapping(overlays[n]) THEN Leaves(overlays[n]) ELSE {}]

(* What the config says is what no later overlay displaces.                *)
LEMMA ConfigSays ==
    ASSUME NEW base \in Nodes, IsMapping(base), NEW overlays \in Seq(Nodes)
    PROVE  Said(GetCollectorConfig(base, overlays)) = SaidOf(Documents(base, overlays), Len(overlays))
<1>1. Len(overlays) \in Nat /\ \A n \in 1 .. Len(overlays) : overlays[n] \in Nodes
  OBVIOUS
<1> PICK c : Builds(c, base, overlays)
  BY <1>1, ConfigUnfolds
<1>2. /\ GetCollectorConfig(base, overlays) = c[Len(overlays)]
      /\ c[0] = base
      /\ \A n \in 1 .. Len(overlays) :
            c[n] = IF IsMapping(c[n - 1]) /\ IsMapping(overlays[n])
                   THEN mergeNodes(c[n - 1], overlays[n]) ELSE c[n - 1]
  BY Zenon DEF Builds
<1> DEFINE l == Documents(base, overlays)
           Good == {n \in 0 .. Len(overlays) :
                        /\ c[n] \in Nodes /\ IsMapping(c[n])
                        /\ \A leaf : leaf \in Said(c[n]) <=> leaf \in SaidOf(l, n)}
<1>3. /\ l[0] = Leaves(base)
      /\ \A n \in 1 .. Len(overlays) :
            l[n] = IF IsMapping(overlays[n]) THEN Leaves(overlays[n]) ELSE {}
  BY <1>1 DEF Documents
<1> HIDE DEF l
<1>4. 0 \in Good
  <2>1. 0 \in 0 .. Len(overlays) /\ 0 .. 0 = {0} /\ 0 + 1 .. 0 = {}
    BY <1>1
  <2>2. \A leaf : leaf \in SaidOf(l, 0) <=> leaf \in l[0] /\ ~IsEmpty(leaf.node)
    BY <2>1 DEF SaidOf
  <2>3. \A leaf : leaf \in Said(base) <=> leaf \in SaidOf(l, 0)
    BY <1>3, <2>2 DEF Said
  <2>4. QED
    BY <1>2, <2>1, <2>3
<1>5. ASSUME NEW n \in 1 .. Len(overlays), n - 1 \in Good PROVE n \in Good
  <2>1. n \in Nat \ {0} /\ n \in 0 .. Len(overlays)
    BY <1>1
  <2>2. /\ c[n - 1] \in Nodes /\ IsMapping(c[n - 1])
        /\ \A leaf : leaf \in Said(c[n - 1]) <=> leaf \in SaidOf(l, n - 1)
    BY <1>5, Zenon
  <2>3. \A leaf : leaf \in SaidOf(l, n) <=>
            \/ leaf \in l[n] /\ ~IsEmpty(leaf.node)
            \/ leaf \in Said(c[n - 1]) /\ \A later \in l[n] : ~Displaces(later, leaf)
    BY <2>1, <2>2, SaidGrows, Zenon
  <2>4. CASE ~IsMapping(overlays[n])
    <3>1. c[n] = c[n - 1] /\ l[n] = {}
      BY <1>2, <1>3, <1>5, <2>4
    <3>2. \A leaf : leaf \in SaidOf(l, n) <=> leaf \in Said(c[n - 1])
      BY <2>3, <3>1
    <3>3. QED
      BY <2>1, <2>2, <3>1, <3>2, Zenon
  <2>5. CASE IsMapping(overlays[n])
    <3>1. c[n] = mergeNodes(c[n - 1], overlays[n]) /\ l[n] = Leaves(overlays[n])
      BY <1>2, <1>3, <1>5, <2>2, <2>5, Zenon
    <3>2. MaxDepth \in 0 .. MaxDepth
      BY Levels
    <3>3. c[n] \in Nodes /\ SaysBoth(c[n], c[n - 1], overlays[n])
      BY <1>1, <1>5, <2>2, <3>1, <3>2, MergedSays DEF Nodes
    <3>4. IsMapping(c[n])
      BY <1>1, <1>5, <2>2, <2>5, <3>1, MergedIsMapping
    <3>5. \A leaf : leaf \in Said(c[n]) <=> leaf \in SaidOf(l, n)
      <4> TAKE leaf
      <4>1. leaf \in Said(c[n]) <=>
                \/ leaf \in Said(overlays[n])
                \/ leaf \in Said(c[n - 1]) /\ Spared(overlays[n], leaf)
        BY <3>3, Zenon DEF SaysBoth
      <4>2. leaf \in Said(overlays[n]) <=> leaf \in l[n] /\ ~IsEmpty(leaf.node)
        BY <3>1 DEF Said
      <4>3. Spared(overlays[n], leaf) <=> \A later \in l[n] : ~Displaces(later, leaf)
        BY <3>1, Zenon DEF Spared
      <4>4. leaf \in SaidOf(l, n) <=>
                \/ leaf \in l[n] /\ ~IsEmpty(leaf.node)
                \/ leaf \in Said(c[n - 1]) /\ \A later \in l[n] : ~Displaces(later, leaf)
        BY <2>3, Zenon
      <4>5. QED
        BY <4>1, <4>2, <4>3, <4>4, Zenon
    <3>6. QED
      BY <2>1, <3>3, <3>4, <3>5, Zenon
  <2>6. QED
    BY <2>4, <2>5
<1>6. Len(overlays) \in Good
  <2>1. \A n \in 1 .. Len(overlays) : n - 1 \in Good => n \in Good
    BY <1>5, Zenon
  <2> HIDE DEF Good
  <2>2. QED
    BY <1>1, <1>4, <2>1, StepByStep
<1>7. \A leaf : leaf \in Said(c[Len(overlays)]) <=> leaf \in SaidOf(l, Len(overlays))
  BY <1>6, Zenon
<1> HIDE DEF Good
<1>8. Said(c[Len(overlays)]) = SaidOf(l, Len(overlays))
  BY <1>7
<1>9. QED
  BY <1>2, <1>8, Zenon DEF l

--------------------------------------------------------------------------------
(* The tests.                                                              *)

(* The config is always that of the overlays applied so far.               *)
Made ==
    /\ applied \in Seq(Overlays)
    /\ config = GetCollectorConfig(Base, applied)

(* Without overlays the config is the example.                             *)
LEMMA NothingApplied == <<>> \in Seq(Overlays) /\ GetCollectorConfig(Base, <<>>) = Base
<1>1. Len(<<>>) = 0 /\ <<>> \in Seq(Overlays)
  OBVIOUS
<1>2. PICK c : Builds(c, Base, <<>>)
  BY <1>1, ConfigUnfolds
<1>3. GetCollectorConfig(Base, <<>>) = c[Len(<<>>)] /\ c[0] = Base
  BY <1>2, Zenon DEF Builds
<1>4. QED
  BY <1>1, <1>3

(* Every config comes from GetCollectorConfig.                             *)
LEMMA ConfigIsMade == ConfiguredSpec => []Made
<1>1. ConfiguredInit => Made
  BY NothingApplied DEF ConfiguredInit, Made
<1>2. Made /\ [ConfiguredNext]_<<vars, config_vars>> => Made'
  <2>1. SUFFICES ASSUME Made, [ConfiguredNext]_<<vars, config_vars>> PROVE Made'
    OBVIOUS
  <2>2. CASE Configure
    <3>1. CASE ~At("objects") /\ At("objects")'
      <4>1. PICK n \in 0 .. MaxOverlays : applied' \in [1 .. n -> Overlays]
        BY <2>2, <3>1 DEF Configure
      <4>2. n \in Nat
        BY <4>1, OverlaysAssumption
      <4>3. applied' \in Seq(Overlays)
        BY <4>1, <4>2
      <4>4. config' = GetCollectorConfig(Base, applied')
        BY <2>2, <3>1 DEF Configure
      <4>5. QED
        BY <4>3, <4>4 DEF Made
    <3>2. CASE At("objects") /\ ~At("objects")'
      <4>1. applied' = <<>> /\ config' = Base
        BY <2>2, <3>2 DEF Configure
      <4>2. QED
        BY <4>1, NothingApplied DEF Made
    <3>3. CASE UNCHANGED config_vars
      BY <2>1, <3>3 DEF Made, config_vars
    <3>4. QED
      BY <2>2, <3>1, <3>2, <3>3 DEF Configure
  <2>3. CASE UNCHANGED <<vars, config_vars>>
    BY <2>1, <2>3 DEF Made, config_vars
  <2>4. QED
    BY <2>1, <2>2, <2>3 DEF ConfiguredNext
<1>3. QED
  BY <1>1, <1>2, PTL DEF ConfiguredSpec

(* With overlays that are mappings nothing displaces what none replaces,   *)
(* and with plain ones nothing else is left.                               *)
LEMMA OverlaidSays ==
    ASSUME NEW base, NEW overlays, Len(overlays) \in Nat,
           \A n \in 1 .. Len(overlays) : IsMapping(overlays[n])
    PROVE  LET said == SaidOf(Documents(base, overlays), Len(overlays)) IN
           /\ Filled(Overlaid(base, overlays)) \subseteq said
           /\ (\A n \in 1 .. Len(overlays) : IsPlain(overlays[n])) =>
                  said \subseteq Filled(Overlaid(base, overlays))
<1> DEFINE last == Len(overlays)
           l == [n \in 0 .. last |-> Leaves(IF n = 0 THEN base ELSE overlays[n])]
<1>0. Overlaid(base, overlays) =
          UNION {{leaf \in l[n] : \A m \in n + 1 .. last : \A later \in l[m] :
                    ~Overrides(later, leaf)} : n \in 0 .. last}
  BY Zenon DEF Overlaid
<1>1. /\ \A n \in 0 .. last : n = 0 \/ n \in 1 .. last
      /\ \A n \in 0 .. last : \A m \in n + 1 .. last : m \in 1 .. last
  OBVIOUS
<1>2. /\ l = Documents(base, overlays)
      /\ \A n \in 1 .. last : l[n] = Leaves(overlays[n])
  BY <1>1 DEF Documents
<1> HIDE DEF l
<1>3. \A leaf : leaf \in Filled(Overlaid(base, overlays)) <=>
          /\ ~IsEmpty(leaf.node)
          /\ \E n \in 0 .. last :
                 /\ leaf \in l[n]
                 /\ \A m \in n + 1 .. last : \A later \in l[m] : ~Overrides(later, leaf)
  BY <1>0 DEF Filled
<1>4. \A leaf : leaf \in SaidOf(l, last) <=>
          /\ ~IsEmpty(leaf.node)
          /\ \E n \in 0 .. last :
                 /\ leaf \in l[n]
                 /\ \A m \in n + 1 .. last : \A later \in l[m] : ~Displaces(later, leaf)
  BY DEF SaidOf
<1>5. \A later, leaf : Displaces(later, leaf) => Overrides(later, leaf)
  BY Zenon DEF Displaces, Overrides
<1>6. Filled(Overlaid(base, overlays)) \subseteq SaidOf(l, last)
  BY <1>3, <1>4, <1>5, Zenon
<1>7. ASSUME \A n \in 1 .. last : IsPlain(overlays[n])
      PROVE  SaidOf(l, last) \subseteq Filled(Overlaid(base, overlays))
  <2>1. \A n \in 0 .. last : \A m \in n + 1 .. last : \A later \in l[m] : ~IsEmpty(later.node)
    BY <1>1, <1>2, <1>7, Zenon DEF IsPlain
  <2>2. \A later, leaf : ~IsEmpty(later.node) /\ Overrides(later, leaf) => Displaces(later, leaf)
    BY Zenon DEF Displaces, Overrides
  <2>3. QED
    BY <1>3, <1>4, <2>1, <2>2, Zenon
<1>8. QED
  BY <1>2, <1>6, <1>7, Zenon

(* The config that the collector gets, for any example, any overlays that  *)
(* are mappings and however many of them GetCollectorConfig merges: it     *)
(* loses nothing, at any depth, that no later overlay replaces, and if no  *)
(* overlay has an empty mapping it holds nothing else, so that later       *)
(* overlays win (collector.go:23).                                         *)
THEOREM LaterOverlaysWin == ConfiguredSpec => []OverlaysWin
<1>1. Made => OverlaysWin
  <2>1. SUFFICES ASSUME Made, \A n \in DOMAIN applied : IsMapping(applied[n])
                 PROVE  /\ Filled(Overlaid(Base, applied)) \subseteq Filled(Leaves(config))
                        /\ (\A n \in DOMAIN applied : IsPlain(applied[n])) =>
                               Filled(Leaves(config)) = Filled(Overlaid(Base, applied))
    BY Zenon DEF OverlaysWin
  <2>2. applied \in Seq(Nodes)
    <3>1. \A i \in 1 .. Len(applied) : applied[i] \in Nodes
      BY <2>1, OverlaysAssumption DEF Made
    <3>2. QED
      BY <2>1, <3>1, SeqOfElements DEF Made
  <2>3. Len(applied) \in Nat /\ DOMAIN applied = 1 .. Len(applied)
    BY <2>2
  <2>4. Said(config) = SaidOf(Documents(Base, applied), Len(applied))
    BY <2>1, <2>2, OverlaysAssumption, ConfigSays DEF Made
  <2>5. Filled(Leaves(config)) = Said(config)
    BY DEF Filled, Said
  <2>6. /\ Filled(Overlaid(Base, applied)) \subseteq Said(config)
        /\ (\A n \in 1 .. Len(applied) : IsPlain(applied[n])) =>
               Said(config) \subseteq Filled(Overlaid(Base, applied))
    BY <2>1, <2>3, <2>4, OverlaidSays, Zenon
  <2>7. QED
    BY <2>3, <2>5, <2>6
<1>2. QED
  BY <1>1, ConfigIsMade, PTL

(* A test in a cluster that makes its config is a test of IntegrationTest. *)
LEMMA ConfiguredIsTest == ConfiguredSpec => Spec
<1>1. ConfiguredInit => Init
  BY DEF ConfiguredInit
<1>2. [ConfiguredNext]_<<vars, config_vars>> => [Next]_vars
  BY DEF ConfiguredNext
<1>3. QED
  BY <1>1, <1>2, PTL DEF ConfiguredSpec, Spec

(* So what IntegrationTest_proofs shows of tests holds of those that make  *)
(* their config: a test cleans up whichever step fails, stops collectors   *)
(* before sinks as far as CollectorsStopFirst says, and, for data that     *)
(* KeysTellApart, compares without regard to order and passes only for     *)
(* what its own collector has delivered.                                   *)
THEOREM ConfiguredTestHolds ==
    /\ ConfiguredSpec => [](TypeOK /\ CleanEnd /\ CollectorsStopFirst)
    /\ KeysTellApart => (ConfiguredSpec => []NormalForm)
    /\ ConfiguredSpec => []((kind \in Files => KeysTellApart) /\ (OnHost \/ StrayIsForeign) =>
                                PassedDelivered)
<1>1. ConfiguredSpec => [](TypeOK /\ CleanEnd /\ CollectorsStopFirst)
  BY ConfiguredIsTest, TestTypeCorrect, TestCleansUp, SinksOutliveCollectors, PTL
<1>2. KeysTellApart => (ConfiguredSpec => []NormalForm)
  BY ConfiguredIsTest, ComparisonDisregardsOrder, PTL
<1>3. ConfiguredSpec => []((kind \in Files => KeysTellApart) /\ (OnHost \/ StrayIsForeign) =>
                              PassedDelivered)
  BY ConfiguredIsTest, PassingIsEarned, PTL
<1>4. QED
  BY <1>1, <1>2, <1>3
================================================================================
