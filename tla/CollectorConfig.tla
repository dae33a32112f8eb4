---------------------------- MODULE CollectorConfig ----------------------------
(***************************************************************************)
(* The config of a collector in a cluster: an example of the repository    *)
(* with the overlays of a test laid over it                                *)
(* (src/internal/testcommon/k8stest/collector.go).                         *)
(*                                                                         *)
(* A YAML node is a mapping or a leaf: a scalar or a sequence.  The order  *)
(* of the keys of a mapping, the substitution of variables in the text,    *)
(* before it is parsed, and the indentation after it are left out.         *)
(***************************************************************************)
EXTENDS Naturals, Sequences, SequencesExt

CONSTANTS
    Keys, Values,   \* the keys of mappings and what leaves hold
    MaxDepth        \* bound on how deep mappings are nested

ASSUME DepthAssumption == MaxDepth \in Nat

(* A mapping has a node, or none, for every key.                           *)
Leaf(value)      == [leaf |-> value]
Mapping(entries) == [entries |-> entries]
Absent           == [absent |-> TRUE]

IsMapping(node) == "entries" \in DOMAIN node

KeysOf(node) == {key \in Keys : node.entries[key] # Absent}

NodesOf[depth \in 0 .. MaxDepth] ==
    IF depth = 0 THEN [leaf : Values]
    ELSE NodesOf[depth - 1] \cup [entries : [Keys -> NodesOf[depth - 1] \cup {Absent}]]

Nodes == NodesOf[MaxDepth]

(* Fault: a key of the overlay takes the place of that of the base.        *)
MutReplaceKeys(base, overlay) ==
    IF IsMapping(base) /\ IsMapping(overlay)
    THEN Mapping([key \in Keys |-> IF key \in KeysOf(overlay) THEN overlay.entries[key]
                                   ELSE base.entries[key]])
    ELSE overlay

(* A key that both mappings have is merged in its place, a new one comes   *)
(* last; whatever is not two mappings becomes a copy of the overlay.       *)
mergeNodes(base, overlay) ==
    LET merged[node \in Nodes] == [over \in Nodes |->
            IF IsMapping(node) /\ IsMapping(over)
            THEN Mapping([key \in Keys |->
                    IF key \notin KeysOf(over) THEN node.entries[key]
                    ELSE IF key \notin KeysOf(node) THEN over.entries[key]
                    ELSE merged[node.entries[key]][over.entries[key]]])
            ELSE over]
    IN  merged[base][overlay]

(* The overlays are merged into the base one after the other.  What        *)
(* mergeNodes returns is dropped, so that only a mapping takes effect.     *)
GetCollectorConfig(base, overlays) ==
    LET config[n \in 0 .. Len(overlays)] ==
            IF n = 0 THEN base
            ELSE IF IsMapping(config[n - 1]) /\ IsMapping(overlays[n])
            THEN mergeNodes(config[n - 1], overlays[n])
            ELSE config[n - 1]
    IN  config[Len(overlays)]

--------------------------------------------------------------------------------
(* The leaves of a node with their paths.  A mapping without keys is one.  *)
IsEmpty(node) == IsMapping(node) /\ KeysOf(node) = {}

Under(key, leaf) == [path |-> <<key>> \o leaf.path, node |-> leaf.node]

Leaves(tree) ==
    LET leaves[node \in Nodes] ==
            IF ~IsMapping(node) \/ IsEmpty(node) THEN {[path |-> <<>>, node |-> node]}
            ELSE UNION {{Under(key, leaf) : leaf \in leaves[node.entries[key]]} :
                            key \in KeysOf(node)}
    IN  leaves[tree]

(* What a later document has at, above or below the path of a leaf takes   *)
(* the place of it, an empty mapping too.                                  *)
Overrides(later, leaf) ==
    IsPrefix(leaf.path, later.path) \/ IsPrefix(later.path, leaf.path)

(* "Overlays are YAML strings applied in order; later ones win."           *)
(* (collector.go:23), leaf by leaf: one stays unless a later document has  *)
(* one that overrides it.                                                  *)
Overlaid(base, overlays) ==
    LET leaves == [n \in 0 .. Len(overlays) |->
            Leaves(IF n = 0 THEN base ELSE overlays[n])]
    IN  UNION {{leaf \in leaves[n] :
            \A m \in n + 1 .. Len(overlays) : \A later \in leaves[m] :
                ~Overrides(later, leaf)} : n \in 0 .. Len(overlays)}

(* A mapping that says something with every key it has, at every depth.    *)
IsPlain(node) == IsMapping(node) /\ \A leaf \in Leaves(node) : ~IsEmpty(leaf.node)
================================================================================
