----------------------------- MODULE ConfiguredTest ----------------------------
(***************************************************************************)
(* The tests of IntegrationTest with the config that those in a cluster    *)
(* make for their collector.                                               *)
(***************************************************************************)
EXTENDS IntegrationTest, CollectorConfig

CONSTANTS
    Base,           \* the example config
    Overlays,       \* the overlays to choose from
    MaxOverlays     \* bound on those of one test

ASSUME OverlaysAssumption ==
    /\ Base \in Nodes /\ IsMapping(Base)
    /\ Overlays \subseteq Nodes
    /\ MaxOverlays \in Nat

VARIABLES
    applied,        \* the overlays a test has applied
    config          \* the config made of them, until the collector has it

config_vars == <<applied, config>>

ConfiguredInit == Init /\ applied = <<>> /\ config = Base

(* A test in a cluster reads its overlays in the order it names them in,   *)
(* and hands the config to the collector in the next step.                 *)
Configure ==
    IF ~At("objects") /\ At("objects")'
    THEN /\ \E n \in 0 .. MaxOverlays : applied' \in [1 .. n -> Overlays]
         /\ config' = GetCollectorConfig(Base, applied')
    ELSE IF At("objects") /\ ~At("objects")'
    THEN applied' = <<>> /\ config' = Base
    ELSE UNCHANGED config_vars

ConfiguredNext == Next /\ Configure

ConfiguredSpec ==
    /\ ConfiguredInit
    /\ [][ConfiguredNext]_<<vars, config_vars>>
    /\ WF_<<vars, config_vars>>(Progress /\ Configure)
    /\ WF_<<vars, config_vars>>(PollTimeout /\ Configure)

Filled(leaves) == {leaf \in leaves : ~IsEmpty(leaf.node)}

(* With overlays that are mappings the config loses nothing that no later  *)
(* overlay replaces, at any depth; with overlays without empty mappings it *)
(* holds that and nothing else.                                            *)
OverlaysWin ==
    At("objects") /\ (\A n \in DOMAIN applied : IsMapping(applied[n])) =>
        /\ Filled(Overlaid(Base, applied)) \subseteq Filled(Leaves(config))
        /\ (\A n \in DOMAIN applied : IsPlain(applied[n])) =>
                Filled(Leaves(config)) = Filled(Overlaid(Base, applied))

(* "Overlays are YAML strings applied in order; later ones win."           *)
(* (k8stest/collector.go:23): the config says what the last one says.      *)
LastOverlayWins ==
    At("objects") /\ applied # <<>> => Leaves(Last(applied)) \subseteq Leaves(config)
================================================================================
