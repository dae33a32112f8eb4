---------------------------- MODULE MCChangelogRun ----------------------------
(* Two repositories, whose pull requests are pushed to, and the components of the
   four kinds: in the manifest under another spelling, allowed, denied, unknown. *)
EXTENDS ChangelogRun

filelog == <<"receiver", "file_log">>
ottl == <<"pkg", "ottl", "funcs">>
denied == <<"internal", "filter">>
other == <<"receiver", "other">>

MCNormalized == [c \in {filelog, ottl, denied, other} |->
                    IF c = filelog THEN <<"receiver", "filelog">> ELSE c]
MCManifest == {<<"receiver", "filelog">>, denied}
MCMainLists == {<<filelog, denied>>}
MCCfg == [allowlist |-> {[path |-> <<"pkg", "ottl">>, glob |-> FALSE], [path |-> <<"internal">>, glob |-> TRUE]},
          denylist |-> {[path |-> <<"internal">>, glob |-> TRUE]}]

File(component, type, logs) ==
    [named |-> TRUE, component |-> component, changeType |-> type, changeLogs |-> logs]

Template == [File(other, "bug_fix", {}) EXCEPT !.named = FALSE]
Sets(beta, contrib, stable) ==
    ("beta" :> beta) @@ ("contrib-base" :> contrib) @@ ("stable" :> stable)

MCSource == ("core" :> "core") @@ ("contrib" :> "contrib") @@ ("issue" :> None)
MCPulls ==
    ("core" :> <<[sets |-> Sets(2, None, 3),
                  tree |-> {File(ottl, "enhancement", {}), Template}],
                 [sets |-> Sets(Malformed, None, 3),
                  tree |-> {File(ottl, "enhancement", {})}]>>) @@
    ("contrib" :> <<[sets |-> Sets(None, 1, None),
                     tree |-> {File(filelog, "bug_fix", {"user"}), File(denied, "breaking", {})}],
                    [sets |-> Sets(None, None, 3),
                     tree |-> {File(filelog, "breaking", {"user", "api"}),
                               File(other, "deprecation", {}),
                               File(ottl, "bug_fix", {"api"}), File(ottl, "unknown", {})}]>>) @@
    ("issue" :> <<[sets |-> Sets(None, None, None), tree |-> None]>>)
MCArguments == {<<>>, <<"core">>, <<"core", "contrib">>, <<"contrib", "core">>,
                <<"contrib", "contrib">>, <<"issue">>}
=============================================================================
