----------------------------- MODULE MCEECProvider -----------------------------
(* Instances of EECProvider for TLC.                                       *)
EXTENDS EECProvider, TLC

(* The third configuration a server publishes is a revert to the first.    *)
MCRevert == [v \in 1 .. MaxVersion |-> IF v = 3 THEN 1 ELSE v]

(* Every published configuration is new.                                   *)
MCDistinct == [v \in 1 .. MaxVersion |-> v]

(* Goroutines are interchangeable.                                         *)
WatcherSymmetry == Permutations(Watchers)
================================================================================
