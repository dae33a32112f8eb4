------------------------------ MODULE Selections -------------------------------
(***************************************************************************)
(* Parts of sequences.  The tools that drop lines from a text or elements  *)
(* from a slice do so in place, in one pass, and keep the order.           *)
(***************************************************************************)
EXTENDS Integers, SequencesExt

(* The elements at the other positions; kept[n] are those of the first n.  *)
Without(s, dropped) ==
    LET kept[n \in 0 .. Len(s)] ==
            IF n = 0 THEN <<>>
            ELSE IF n \in dropped THEN kept[n - 1]
            ELSE Append(kept[n - 1], s[n])
    IN  kept[Len(s)]

(* The elements that pass the test: SelectSeq, in a form that can be       *)
(* reasoned about position by position.                                    *)
Chosen(s, Test(_)) == Without(s, {i \in DOMAIN s : ~Test(s[i])})

(* How often e occurs.                                                     *)
Times(e, s) == Cardinality({i \in DOMAIN s : s[i] = e})

================================================================================
