---------------------------- MODULE MCPreparation ----------------------------
(* Two sources.  The loader of "a" serves a second row later, which is the *)
(* first row of "b"; the bits of key 4 are covered by those of the keys 1  *)
(* and 2, a false positive of the filter.  Replayed behind the second row, *)
(* "b" has to go on to its third.                                          *)
EXTENDS Preparation

MCOrder == <<"a", "b">>
MCUpstream == [s \in {"a", "b"} |-> IF s = "a" THEN <<1, 2>> ELSE <<2, 4, 3>>]
MCEarly == [s \in {"a", "b"} |-> IF s = "a" THEN 1 ELSE 3]
MCNeeded == [s \in {"a", "b"} |-> 2]
MCSufficient == [s \in {"a", "b"} |-> IF s = "a" THEN 2 ELSE 1]
MCWorld == [r \in {"reader", "auto"} |-> IF r = "auto" THEN 2 ELSE 1]
MCBits == [k \in 1..4 |-> IF k = 4 THEN {1, 2} ELSE {k}]
=============================================================================
