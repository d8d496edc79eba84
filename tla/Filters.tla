-------------------------------- MODULE Filters --------------------------------
(***************************************************************************)
(* Array.prototype.filter: the elements of a sequence that are in a set,   *)
(* in their order.  It is SelectSeq with the test given as a set, written  *)
(* as a recursive function so that FilterProofs can say what it does.      *)
(***************************************************************************)
EXTENDS Naturals, Sequences

Filter(s, T) ==
  LET kept[i \in 0 .. Len(s)] ==
        IF i = 0 THEN <<>> ELSE IF s[i] \in T THEN Append(kept[i - 1], s[i]) ELSE kept[i - 1]
  IN  kept[Len(s)]
===============================================================================
