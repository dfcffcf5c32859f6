-------------------------- MODULE MCPolicyRegistry --------------------------
(* Instances of PolicyRegistry for TLC. *)
EXTENDS PolicyRegistry, TLC

CONSTANTS a1, a2

(* Every pair of simple ids (either polarity) at the first two custom      *)
(* counters, and lists the registry must reject: a composite or a built-in *)
(* as a child, too few children, too many.                                 *)
SimpleIds    == [inverted : BOOLEAN, type : SimpleTypes, counter : 2..3]
CompositeIds == [inverted : BOOLEAN, type : CompositeTypes, counter : 3..4]
MCChildLists ==
  {<<x, y>> : x, y \in SimpleIds}
    \union {<<x, x>> : x \in CompositeIds \union {ALWAYS_ALLOW_ID}}
    \union {<<x>> : x \in SimpleIds}
    \union {<<x, x, x>> : x \in SimpleIds}

Accounts1 == {a1}
Accounts2 == {a1, a2}
Symmetry  == Permutations(Accounts2)
=============================================================================
