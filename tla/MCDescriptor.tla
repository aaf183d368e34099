---------------------------- MODULE MCDescriptor ----------------------------
(***************************************************************************)
(* The syntax trees offered to StdDescr::from_str: a top-level call with   *)
(* one or two arguments, nested calls two levels deep, and argument lists  *)
(* of keys, tap trees and the literals 0, 1, 2 (thresholds below, at and   *)
(* above the key count) and 16 (one above the u4 range).  Every keyword of *)
(* the grammar appears at every level where the code tests for it.         *)
(***************************************************************************)
EXTENDS Descriptor

Atoms == {K, T, L(0), L(1), L(2), L(16)}

ArgLists ==
  {<<a>> : a \in Atoms} \cup {<<a, b>> : a, b \in Atoms}
  \cup {<<a, K, K>> : a \in Atoms} \cup {<<L(1), K, b>> : b \in Atoms}

InnerCalls == {Call(n, s) : n \in {"multi", "sortedmulti", "multi_a"}, s \in ArgLists}

MiddleCalls ==
  {Call(n, s) : n \in {"wpkh", "wsh", "multi", "sortedmulti", "multi_a", "sortedmulti_a"},
                s \in ArgLists \cup {<<S(c)>> : c \in InnerCalls}}

TopArgLists ==
  {<<a>> : a \in Atoms} \cup {<<a, b>> : a, b \in Atoms}
  \cup {<<S(m)>> : m \in MiddleCalls} \cup {<<a, S(m)>> : a \in {K, L(1)}, m \in MiddleCalls}

MCInputs == {Call(n, s) : n \in {"pkh", "wpkh", "sh", "wsh", "tr", "multi"}, s \in TopArgLists}
=============================================================================
