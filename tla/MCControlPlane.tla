--------------------------- MODULE MCControlPlane ---------------------------
(* Instances of ControlPlane small enough for TLC. *)
EXTENDS ControlPlane, TLC

CONSTANTS o1, o2, o3, a1, a2, e1, crash, patch

\* o2 is a child of o1.
OneChild == [o \in Objectives |-> IF o = o1 THEN Objectives \cap {o2} ELSE {}]

NoAdmin       == {}
CodeOnce      == {<<"coding_cycle", 1>>}
CodeTwice     == {<<"coding_cycle", 2>>}

\* Workers of one capability are alike.
AgentSymmetry == Permutations(Agents)
=============================================================================
