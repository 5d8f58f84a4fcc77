---------------------------- MODULE MCSingleton ----------------------------
(* Instances of Singleton for TLC: pids are interchangeable.                *)
EXTENDS Singleton, TLC

CONSTANTS p1, p2, p3

MCPids == {p1, p2, p3}
PidSymmetry == Permutations(MCPids)
=============================================================================
