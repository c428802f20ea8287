------------------------------ MODULE MCRbdNode ------------------------------
(* Instances of RbdNode for TLC. *)
EXTENDS RbdNode, TLC

CONSTANTS n1, n2, v1, v2, rbd0, nbd0

NodeSymmetry == Permutations(Node)
AnyNode == [v \in Vol |-> Node]
=============================================================================
