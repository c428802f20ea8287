------------------------------ MODULE MCRbdKeys ------------------------------
(* Instances of RbdKeys for TLC. *)
EXTENDS RbdKeys, TLC

CONSTANTS base, copy, restore, s1, j1, j2

\* copy is a PVC-PVC clone of base, restore comes from the snapshot s1 of base.
MCSource == [v \in Vol |-> CASE v = copy    -> base
                             [] v = restore -> s1
                             [] OTHER       -> None]
MCSnapOf == [s \in Snap |-> base]

\* A snapshot, a restore of it and one rotation, with a fault anywhere; two
\* rotations at once beside a PVC-PVC clone; and two KMIP rotations with a fault.
MCPlans ==
    {[objs |-> {base, restore, s1}, jobs |-> 1, keys |-> 2, uids |-> 4,
      faults |-> 1, kinds |-> {"metadata", "vault", "azure", "kmip"}],
     [objs |-> {base, copy}, jobs |-> 2, keys |-> 3, uids |-> 1,
      faults |-> 0, kinds |-> {"vault"}],
     [objs |-> {base}, jobs |-> 2, keys |-> 3, uids |-> 4,
      faults |-> 1, kinds |-> {"kmip"}]}

Jobs == Permutations(Job)
=============================================================================
