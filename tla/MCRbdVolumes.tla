---------------------------- MODULE MCRbdVolumes ----------------------------
(* Small instances of RbdVolumes for TLC. *)
EXTENDS RbdVolumes

CONSTANTS base, restore, copy, s1

\* restore is made from snapshot s1 of base, copy is a PVC-PVC clone of base.
MCSrcVol == [v \in Vol |-> IF v \in {restore, copy} THEN base ELSE None]
MCSrcSnap == [v \in Vol |-> IF v = restore THEN s1 ELSE None]
MCReqSize == [v \in Vol |-> IF v = base THEN 1 ELSE 2]

\* The snapshot is asked of base, or, under the same name, also of its copy.
MCSnapFrom == [s \in Snap |-> {base}]
TwoSources == [s \in Snap |-> {base, copy}]

=============================================================================
