-------------------------- MODULE MCCephFsVolumes --------------------------
(***************************************************************************)
(* A volume and a second one that is, by plan, restored from a snapshot of  *)
(* the first, cloned from it over an NFS instance, a shallow view of the    *)
(* snapshot, or an independent encrypted volume.                            *)
(***************************************************************************)
EXTENDS CephFsVolumes

CONSTANTS base, copy, s1

MCPlan(from, shallow, encrypted, nfs) ==
    [src |-> [v \in Vol |-> IF v = copy THEN from ELSE None],
     shallow |-> shallow, encrypted |-> encrypted, nfs |-> nfs]

MCPlans == {MCPlan(s1, {}, {}, FALSE), MCPlan(base, {}, {}, TRUE),
            MCPlan(s1, {copy}, {}, FALSE), MCPlan(None, {}, {copy}, FALSE)}

MCReqSize == [v \in Vol |-> IF v = base THEN 1 ELSE 2]
=============================================================================
