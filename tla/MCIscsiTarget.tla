---------------------------- MODULE MCIscsiTarget ----------------------------
(* Instances of IscsiTarget for TLC. *)
EXTENDS IscsiTarget, TLC

CONSTANTS a, b, t1, t2

OneTarget == [v \in Disk |-> t1]
TwoTargets == (a :> t1) @@ (b :> t2)

Setup(t, vs, n, out, f, r) ==
    [target |-> t, vols |-> vs, portals |-> n, removable |-> out, faults |-> f,
     reboots |-> r]

\* Two volumes on a targetd instance, and under local management; one volume
\* under local management behind two portals (volumes do not interact there);
\* two volumes on a targetd instance behind two portals, without faults.  One
\* volume whose instance is taken out of the configuration, on one portal and on
\* two.
MCSetups ==
    {Setup(OneTarget, Disk, 1, FALSE, 1, 1), Setup(TwoTargets, Disk, 1, FALSE, 1, 1),
     Setup(TwoTargets, {a}, 2, FALSE, 2, 1), Setup(OneTarget, Disk, 2, FALSE, 0, 0),
     Setup(TwoTargets, {a}, 1, TRUE, 1, 1), Setup(TwoTargets, {a}, 2, TRUE, 1, 0)}
=============================================================================
