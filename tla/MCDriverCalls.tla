--------------------------- MODULE MCDriverCalls ---------------------------
(* The driver and a scan beside it: configurations, objects and scenarios. *)
EXTENDS Inspect, TLC

CONSTANTS vol, other, snap, copy, i1, i2, z1, z2

CR(t, i, z, d) == [type |-> t, inst |-> i, zone |-> z, dflt |-> d, plugin |-> "sock"]

One      == {CR("rbd", i1, z1, TRUE)}
Both     == {CR("rbd", i1, z1, FALSE), CR("rbd", i2, z2, TRUE)}
TwoDflt  == {CR("rbd", i1, z1, TRUE), CR("rbd", i2, z2, TRUE)}
OneZone  == {CR("rbd", i1, z1, TRUE), CR("rbd", i2, z1, FALSE)}
Other    == {CR("nfs", i1, z1, FALSE)}
NoPick   == {CR("rbd", i1, z1, FALSE), CR("rbd", i2, z2, FALSE)}

MCSets == {One, Both, TwoDflt, OneZone, Other, NoPick}
MCTopologies == {<<>>, <<z1, z2>>}
MCOrigin == vol :> None @@ other :> None @@ snap :> vol @@ copy :> snap
MCSnapshots == {snap}

Nothing == [o \in Objects |-> None]

\* The driver alone: edits of the configuration, trouble with a reload, deadlines
\* and restarts, beside the calls ops on objs.
Plan(objs, first, e, t, d, r, ops) ==
    [objs |-> objs, made |-> Nothing, slots |-> Slots,
     first |-> first, mode |-> "list", edits |-> e, trouble |-> t, deadlines |-> d,
     restarts |-> r, ops |-> ops,
     scans |-> 0, losses |-> 0, skips |-> FALSE, elsewhere |-> {}, shallow |-> {},
     local |-> FALSE, nodes |-> {}, instances |-> {}]

Node(name, zone, reported, registered) ==
    [name |-> name, zone |-> zone, reported |-> reported, registered |-> registered,
     keyed |-> reported # ""]
Fine   == Node("n1", z1, z1, TRUE)
Moved  == Node("n2", z2, z1, TRUE)
Bare   == Node("n3", "", "", TRUE)
Unused == Node("n4", "", "", FALSE)

\* Scans beside the calls ops on objs, with failing reads or without.
Scan(objs, first, e, d, ops, l, skips, elsewhere, nodeset) ==
    [Plan(objs, first, e, 0, d, 0, ops) EXCEPT
        !.slots = {1}, !.mode = "watch", !.scans = 1, !.losses = l,
        !.skips = skips, !.elsewhere = elsewhere, !.nodes = nodeset, !.instances = {i1, i2}]

MCPlans ==
    {Plan({}, MCSets, 3, 2, 0, 1, {}),
     Plan({vol, snap, copy}, {One}, 2, 0, 1, 0, {"create"}),
     Plan({vol}, {Both}, 1, 0, 2, 1, {"create", "delete", "expand"}),
     Plan({vol, snap}, {One}, 0, 0, 1, 1, {"create", "delete"}),
     Plan({vol}, {One}, 0, 0, 1, 0, {"create", "attach", "detach", "modify", "expand"}),
     Plan({vol}, {One}, 0, 0, 1, 0, {"create", "stage", "unstage", "publish", "unpublish", "grow"}),
     Scan({}, MCSets, 0, 0, {}, 0, TRUE, {}, {Fine, Moved, Bare, Unused}),
     [Scan({vol, other}, {Both}, 0, 1, {"delete"}, 1, FALSE, {}, {}) EXCEPT
         !.made = [Nothing EXCEPT ![vol] = i1, ![other] = i2]],
     [Scan({vol, snap, copy}, {One}, 0, 1, {"delete"}, 1, FALSE, {}, {}) EXCEPT
         !.made = [Nothing EXCEPT ![vol] = i1, ![snap] = i1, ![copy] = i1], !.shallow = {copy}],
     [Scan({vol}, {One}, 0, 1, {"create", "delete"}, 1, FALSE, {}, {}) EXCEPT !.local = TRUE],
     [Scan({vol}, {One}, 0, 1, {"create", "delete"}, 0, FALSE, {}, {}) EXCEPT !.slots = Slots],
     Scan({vol, snap}, {One}, 0, 1, {"create", "delete"}, 1, FALSE, {vol}, {}),
     Scan({vol}, {One}, 0, 1, {"create", "delete"}, 1, TRUE, {}, {}),
     Scan({vol}, {One}, 1, 1, {"create"}, 0, FALSE, {}, {}),
     Scan({vol}, {One}, 0, 0, {"create", "delete", "attach", "detach"}, 1, FALSE, {}, {Fine, Moved})}
=============================================================================
