----------------------------- MODULE MCCsiAddons -----------------------------
(* Volume groups alone; enabling a clone; planned failovers without and with a    *)
(* schedule, and with disabling; forced failovers behind a fence of A, without     *)
(* and with disabling.                                                             *)
EXTENDS CsiAddons, TLC

CONSTANTS A, B, n1, n2, i1, i2, i3

Plan(c, w, f, g, calls) ==
    [clone |-> c, interval |-> TRUE, writes |-> w, faults |-> f, forces |-> g, calls |-> calls,
     fences |-> IF "force" \in calls THEN {A} ELSE {}, groups |-> calls = {}]

MCPlans ==
    {Plan(FALSE, 0, 0, 0, {}),
     Plan(TRUE, 1, 2, 0, {"enable"}),
     [Plan(FALSE, 1, 1, 0, {"enable", "promote", "demote"}) EXCEPT !.interval = FALSE],
     Plan(FALSE, 2, 1, 0, {"enable", "promote", "demote"}),
     Plan(FALSE, 2, 1, 0, {"enable", "disable", "promote", "demote"}),
     Plan(FALSE, 1, 1, 1, {"enable", "unfence", "force", "demote", "resync"}),
     Plan(FALSE, 0, 1, 1, {"enable", "disable", "unfence", "force", "demote"})}

MCInstanceOf == i1 :> "x" @@ i2 :> "x" @@ i3 :> "y"
=============================================================================
