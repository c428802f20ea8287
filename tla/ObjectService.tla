---------------------------- MODULE ObjectService ----------------------------
(***************************************************************************)
(* What a CSI caller may rely on for every volume, and for every snapshot,  *)
(* whichever plugin serves it and whatever fails on the way: an object that *)
(* was acknowledged is complete and stays complete until its deletion is    *)
(* requested; a deletion that was acknowledged leaves nothing behind, and   *)
(* nothing comes back after it.  The plugins' modules instantiate this one  *)
(* with their own commands and states mapped onto "made".                   *)
(***************************************************************************)
CONSTANT Obj            \* volumes, or snapshots

VARIABLES
    made,               \* [Obj -> "absent" | "partial" | "ready"]
    wanted, acked,      \* creates requested, creates acknowledged
    delWanted, gone     \* deletes requested, deletes acknowledged

vars == <<made, wanted, acked, delWanted, gone>>

\* Objects may exist, acknowledged, before the driver starts.
Init ==
    /\ acked \subseteq Obj /\ wanted = acked
    /\ made = [o \in Obj |-> IF o \in acked THEN "ready" ELSE "absent"]
    /\ delWanted = {} /\ gone = {}

Request(o) ==
    /\ wanted' = wanted \cup {o}
    /\ UNCHANGED <<made, acked, delWanted, gone>>

\* Until a create is acknowledged its attempts may build, lose and rebuild the
\* object; a plugin that restarts ends all of them at once.
Work ==
    /\ made' \in [Obj -> {"absent", "partial", "ready"}]
    /\ \A o \in Obj : o \in wanted \ acked \/ made'[o] = made[o]
    /\ UNCHANGED <<wanted, acked, delWanted, gone>>

Acknowledge(o) ==
    /\ o \in wanted /\ made[o] = "ready"
    /\ acked' = acked \cup {o}
    /\ UNCHANGED <<made, wanted, delWanted, gone>>

RequestDelete(o) ==
    /\ o \in acked
    /\ delWanted' = delWanted \cup {o}
    /\ UNCHANGED <<made, wanted, acked, gone>>

\* An object whose deletion was requested only ever falls apart.
Remove(o) ==
    /\ o \in delWanted
    /\ \/ made[o] = "ready" /\ made' = [made EXCEPT ![o] = "partial"]
       \/ made' = [made EXCEPT ![o] = "absent"]
    /\ UNCHANGED <<wanted, acked, delWanted, gone>>

\* The acknowledgement may come with the last removal.
AcknowledgeDelete(o) ==
    /\ o \in delWanted
    /\ made' = [made EXCEPT ![o] = "absent"]
    /\ gone' = gone \cup {o}
    /\ UNCHANGED <<wanted, acked, delWanted>>

Next ==
    \/ Work
    \/ \E o \in Obj : \/ Request(o) \/ Acknowledge(o)
                      \/ RequestDelete(o) \/ Remove(o) \/ AcknowledgeDelete(o)

Spec == Init /\ [][Next]_vars
=============================================================================
