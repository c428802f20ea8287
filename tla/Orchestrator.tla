----------------------------- MODULE Orchestrator -----------------------------
(***************************************************************************)
(* The Kubernetes side of the controller calls, shared by the plugins'      *)
(* modules: external-provisioner and external-snapshotter ask for volumes   *)
(* and snapshots until they are told, and delete what they were given.      *)
(* Beside it, the program counter of the one handler that may be at work on *)
(* an object (the driver's claim admits one): "idle", the plugin's own      *)
(* steps, "reply" before a create's response, "removed" before a delete's.  *)
(***************************************************************************)
CONSTANT Obj     \* volumes and snapshots

VARIABLES
    ctl,                \* [Obj -> the handler's next step]
    wanted, acked,      \* creates asked for, creates acknowledged
    delWanted, gone     \* deletes asked for, deletes acknowledged

vars == <<ctl, wanted, acked, delWanted, gone>>

Init ==
    /\ ctl = [o \in Obj |-> "idle"]
    /\ wanted = {} /\ acked = {} /\ delWanted = {} /\ gone = {}

\* Objects the caller holds and has not begun to delete.
Held == acked \ delWanted

Create(o, first) ==
    /\ ctl[o] = "idle" /\ o \notin acked
    /\ wanted' = wanted \cup {o}
    /\ ctl' = [ctl EXCEPT ![o] = first]
    /\ UNCHANGED <<acked, delWanted, gone>>

Step(o, from, to) ==
    /\ ctl[o] = from
    /\ ctl' = [ctl EXCEPT ![o] = to]
    /\ UNCHANGED <<wanted, acked, delWanted, gone>>

Reply(o) ==
    /\ ctl[o] = "reply"
    /\ acked' = acked \cup {o}
    /\ ctl' = [ctl EXCEPT ![o] = "idle"]
    /\ UNCHANGED <<wanted, delWanted, gone>>

Delete(o, first) ==
    /\ ctl[o] = "idle" /\ o \in acked \ gone
    /\ delWanted' = delWanted \cup {o}
    /\ ctl' = [ctl EXCEPT ![o] = first]
    /\ UNCHANGED <<wanted, acked, gone>>

DeleteReply(o) ==
    /\ ctl[o] = "removed"
    /\ gone' = gone \cup {o}
    /\ ctl' = [ctl EXCEPT ![o] = "idle"]
    /\ UNCHANGED <<wanted, acked, delWanted>>

\* The handler dies between two steps: a command failed, the deadline passed or
\* the process ended.
Interrupt(o) ==
    /\ ctl[o] # "idle"
    /\ ctl' = [ctl EXCEPT ![o] = "idle"]
    /\ UNCHANGED <<wanted, acked, delWanted, gone>>

=============================================================================
