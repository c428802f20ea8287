------------------------------ MODULE NodeMounts ------------------------------
(***************************************************************************)
(* One node's mounts, and the handlers every plugin repeats: NodeStage asks *)
(* findmnt before it mounts, NodePublish asks findmnt before it binds and   *)
(* remounts a read-only target, NodeUnpublish and NodeUnstage unmount and   *)
(* take "not mounted" for success.  The plugins' modules instantiate this   *)
(* one and add what is their own (formatting, keys, growing).  The kubelet  *)
(* retries a call until it succeeds and undoes what it started.             *)
(***************************************************************************)
CONSTANTS
    Vol,         \* volumes, each with its staging path and one target path
    ReadOnly     \* volumes published read-only

VARIABLES
    node,        \* node handler per volume: its next command
    mnt,         \* volumes mounted at their staging path
    bind,        \* [Vol -> "none" | "rw" | "ro"]: the target path's mount
    using,       \* volumes the kubelet has begun to stage and not unstaged
    staged, published   \* what the kubelet was told

vars == <<node, mnt, bind, using, staged, published>>

Init ==
    /\ node = [v \in Vol |-> "idle"]
    /\ mnt = {} /\ bind = [v \in Vol |-> "none"]
    /\ using = {} /\ staged = {} /\ published = {}

Goto(v, pc) == node' = [node EXCEPT ![v] = pc]

StageCall(v, first) ==
    /\ node[v] = "idle" /\ v \notin staged
    /\ using' = using \cup {v}
    /\ Goto(v, first)
    /\ UNCHANGED <<mnt, bind, staged, published>>

\* mount, unless a retry finds the staging path mounted.
Mount(v, next) ==
    /\ node[v] = "mount"
    /\ mnt' = mnt \cup {v}
    /\ Goto(v, next)
    /\ UNCHANGED <<bind, using, staged, published>>

StageReply(v) ==
    /\ node[v] = "staged"
    /\ staged' = staged \cup {v}
    /\ Goto(v, "idle")
    /\ UNCHANGED <<mnt, bind, using, published>>

\* Mutant of Unstage: an umount that failed is taken for "not mounted".
UnstageLeaves(v) ==
    /\ node[v] = "idle" /\ v \in using \ published /\ bind[v] = "none"
    /\ using' = using \ {v} /\ staged' = staged \ {v}
    /\ UNCHANGED <<node, mnt, bind, published>>

Unstage(v) ==
    /\ node[v] = "idle" /\ v \in using \ published /\ bind[v] = "none"
    /\ mnt' = mnt \ {v}
    /\ using' = using \ {v} /\ staged' = staged \ {v}
    /\ UNCHANGED <<node, bind, published>>

PublishCall(v) ==
    /\ node[v] = "idle" /\ v \in staged \ published
    /\ Goto(v, "bind")
    /\ UNCHANGED <<mnt, bind, using, staged, published>>

\* A target that is mounted already is taken as published; a read-only one is
\* remounted once it is bound.
Bind(v) ==
    /\ node[v] = "bind"
    /\ bind' = [bind EXCEPT ![v] = IF @ = "none" THEN "rw" ELSE @]
    /\ LET remount == bind[v] = "none" /\ v \in ReadOnly IN
         /\ Goto(v, IF remount THEN "remount" ELSE "idle")
         /\ published' = IF remount THEN published ELSE published \cup {v}
    /\ UNCHANGED <<mnt, using, staged>>

Remount(v) ==
    /\ node[v] = "remount"
    /\ bind' = [bind EXCEPT ![v] = "ro"]
    /\ published' = published \cup {v}
    /\ Goto(v, "idle")
    /\ UNCHANGED <<mnt, using, staged>>

Unpublish(v) ==
    /\ node[v] = "idle" /\ (bind[v] # "none" \/ v \in published)
    /\ bind' = [bind EXCEPT ![v] = "none"]
    /\ published' = published \ {v}
    /\ UNCHANGED <<node, mnt, using, staged>>

\* A handler dies between two commands.
Interrupt(v) ==
    /\ node[v] # "idle" /\ Goto(v, "idle")
    /\ UNCHANGED <<mnt, bind, using, staged, published>>

\* What the kubelet was told is so: a staged volume is mounted, a published one is
\* bound beneath its staging mount, and a volume it unstaged is mounted nowhere.
ToldIsSo ==
    /\ staged \subseteq mnt /\ mnt \subseteq using /\ published \subseteq staged
    /\ \A v \in Vol : /\ bind[v] # "none" => v \in staged
                      /\ v \in published => bind[v] # "none"
=============================================================================
