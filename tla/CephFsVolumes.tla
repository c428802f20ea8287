---------------------------- MODULE CephFsVolumes ----------------------------
(***************************************************************************)
(* The CephFS plugin: volumes are subvolumes made by the ceph CLI, copied   *)
(* by the cluster's asynchronous clone workers, exported over NFS on some   *)
(* instances and fscrypt-encrypted on others; a shallow volume is only a    *)
(* path into a snapshot.  Every command that changes something is a step.   *)
(* Left out, having no bearing on the rest: the subvolume group, the owner  *)
(* labels and the MDS pin, all set again on every try.                      *)
(***************************************************************************)
EXTENDS Integers, FiniteSetsExt

CONSTANTS
    Vol, Snap,   \* volumes and snapshots
    None,
    Plans,       \* set of [src, shallow, encrypted, nfs]: see Instance
    SnapFrom,    \* volumes a snapshot name is asked of
    ReqSize,     \* [Vol -> Nat]: requested size
    ReadOnly,    \* volumes published read-only
    MaxSize,     \* bound: largest size ExpandVolume asks for
    MaxFaults    \* bound: dead handlers, failed clones, restarts

Obj == Vol \cup Snap

\* A subvolume: how far its clone is, its quota, what it is a copy of, and whether its
\* metadata has the KMS id.
Subvolume == [state : {"pending", "complete", "failed"}, size : Nat,
              from : Obj \cup {None}, kmsID : BOOLEAN]

\* Encrypted clones, encrypted shallow volumes and volumes encrypted on an NFS
\* instance are refused before any work, as are shallow ones on NFS.
ASSUME Instance ==
    /\ None \notin Obj \cup Subvolume /\ Vol \cap Snap = {}
    /\ \A p \in Plans :
         /\ p.src \in [Vol -> Obj \cup {None}] /\ p.nfs \in BOOLEAN
         /\ p.shallow \subseteq {v \in Vol : p.src[v] \in Snap}
         /\ p.encrypted \subseteq {v \in Vol : p.src[v] = None}
         /\ p.nfs => p.shallow \cup p.encrypted = {}
    /\ SnapFrom \subseteq Vol /\ ReadOnly \subseteq Vol
    /\ MaxSize \in Nat /\ ReqSize \in [Vol -> 1..MaxSize] /\ MaxFaults \in Nat

VARIABLES
    plan,        \* the plan of this behaviour (fixed)
    sub,         \* the subvolumes: Subvolume, or None
    snaps,       \* their snapshots: <<subvolume, name>>; a clone of volume v
                 \* takes a temporary one, named v
    export,      \* subvolumes the NFS gateway exports
    key,         \* volumes with a key stored in the KMS
    keyring,     \* mounts whose fscrypt key was added
    snapIndex,   \* the plugin's memory: snapshot name -> source, or None
    snapOf,      \* source volume of the snapshot call in progress, or served
    cap,         \* capacity the orchestrator was told
    ctl, wanted, acked, delWanted, gone,              \* see Orchestrator
    node, mnt, bind, using, staged, published,        \* see NodeMounts
    faults

Calls == INSTANCE Orchestrator
Mounts == INSTANCE NodeMounts
asked == <<plan, snapOf, cap>>
secret == <<key, keyring>>
callVars == <<ctl, wanted, acked, delWanted, gone>>
mountVars == <<node, mnt, bind, using, staged, published>>
cluster == <<sub, snaps, export>>
vars == <<asked, cluster, secret, snapIndex, callVars, mountVars, faults>>

Src(v) == plan.src[v]
SnapsOf(v) == {p \in snaps : p[1] = v}
Larger(a, b) == IF a > b THEN a ELSE b

Init ==
    /\ plan \in Plans
    /\ sub = [v \in Vol |-> None] /\ snaps = {} /\ export = {}
    /\ key = {} /\ keyring = {}
    /\ snapIndex = [s \in Snap |-> None] /\ snapOf = [s \in Snap |-> None]
    /\ cap = [v \in Vol |-> 0]
    /\ Calls!Init /\ Mounts!Init /\ faults = 0

\* What a command of a controller handler leaves alone, the cluster aside.
Command == UNCHANGED <<asked, secret, snapIndex, mountVars, faults>>
\* A step of a controller handler that runs no command.
Control == UNCHANGED <<cluster, secret, snapIndex, mountVars, faults>>

-----------------------------------------------------------------------------
(* CreateVolume *)

CreateCall(v) ==
    /\ Src(v) # None => Src(v) \in Calls!Held
    /\ Calls!Create(v, IF v \in plan.shallow THEN "path"
                       ELSE IF Src(v) = None THEN "create"
                       ELSE IF Src(v) \in Snap THEN "clone" ELSE "tmpSnap")
    /\ Control /\ UNCHANGED asked

\* createShallowVolume only asks for the path of the snapshot's subvolume.
CreateShallow(v) ==
    /\ Calls!Step(v, "path", IF sub[snapOf[Src(v)]] # None THEN "reply" ELSE "idle")
    /\ Control /\ UNCHANGED asked

\* subvolume create: an existing one is fine.
CreateFresh(v) ==
    /\ Calls!Step(v, "create", "record")
    /\ sub' = [sub EXCEPT ![v] = IF @ # None THEN @ ELSE
                 [state |-> "complete", size |-> ReqSize[v], from |-> None,
                  kmsID |-> FALSE]]
    /\ Command /\ UNCHANGED <<snaps, export>>

\* cloneFromVolume: a snapshot of the source, for this copy only; a shallow source
\* has no subvolume to take it of.
CloneTmpSnap(v) ==
    LET ok == sub[Src(v)] # None IN
    /\ Calls!Step(v, "tmpSnap", IF ok THEN "clone" ELSE "idle")
    /\ snaps' = IF ok THEN snaps \cup {<<Src(v), v>>} ELSE snaps
    /\ Command /\ UNCHANGED <<sub, export>>

\* The snapshot a clone is made from, and the subvolume that has it.
Vehicle(v) == IF Src(v) \in Snap THEN <<snapOf[Src(v)], Src(v)>> ELSE <<Src(v), v>>

\* snapshot clone starts the copy; a target that exists already is fine.
CloneStart(v) ==
    LET ok == sub[v] # None \/ Vehicle(v) \in snaps IN
    /\ Calls!Step(v, "clone", IF ok THEN "wait" ELSE "idle")
    /\ sub' = IF ok /\ sub[v] = None
              THEN [sub EXCEPT ![v] = [state |-> "pending", from |-> Src(v),
                      size |-> sub[Vehicle(v)[1]].size, kmsID |-> FALSE]]
              ELSE sub
    /\ Command /\ UNCHANGED <<snaps, export>>

\* Mutant of CloneWait: any end of the clone will do.
CloneWaitEnds(v) ==
    /\ sub[v] # None => sub[v].state # "pending"
    /\ Calls!Step(v, "wait", IF Src(v) \in Snap THEN "resize" ELSE "dropTmp")
    /\ Command /\ UNCHANGED cluster

\* waitClone polls until the copy is complete; a failed target is removed, and
\* the call fails.
CloneWait(v) ==
    /\ sub[v] # None => sub[v].state # "pending"
    /\ LET done == sub[v] # None /\ sub[v].state = "complete" IN
         /\ Calls!Step(v, "wait", IF ~done THEN "idle"
                                  ELSE IF Src(v) \in Snap THEN "resize" ELSE "dropTmp")
         /\ sub' = IF done THEN sub ELSE [sub EXCEPT ![v] = None]
    /\ Command /\ UNCHANGED <<snaps, export>>

\* The temporary snapshot is dropped; that it could not be is ignored.
CloneDropTmp(v) ==
    /\ Calls!Step(v, "dropTmp", "resize")
    /\ \/ snaps' = snaps \ {<<Src(v), v>>} /\ faults' = faults
       \/ snaps' = snaps /\ faults < MaxFaults /\ faults' = faults + 1
    /\ UNCHANGED <<asked, secret, snapIndex, mountVars, sub, export>>

\* subvolume resize --no_shrink
CloneResize(v) ==
    /\ Calls!Step(v, "resize", "record")
    /\ sub' = [sub EXCEPT ![v].size = Larger(@, ReqSize[v])]
    /\ Command /\ UNCHANGED <<snaps, export>>

\* recordEncryption: the KMS id, in the subvolume's metadata.
CreateRecord(v) ==
    /\ Calls!Step(v, "record", IF plan.nfs THEN "export" ELSE "reply")
    /\ sub' = [sub EXCEPT ![v].kmsID = v \in plan.encrypted]
    /\ Command /\ UNCHANGED <<snaps, export>>

CreateExport(v) ==
    /\ Calls!Step(v, "export", "reply")
    /\ export' = export \cup {v}
    /\ Command /\ UNCHANGED <<sub, snaps>>

\* The response reports the request, whatever the quota is.
CreateReply(v) ==
    /\ Calls!Reply(v)
    /\ cap' = [cap EXCEPT ![v] = ReqSize[v]]
    /\ Control /\ UNCHANGED <<plan, snapOf>>

-----------------------------------------------------------------------------
(* DeleteVolume, ExpandVolume *)

\* A shallow volume owns nothing: its deletion is acknowledged at once.
DeleteCall(v) ==
    /\ v \notin using
    /\ \A w \in (wanted \ acked) \cap Vol : Src(w) # v
    /\ Calls!Delete(v, IF v \in plan.shallow THEN "removed"
                       ELSE IF plan.nfs THEN "unexport" ELSE "dropKey")
    /\ Control /\ UNCHANGED asked

DeleteExport(v) ==
    /\ Calls!Step(v, "unexport", "dropKey")
    /\ export' = export \ {v}
    /\ Command /\ UNCHANGED <<sub, snaps>>

\* Mutant of DeleteKey: the key is left for the removal of the subvolume.
DeleteKeyNot(v) == Calls!Step(v, "dropKey", "reap") /\ Control /\ UNCHANGED asked

\* deleteEncryptionKey: the KMS id is read from the subvolume's metadata; no
\* subvolume, no id.
DeleteKey(v) ==
    /\ Calls!Step(v, "dropKey", "reap")
    /\ key' = IF sub[v] # None /\ sub[v].kmsID THEN key \ {v} ELSE key
    /\ UNCHANGED <<asked, cluster, keyring, snapIndex, mountVars, faults>>

\* Mutant of DeleteReap: temporary snapshots of dead clones are left.
DeleteReapNot(v) == Calls!Step(v, "reap", "remove") /\ Command /\ UNCHANGED cluster

\* reapTmpCloneSnaps
DeleteReap(v) ==
    /\ Calls!Step(v, "reap", "remove")
    /\ snaps' = {p \in snaps : p[1] = v => p[2] \in Snap}
    /\ Command /\ UNCHANGED <<sub, export>>

\* subvolume rm is refused while snapshots are left.
DeleteRemove(v) ==
    LET ok == SnapsOf(v) = {} IN
    /\ Calls!Step(v, "remove", IF ok THEN "removed" ELSE "idle")
    /\ sub' = IF ok THEN [sub EXCEPT ![v] = None] ELSE sub
    /\ Command /\ UNCHANGED <<snaps, export>>

\* subvolume resize to the new size; no node step is needed.
Expand(v) ==
    /\ v \in Calls!Held \ plan.shallow /\ ctl[v] = "idle" /\ cap[v] < MaxSize
    /\ sub' = [sub EXCEPT ![v].size = cap[v] + 1]
    /\ cap' = [cap EXCEPT ![v] = cap[v] + 1]
    /\ UNCHANGED <<plan, snapOf, snaps, export, secret, snapIndex, callVars, mountVars, faults>>

-----------------------------------------------------------------------------
(* CreateSnapshot, DeleteSnapshot *)

\* The name is bound to its source in the plugin's memory, or refused, before
\* the command.
SnapCall(s, v) ==
    /\ v \in (SnapFrom \cap Calls!Held) \ plan.shallow
    /\ snapIndex[s] \in {None, v}
    /\ Calls!Create(s, "snap")
    /\ snapIndex' = [snapIndex EXCEPT ![s] = v]
    /\ snapOf' = [snapOf EXCEPT ![s] = v]
    /\ UNCHANGED <<plan, cap, cluster, secret, mountVars, faults>>

\* snapshot create: an existing one is fine, a missing subvolume is not.
SnapCreate(s) ==
    LET ok == sub[snapOf[s]] # None IN
    /\ Calls!Step(s, "snap", IF ok THEN "reply" ELSE "idle")
    /\ snaps' = IF ok THEN snaps \cup {<<snapOf[s], s>>} ELSE snaps
    /\ Command /\ UNCHANGED <<sub, export>>

\* A snapshot that is being copied is not deleted (the provisioner's finalizer).
UnsnapCall(s) ==
    /\ \A w \in (wanted \ acked) \cap Vol : Src(w) # s
    /\ Calls!Delete(s, "unsnap")
    /\ Control /\ UNCHANGED asked

\* snapshot rm --force, then the name is released.
UnsnapRemove(s) ==
    /\ Calls!Step(s, "unsnap", "removed")
    /\ snaps' = snaps \ {<<snapOf[s], s>>}
    /\ snapIndex' = [snapIndex EXCEPT ![s] = None]
    /\ UNCHANGED <<asked, secret, mountVars, faults, sub, export>>

Respond(n) ==
    /\ (n \in Snap /\ Calls!Reply(n)) \/ Calls!DeleteReply(n)
    /\ Control /\ UNCHANGED asked

-----------------------------------------------------------------------------
(* The node *)

NodeOnly == UNCHANGED <<asked, cluster, snapIndex, callVars, faults>>

StageCall(v) ==
    /\ v \in Calls!Held
    /\ Mounts!StageCall(v, "mount")
    /\ NodeOnly /\ UNCHANGED secret

\* Mutant of StageMount: a retry that finds the staging path mounted is done.
StageMountDone(v) ==
    /\ Mounts!Mount(v, IF v \in plan.encrypted /\ v \notin mnt THEN "key" ELSE "staged")
    /\ NodeOnly /\ UNCHANGED secret

\* The mount is skipped on a retry, the key is not.
StageMount(v) ==
    /\ Mounts!Mount(v, IF v \in plan.encrypted THEN "key" ELSE "staged")
    /\ NodeOnly /\ UNCHANGED secret

\* The passphrase, made and stored by the first call that needs it, then
\* SetupFscrypt: the key into the mount's keyring, the policy on the directory.
StageKey(v) ==
    /\ node[v] = "key" /\ node' = [node EXCEPT ![v] = "staged"]
    /\ key' = key \cup {v} /\ keyring' = keyring \cup {v}
    /\ NodeOnly /\ UNCHANGED <<mnt, bind, using, staged, published>>

StageReply(v) == Mounts!StageReply(v) /\ NodeOnly /\ UNCHANGED secret

\* umount; the keyring goes with the mount.
NodeUnstage(v) ==
    /\ Mounts!Unstage(v)
    /\ keyring' = keyring \ {v}
    /\ NodeOnly /\ UNCHANGED key

NodePublish(v) ==
    /\ Mounts!PublishCall(v) \/ Mounts!Bind(v) \/ Mounts!Remount(v)
    /\ NodeOnly /\ UNCHANGED secret

NodeUnpublish(v) == Mounts!Unpublish(v) /\ NodeOnly /\ UNCHANGED secret

-----------------------------------------------------------------------------
(* The cluster's clone workers, and what goes wrong *)

CloneEnds(v) ==
    /\ sub[v] # None /\ sub[v].state = "pending"
    /\ \/ sub' = [sub EXCEPT ![v].state = "complete"] /\ faults' = faults
       \/ /\ sub' = [sub EXCEPT ![v].state = "failed"]
          /\ faults < MaxFaults /\ faults' = faults + 1
    /\ UNCHANGED <<asked, snaps, export, secret, snapIndex, callVars, mountVars>>

Interrupt(n) ==
    /\ faults < MaxFaults /\ faults' = faults + 1
    /\ \/ Calls!Interrupt(n) /\ UNCHANGED mountVars
       \/ n \in Vol /\ Mounts!Interrupt(n) /\ UNCHANGED callVars
    /\ UNCHANGED <<asked, cluster, secret, snapIndex>>

\* The controller plugin restarts: its handlers and its memory are gone.
Restart ==
    /\ faults < MaxFaults /\ faults' = faults + 1
    /\ ctl' = [n \in Obj |-> "idle"] /\ snapIndex' = [s \in Snap |-> None]
    /\ UNCHANGED <<asked, cluster, secret, mountVars, wanted, acked, delWanted, gone>>

\* The steps of the handler at work on n, and the orchestrator's retries.
Handler(n) ==
    \/ /\ n \in Vol
       /\ \/ n \in wanted /\ CreateCall(n)
          \/ CreateShallow(n) \/ CreateFresh(n) \/ CloneTmpSnap(n) \/ CloneStart(n)
          \/ CloneWait(n) \/ CloneDropTmp(n) \/ CloneResize(n) \/ CreateRecord(n)
          \/ CreateExport(n) \/ CreateReply(n)
          \/ n \in delWanted /\ DeleteCall(n)
          \/ DeleteExport(n) \/ DeleteKey(n) \/ DeleteReap(n) \/ DeleteRemove(n)
          \/ CloneEnds(n)
    \/ /\ n \in Snap
       /\ SnapCreate(n) \/ (n \in delWanted /\ UnsnapCall(n)) \/ UnsnapRemove(n)
    \/ Respond(n)

Next ==
    \/ \E n \in Obj : Handler(n) \/ Interrupt(n)
    \/ \E v \in Vol :
         \/ v \notin wanted /\ CreateCall(v)
         \/ v \notin delWanted /\ DeleteCall(v)
         \/ Expand(v)
         \/ StageCall(v) \/ StageMount(v) \/ StageKey(v) \/ StageReply(v)
         \/ NodeUnstage(v) \/ NodePublish(v) \/ NodeUnpublish(v)
    \/ \E s \in Snap : \/ \E v \in Vol : SnapCall(s, v)
                       \/ s \notin delWanted /\ UnsnapCall(s)
    \/ Restart

Spec == Init /\ [][Next]_vars

\* The sidecars retry with backoff until they are told, handlers run to their
\* end and the cluster's clone workers make progress; faults are finitely many.
FairSpec == Spec /\ \A n \in Obj : WF_vars(Handler(n))

-----------------------------------------------------------------------------
(* Properties *)

MadeSnapshot(s) == IF <<snapOf[s], s>> \in snaps THEN "ready" ELSE "absent"

\* A shallow volume is no object of the cluster: once it is served it is its
\* snapshot.  Nothing holds that one for it, so the promise ends where the deletion
\* of the snapshot is asked for.
MadeVolume(v) ==
    IF v \in plan.shallow
    THEN IF v \in gone \/ (v \notin acked /\ ctl[v] # "reply") THEN "absent"
         ELSE IF Src(v) \in delWanted \/ MadeSnapshot(Src(v)) = "ready" THEN "ready"
         ELSE "partial"
    ELSE IF sub[v] = None THEN "absent"
    ELSE IF /\ sub[v].state = "complete" /\ sub[v].from = Src(v)
            /\ sub[v].size >= ReqSize[v]
            /\ plan.nfs => v \in export
            /\ v \in plan.encrypted => sub[v].kmsID
    THEN "ready" ELSE "partial"

Service == INSTANCE ObjectService WITH
    made <- [n \in Obj |-> IF n \in Vol THEN MadeVolume(n) ELSE MadeSnapshot(n)]

\* The controller calls keep what a CSI caller may rely on: an acknowledged
\* volume is a complete copy of its source, at least as large as the request and
\* exported where the instance needs it, an acknowledged snapshot stays until
\* it is deleted itself, whatever becomes of the volumes copied or served from
\* it, so does what a shallow volume shows, and an acknowledged deletion leaves
\* nothing.
Served == Service!Spec

\* An encrypted volume the kubelet was told is staged has its key in the keyring
\* of its mount, however the attempts were cut short.
StagedKeyed == \A v \in staged \cap plan.encrypted : v \in keyring /\ v \in key

\* No key outlives its volume in the KMS: the id that finds it is read from the
\* subvolume's metadata, and goes with the subvolume.
NoKeyLeft == \A v \in key : sub[v] # None

\* A deletion that was asked for completes, unless snapshots of the volume are
\* left: leftovers of clones do not wedge it.
DeletesComplete ==
    \A v \in Vol : v \in delWanted ~>
        v \in gone \/ \E s \in Snap : <<v, s>> \in snaps

=============================================================================
