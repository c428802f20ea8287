------------------------------- MODULE RbdNode -------------------------------
(***************************************************************************)
(* Node plane of the ceph-rbd plugin: NodeStage, NodeUnstage, NodePublish   *)
(* and NodeUnpublish as sequences of host commands, the device records that *)
(* outlive the plugin process, the fence an exclusive volume's takeover     *)
(* puts up and that expires, and the rbd-nbd healer that runs beside the    *)
(* first requests after a start.                                            *)
(*                                                                          *)
(* Every host or cluster command is one step.  A handler can be interrupted *)
(* between any two, the plugin can restart (its rbd-nbd servers die with    *)
(* it) and a node can reboot (its device records survive).  The claim on    *)
(* "node:<volume>" admits one handler per volume and node.                  *)
(*                                                                          *)
(* Volumes are unencrypted filesystem volumes.                              *)
(***************************************************************************)
EXTENDS Naturals, FiniteSets

CONSTANTS
    Node, Vol, None,
    Dev,        \* block device names of a node
    NbdDev,     \* the ones rbd-nbd maps; krbd maps the others
    Exclusive,  \* volumes with a single-node writer access mode
    Place,      \* [Vol -> SUBSET Node]: nodes the orchestrator may use
    MaxFaults   \* bound: interruptions, failed probes and unmaps, restarts,
                \*   failovers, blocklist entries that expire

ASSUME Shape ==
    /\ None \notin Node \cup Vol \cup Dev
    /\ NbdDev \subseteq Dev /\ Exclusive \subseteq Vol
    /\ Place \in [Vol -> SUBSET Node] /\ MaxFaults \in Nat

VARIABLES
    kmap,       \* image a node's device is mapped to
    dead,       \* mapped devices whose rbd-nbd server died under a mount
    fenced,     \* mapped devices whose client is blocklisted
    record,     \* deviceRecord per staging path: its device
    mount,      \* device mounted on a staging path
    bind,       \* bind mount on the pod's target path
    fs,         \* content of an image
    pc, work,   \* node handler: next command, device it works on
    seen,       \*   watchers it has yet to blocklist
    healing,    \* nodes whose healer has yet to read its records
    pending,    \*   records of dead devices it has yet to look at
    dropping,   \*   record it found released and is about to remove
    home,       \* node the orchestrator has a volume on
    touched, staged, published,   \* what the kubelets know
    lapsed,     \* staging paths that lost track of a mapped device
    revived,    \* devices the healer reattached
    expired,    \* devices whose client's blocklist entry has expired
    wiped,      \* images whose data mkfs erased though blkid could read them
    faults

kernel  == <<kmap, dead, fenced, mount, bind>>
handler == <<pc, work, seen>>
healer  == <<healing, pending, dropping>>
kubelet == <<home, touched, staged, published>>
ghosts  == <<lapsed, revived, expired, wiped>>
vars == <<kernel, record, fs, handler, healer, kubelet, ghosts, faults>>

Slot == Node \X Dev      \* a device on a node
Path == Node \X Vol      \* a staging path on a node

-----------------------------------------------------------------------------
(* The host and the cluster *)

\* deviceMapped: blockdev reports a size.
Mapped(n, d) == d # None /\ kmap[<<n, d>>] # None

\* I/O on the device reaches the cluster.
Reachable(n, d) == Mapped(n, d) /\ <<n, d>> \notin dead \cup fenced

\* rbd status: the clients that hold a watch on the image.
Watchers(v) == {x \in Slot : kmap[x] = v} \ (dead \cup fenced)

Busy(n, d) == \E v \in Vol : mount[<<n, v>>] = d

Content(n, d) == fs[kmap[<<n, d>>]]

\* Devices lose their map, and the clients behind them their address.
Release(S) ==
    /\ kmap' = [x \in Slot |-> IF x \in S THEN None ELSE kmap[x]]
    /\ dead' = dead \ S /\ fenced' = fenced \ S
    /\ revived' = revived \ S /\ expired' = expired \ S
    /\ seen' = [p \in Path |-> IF pc'[p] = "fence" THEN seen[p] \ S ELSE {}]

-----------------------------------------------------------------------------
Init ==
    /\ kmap = [x \in Slot |-> None]
    /\ dead = {} /\ fenced = {}
    /\ record = [p \in Path |-> None]
    /\ mount = [p \in Path |-> None]
    /\ bind = [p \in Path |-> "none"]
    /\ fs = [v \in Vol |-> "blank"]
    /\ pc = [p \in Path |-> "idle"]
    /\ work = [p \in Path |-> None]
    /\ seen = [p \in Path |-> {}]
    /\ healing = Node
    /\ pending = [n \in Node |-> {}]
    /\ dropping = [n \in Node |-> None]
    /\ home = [v \in Vol |-> None]
    /\ touched = {} /\ staged = {} /\ published = {}
    /\ lapsed = {} /\ revived = {} /\ expired = {} /\ wiped = {}
    /\ faults = 0

Goto(n, v, label) ==
    /\ pc' = [pc EXCEPT ![<<n, v>>] = label]
    /\ work' = IF label = "idle" THEN [work EXCEPT ![<<n, v>>] = None] ELSE work

\* The handler works on device d from here on.
GotoOn(n, v, d, label) ==
    /\ pc' = [pc EXCEPT ![<<n, v>>] = label]
    /\ work' = [work EXCEPT ![<<n, v>>] = d]

-----------------------------------------------------------------------------
(* NodeStage *)

\* The orchestrator has a volume on one node at a time.  The handler reuses the
\* recorded device if that is still mapped; otherwise it maps the image afresh,
\* fencing the image's other clients first if the volume is exclusive.
StageCall(n, v) ==
    /\ pc[<<n, v>>] = "idle" /\ n \in Place[v] /\ home[v] \in {None, n}
    /\ home' = [home EXCEPT ![v] = n]
    /\ touched' = touched \cup {<<n, v>>}
    /\ IF Mapped(n, record[<<n, v>>])
       THEN GotoOn(n, v, record[<<n, v>>], "blkid")
       ELSE Goto(n, v, IF v \in Exclusive THEN "status" ELSE "map")
    /\ UNCHANGED <<kernel, record, fs, seen, healer, staged, published,
                   ghosts, faults>>

\* fenceStaleWatchers: rbd status lists the watchers.
StageStatus(n, v) ==
    /\ pc[<<n, v>>] = "status"
    /\ seen' = [seen EXCEPT ![<<n, v>>] = Watchers(v)]
    /\ Goto(n, v, IF Watchers(v) = {} THEN "map" ELSE "fence")
    /\ UNCHANGED <<kernel, record, fs, healer, kubelet, ghosts,
                   faults>>

\* Mutant of StageFence: a blocklist add that fails is passed over.
StageFenceBestEffort(n, v) ==
    /\ pc[<<n, v>>] = "fence"
    /\ seen' = [seen EXCEPT ![<<n, v>>] = {}]
    /\ Goto(n, v, "map")
    /\ UNCHANGED <<kernel, record, fs, healer, kubelet, ghosts, faults>>

\* ceph osd blocklist add, one watcher at a time.  A client that is gone by now
\* has taken its address along.
StageFence(n, v) ==
    /\ pc[<<n, v>>] = "fence"
    /\ \/ /\ seen[<<n, v>>] = {}
          /\ Goto(n, v, "map")
          /\ UNCHANGED <<fenced, seen>>
       \/ \E x \in seen[<<n, v>>] :
            /\ fenced' = fenced \cup {x}
            /\ seen' = [seen EXCEPT ![<<n, v>>] = @ \ {x}]
            /\ UNCHANGED <<pc, work>>
    /\ UNCHANGED <<kmap, dead, mount, bind, record, fs, healer,
                   kubelet, ghosts, faults>>

\* mapWithFallback and waitForDevice: krbd, or rbd-nbd in its stead, picks a
\* free device; without one the stage fails.
StageMap(n, v) ==
    /\ pc[<<n, v>>] = "map"
    /\ \/ /\ \A d \in Dev : Mapped(n, d)
          /\ Goto(n, v, "idle")
          /\ UNCHANGED kmap
       \/ \E d \in Dev :
            /\ ~Mapped(n, d)
            /\ kmap' = [kmap EXCEPT ![<<n, d>>] = v]
            /\ GotoOn(n, v, d, "record")
    /\ UNCHANGED <<dead, fenced, mount, bind, record, fs, seen, healer,
                   kubelet, ghosts, faults>>

\* recordDevice
StageRecord(n, v) ==
    /\ pc[<<n, v>>] = "record"
    /\ record' = [record EXCEPT ![<<n, v>>] = work[<<n, v>>]]
    /\ Goto(n, v, "blkid")
    /\ UNCHANGED <<kernel, fs, seen, healer, kubelet, ghosts,
                   faults>>

\* Mutant of StageBlkid: every device is formatted.
StageBlkidSkipped(n, v, fails) ==
    /\ pc[<<n, v>>] = "blkid" /\ ~fails
    /\ Goto(n, v, "mkfs")
    /\ UNCHANGED <<kernel, record, fs, seen, healer, kubelet, ghosts, faults>>

\* ensureFormatted asks blkid first and drops its error: a device that blkid could
\* not read is formatted like a blank one ("blind").
StageBlkid(n, v, fails) ==
    /\ pc[<<n, v>>] = "blkid"
    /\ fails => faults < MaxFaults
    /\ faults' = IF fails THEN faults + 1 ELSE faults
    /\ LET d == work[<<n, v>>]
       IN  Goto(n, v, IF fails \/ ~Reachable(n, d) THEN "blind"
                      ELSE IF Content(n, d) = "blank" THEN "mkfs" ELSE "mount")
    /\ UNCHANGED <<kernel, record, fs, seen, healer, kubelet, ghosts>>

\* mkfs fails on a device that cannot be reached, and refuses a mounted one.
StageMkfs(n, v) ==
    /\ pc[<<n, v>>] \in {"mkfs", "blind"}
    /\ LET i == kmap[n, work[<<n, v>>]]
       IN  IF Reachable(n, work[<<n, v>>]) /\ ~Busy(n, work[<<n, v>>])
           THEN /\ fs' = [fs EXCEPT ![i] = "formatted"]
                /\ wiped' = IF fs[i] = "data" /\ pc[<<n, v>>] = "mkfs"
                            THEN wiped \cup {i} ELSE wiped
                /\ Goto(n, v, "mount")
           ELSE UNCHANGED <<fs, wiped>> /\ Goto(n, v, "idle")
    /\ UNCHANGED <<kernel, record, seen, healer, kubelet, lapsed,
                   revived, expired, faults>>

\* The device is mounted unless the staging path already is a mount point, the
\* filesystem is grown to the device, and the response reaches the kubelet.
StageMount(n, v) ==
    /\ pc[<<n, v>>] = "mount"
    /\ mount' = IF mount[<<n, v>>] = None /\ Reachable(n, work[<<n, v>>])
                THEN [mount EXCEPT ![<<n, v>>] = work[<<n, v>>]] ELSE mount
    /\ staged' = IF Reachable(n, work[<<n, v>>])
                 THEN staged \cup {<<n, v>>} ELSE staged
    /\ Goto(n, v, "idle")
    /\ UNCHANGED <<kmap, dead, fenced, bind, record, fs, seen,
                   healer, home, touched, published, ghosts, faults>>

-----------------------------------------------------------------------------
(* NodeUnstage *)

\* The kubelet unstages a volume it has no target of, and retries until that
\* succeeds.  The device is the recorded one, else what is mounted: for a path
\* that is no mount point findmnt names the file system around it, which is no
\* rbd device, and its unmap does nothing.
UnstageCall(n, v) ==
    /\ pc[<<n, v>>] = "idle"
    /\ <<n, v>> \in touched \ published /\ bind[<<n, v>>] = "none"
    /\ staged' = staged \ {<<n, v>>}
    /\ LET d == record[<<n, v>>]
       IN  GotoOn(n, v, IF d # None THEN d ELSE mount[<<n, v>>], "umount")
    /\ UNCHANGED <<kernel, record, fs, seen, healer, home, touched,
                   published, ghosts, faults>>

\* A device without a server goes away with its last mount.
UnstageUmount(n, v) ==
    /\ pc[<<n, v>>] = "umount"
    /\ mount' = [mount EXCEPT ![<<n, v>>] = None]
    /\ Goto(n, v, "unmap")
    /\ Release({<<n, d>> : d \in {e \in Dev : /\ <<n, e>> \in dead
                                              /\ \A w \in Vol : mount'[<<n, w>>] # e}})
    /\ UNCHANGED <<bind, record, fs, healer, kubelet, lapsed, wiped,
                   faults>>

\* Mutant of UnstageUnmap: a failed unmap does not keep the record.
UnstageUnmapUnchecked(n, v, fails) ==
    /\ pc[<<n, v>>] = "unmap"
    /\ fails => faults < MaxFaults
    /\ faults' = IF fails THEN faults + 1 ELSE faults
    /\ Goto(n, v, "clear")
    /\ LET d == work[<<n, v>>]
       IN  Release(IF d # None /\ ~fails /\ ~Busy(n, d) THEN {<<n, d>>} ELSE {})
    /\ UNCHANGED <<mount, bind, record, fs, healer, kubelet, lapsed,
                   wiped>>

\* The tool of the recorded mounter unmaps the device; without a record that is
\* rbd, which leaves an rbd-nbd device alone.  What counts is whether the device
\* is mapped afterwards, not the tool's verdict.
UnstageUnmap(n, v, fails) ==
    /\ pc[<<n, v>>] = "unmap"
    /\ fails => faults < MaxFaults
    /\ faults' = IF fails THEN faults + 1 ELSE faults
    /\ LET d == work[<<n, v>>]
           tool == record[<<n, v>>] # None \/ d \notin NbdDev
           freed == d # None /\ ~fails /\ ~Busy(n, d) /\ tool
       IN  /\ Goto(n, v, IF Mapped(n, d) /\ ~freed THEN "idle" ELSE "clear")
           /\ Release(IF freed THEN {<<n, d>>} ELSE {})
    /\ UNCHANGED <<mount, bind, record, fs, healer, kubelet, lapsed,
                   wiped>>

\* clearDevice; the response reaches the kubelet.
UnstageClear(n, v) ==
    /\ pc[<<n, v>>] = "clear"
    /\ record' = [record EXCEPT ![<<n, v>>] = None]
    /\ touched' = touched \ {<<n, v>>}
    /\ home' = IF home[v] = n THEN [home EXCEPT ![v] = None] ELSE home
    /\ Goto(n, v, "idle")
    /\ UNCHANGED <<kernel, fs, seen, healer, staged, published,
                   ghosts, faults>>

-----------------------------------------------------------------------------
(* NodePublish and NodeUnpublish *)

\* A target that is a mount point already counts as published.
PublishCall(n, v, ro) ==
    /\ pc[<<n, v>>] = "idle" /\ <<n, v>> \in staged \ published
    /\ IF bind[<<n, v>>] # "none"
       THEN published' = published \cup {<<n, v>>} /\ UNCHANGED <<pc, work>>
       ELSE Goto(n, v, IF ro THEN "bindro" ELSE "bind") /\ UNCHANGED published
    /\ UNCHANGED <<kernel, record, fs, seen, healer, home, touched, staged,
                   ghosts, faults>>

PublishBind(n, v) ==
    /\ pc[<<n, v>>] \in {"bind", "bindro"}
    /\ bind' = [bind EXCEPT ![<<n, v>>] = "rw"]
    /\ IF pc[<<n, v>>] = "bindro"
       THEN Goto(n, v, "remount") /\ UNCHANGED published
       ELSE Goto(n, v, "idle") /\ published' = published \cup {<<n, v>>}
    /\ UNCHANGED <<kmap, dead, fenced, mount, record, fs, seen,
                   healer, home, touched, staged, ghosts, faults>>

PublishRemount(n, v) ==
    /\ pc[<<n, v>>] = "remount"
    /\ bind' = [bind EXCEPT ![<<n, v>>] = "ro"]
    /\ published' = published \cup {<<n, v>>}
    /\ Goto(n, v, "idle")
    /\ UNCHANGED <<kmap, dead, fenced, mount, record, fs, seen,
                   healer, home, touched, staged, ghosts, faults>>

\* umount of the target; one that is not mounted is fine.
Unpublish(n, v) ==
    /\ pc[<<n, v>>] = "idle"
    /\ <<n, v>> \in published \/ bind[<<n, v>>] # "none"
    /\ bind' = [bind EXCEPT ![<<n, v>>] = "none"]
    /\ published' = published \ {<<n, v>>}
    /\ UNCHANGED <<kmap, dead, fenced, mount, record, fs, handler, healer, home,
                   touched, staged, ghosts, faults>>

\* A pod puts data on its volume.
PodWrite(n, v) ==
    /\ <<n, v>> \in published /\ bind[<<n, v>>] = "rw"
    /\ Reachable(n, mount[<<n, v>>]) /\ kmap[n, mount[<<n, v>>]] = v
    /\ fs' = [fs EXCEPT ![v] = "data"]
    /\ UNCHANGED <<kernel, record, handler, healer, kubelet, ghosts, faults>>

-----------------------------------------------------------------------------
(* The healer: Heal runs once, beside the requests, after every start *)

\* The rbd-nbd records are read, then the live maps (rbd-nbd list-mapped): a
\* record with a live map needs nothing.
HealScan(n) ==
    /\ n \in healing
    /\ healing' = healing \ {n}
    /\ pending' = [pending EXCEPT ![n] =
                     {r \in Vol \X NbdDev : /\ record[<<n, r[1]>>] = r[2]
                                            /\ Mapped(n, r[2]) => <<n, r[2]>> \in dead}]
    /\ UNCHANGED <<kernel, record, fs, handler, dropping, kubelet, ghosts, faults>>

\* One record: its device was released (it is to be dropped), or is reattached in
\* place by a new client; the map's cookie ties the device to its image.
HealCheck(n, r) ==
    /\ dropping[n] = None /\ r \in pending[n]
    /\ pending' = [pending EXCEPT ![n] = @ \ {r}]
    /\ LET x == <<n, r[2]>>
           attach == x \in dead /\ kmap[x] = r[1]
       IN  /\ dropping' = [dropping EXCEPT ![n] =
                              IF Mapped(n, r[2]) THEN None ELSE r[1]]
           /\ dead' = IF attach THEN dead \ {x} ELSE dead
           /\ fenced' = IF attach THEN fenced \ {x} ELSE fenced
           /\ revived' = IF attach THEN revived \cup {x} ELSE revived
    /\ UNCHANGED <<kmap, mount, bind, record, fs, handler, healing, kubelet,
                   lapsed, expired, wiped, faults>>

\* os.Remove of the record, whatever it names by now.
HealDrop(n) ==
    /\ dropping[n] # None
    /\ LET v == dropping[n]
       IN  /\ lapsed' = IF Mapped(n, record[<<n, v>>])
                        THEN lapsed \cup {<<n, v>>} ELSE lapsed
           /\ record' = [record EXCEPT ![<<n, v>>] = None]
    /\ dropping' = [dropping EXCEPT ![n] = None]
    /\ UNCHANGED <<kernel, fs, handler, healing, pending, kubelet, revived,
                   expired, wiped, faults>>

-----------------------------------------------------------------------------
(* Faults *)

Fault == faults < MaxFaults /\ faults' = faults + 1

\* Handlers die; a device mapped and not yet recorded is lost track of.
Stop(S) ==
    /\ pc' = [p \in Path |-> IF p \in S THEN "idle" ELSE pc[p]]
    /\ work' = [p \in Path |-> IF p \in S THEN None ELSE work[p]]
    /\ lapsed' = lapsed \cup {p \in S : pc[p] = "record"}

\* A command fails or the request's deadline expires.
Interrupt(n, v) ==
    /\ Fault
    /\ pc[<<n, v>>] # "idle"
    /\ Stop({<<n, v>>})
    /\ seen' = [seen EXCEPT ![<<n, v>>] = {}]
    /\ UNCHANGED <<kernel, record, fs, healer, kubelet, revived,
                   expired, wiped>>

\* The plugin restarts and its rbd-nbd servers are gone: a device in use stays
\* behind without one, an unused one is released.
Restart(n) ==
    /\ Fault
    /\ Stop({n} \X Vol)
    /\ LET down == {x \in {n} \X NbdDev : kmap[x] # None}
           held == {x \in down : Busy(n, x[2])}
       IN  /\ kmap' = [x \in Slot |-> IF x \in down \ held THEN None ELSE kmap[x]]
           /\ dead' = dead \cup held
           /\ fenced' = fenced \ (down \ held)
           /\ revived' = revived \ down /\ expired' = expired \ down
           /\ seen' = [p \in Path |-> IF p[1] = n THEN {} ELSE seen[p] \ down]
    /\ healing' = healing \cup {n}
    /\ pending' = [pending EXCEPT ![n] = {}]
    /\ dropping' = [dropping EXCEPT ![n] = None]
    /\ UNCHANGED <<mount, bind, record, fs, kubelet, wiped>>

\* A node reboots: kernel state is gone, the device records are not.
Reboot(n) ==
    /\ Fault
    /\ pc' = [p \in Path |-> IF p[1] = n THEN "idle" ELSE pc[p]]
    /\ work' = [p \in Path |-> IF p[1] = n THEN None ELSE work[p]]
    /\ Release({n} \X Dev)
    /\ lapsed' = {p \in lapsed : p[1] # n}
    /\ mount' = [p \in Path |-> IF p[1] = n THEN None ELSE mount[p]]
    /\ bind' = [p \in Path |-> IF p[1] = n THEN "none" ELSE bind[p]]
    /\ healing' = healing \cup {n}
    /\ pending' = [pending EXCEPT ![n] = {}]
    /\ dropping' = [dropping EXCEPT ![n] = None]
    /\ staged' = {p \in staged : p[1] # n}
    /\ published' = {p \in published : p[1] # n}
    /\ UNCHANGED <<record, fs, home, touched, wiped>>

\* The orchestrator gives a node up and may start the volume elsewhere; what
\* runs on the node keeps running.
Failover(v) ==
    /\ Fault
    /\ home[v] # None /\ pc[<<home[v], v>>] = "idle"
    /\ home' = [home EXCEPT ![v] = None]
    /\ UNCHANGED <<kernel, record, fs, handler, healer, touched, staged, published,
                   ghosts>>

\* A blocklist entry expires while the client it kept out still runs: it writes
\* again, and is a watcher again.
FenceExpires(x) ==
    /\ Fault
    /\ x \in fenced
    /\ fenced' = fenced \ {x}
    /\ expired' = expired \cup {x}
    /\ UNCHANGED <<kmap, dead, mount, bind, record, fs, handler, healer, kubelet,
                   lapsed, revived, wiped>>

-----------------------------------------------------------------------------
StageStep(n, v) ==
    \/ StageCall(n, v) \/ StageStatus(n, v) \/ StageFence(n, v)
    \/ StageMap(n, v) \/ StageRecord(n, v)
    \/ \E fails \in BOOLEAN : StageBlkid(n, v, fails)
    \/ StageMkfs(n, v) \/ StageMount(n, v)

UnstageStep(n, v) ==
    \/ UnstageCall(n, v) \/ UnstageUmount(n, v)
    \/ \E fails \in BOOLEAN : UnstageUnmap(n, v, fails)
    \/ UnstageClear(n, v)

PublishStep(n, v) ==
    \/ \E ro \in BOOLEAN : PublishCall(n, v, ro)
    \/ PublishBind(n, v) \/ PublishRemount(n, v) \/ Unpublish(n, v)
    \/ PodWrite(n, v)

Next ==
    \/ \E n \in Node, v \in Vol :
          StageStep(n, v) \/ UnstageStep(n, v) \/ PublishStep(n, v)
          \/ Interrupt(n, v)
    \/ \E n \in Node :
          \/ HealScan(n) \/ HealDrop(n) \/ Restart(n) \/ Reboot(n)
          \/ \E r \in pending[n] : HealCheck(n, r)
    \/ \E v \in Vol : Failover(v)
    \/ \E x \in Slot : FenceExpires(x)

Spec == Init /\ [][Next]_vars

-----------------------------------------------------------------------------
Writers(v, S) == {n \in Node : \E d \in Dev :
                    kmap[<<n, d>>] = v /\ <<n, d>> \notin dead \cup fenced \cup S}

\* The fence of NodeStage keeps an exclusive volume at one writing node across
\* failovers, interrupted stages, restarts and reboots, given an orchestrator
\* that asks one node at a time.  Two kinds of client are left aside: those the
\* healer revives, and those that are still running when their entry expires
\* (fenceStaleWatchers adds entries without an expiry of its own).
SingleWriter == \A v \in Exclusive : Cardinality(Writers(v, revived \cup expired)) <= 1

\* NodeStage formats an image that holds a pod's data only where blkid failed on
\* it, never after a probe that answered (ensureFormatted).
DataSurvivesStage == wiped = {}

\* NodeUnstage never reports success while a device of the volume leaks, except
\* where a device was mapped and never recorded, or its record was removed by
\* the healer.
UnstageFrees ==
    \A p \in Path \ (touched \cup lapsed) :
        \A d \in Dev : kmap[<<p[1], d>>] # p[2]

\* As SingleWriter, the clients the healer revives included.
SingleWriterHealed == \A v \in Exclusive : Cardinality(Writers(v, expired)) <= 1

=============================================================================
