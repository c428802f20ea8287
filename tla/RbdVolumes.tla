------------------------------ MODULE RbdVolumes ------------------------------
(***************************************************************************)
(* Control plane of the ceph-rbd plugin: CreateVolume, DeleteVolume,        *)
(* ExpandVolume, CreateSnapshot and DeleteSnapshot as sequences of rbd      *)
(* commands, the out-of-band flatten workers, the cluster those commands    *)
(* change, and an orchestrator that retries every call until it succeeds.   *)
(*                                                                          *)
(* Every rbd command is one step.  A handler can be interrupted between any *)
(* two of them (a failing command, an expired deadline, a killed process),  *)
(* and a restart of the plugin forgets all of its memory: the handlers, the *)
(* flatten workers and the snapshot name index.  What a killed command did  *)
(* to the cluster is taken to have happened, or never to happen.            *)
(*                                                                          *)
(* Encryption descriptors and keys are the subject of RbdKeys.              *)
(***************************************************************************)
EXTENDS Naturals, FiniteSets

CONSTANTS
    Vol,         \* volumes, one per CSI volume name
    Snap,        \* CSI snapshot names
    None,        \* absent value
    SrcVol,      \* [Vol -> Vol \cup {None}]: image a volume is cloned from
    SrcSnap,     \* [Vol -> Snap \cup {None}]: snapshot it restores, if any
    SnapFrom,    \* [Snap -> SUBSET Vol]: volumes a snapshot is asked of
    ReqSize,     \* [Vol -> Nat]: requested size
    Static,      \* pre-existing images an administrator marked bard.static
    DepthLimit,  \* clone depth at which a restore is flattened (0 disables)
    MaxSize,     \* bound: largest size ExpandVolume asks for
    MaxFaults    \* bound: interruptions, lost reads and restarts

VARIABLES
    images,      \* images that exist
    size,        \* size of each image
    parent,      \* image a COW clone still depends on
    root,        \* volume whose content an image holds
    stamp,       \* bard.source image-meta: recorded content source
    static,      \* images carrying bard.static = true
    snaps,       \* live snapshots <<image, name>>; a temporary one is named
                 \*   after the volume being cloned
    flatten,     \* flattenInFlight: worker per image
    snapIndex,   \* snapshot name -> source, in the plugin's memory
    create,      \* CreateVolume handler per volume: its next command
    delete,      \* DeleteVolume handler per volume
    snapshot,    \* CreateSnapshot handler per name: the source it works on
    snapTaken,   \*   names whose handler is past its snap create
    unsnap,      \* DeleteSnapshot handler per name: the source it works on
    wanted, acked, cap, delWanted, gone,
    snapAcked, snapDel, snapGone,       \* what the orchestrator knows
    faults, restarts

cluster == <<images, size, parent, root, stamp, static, snaps>>
memory  == <<flatten, snapIndex>>
volCalls  == <<wanted, acked, cap, delWanted, gone>>
snapCalls == <<snapAcked, snapDel, snapGone>>
snapHandlers == <<snapshot, snapTaken, unsnap>>
handlers == <<create, delete, snapHandlers>>
budget  == <<faults, restarts>>
vars == <<cluster, memory, handlers, volCalls, snapCalls, budget>>

-----------------------------------------------------------------------------
(* Requests *)

IsClone(v) == SrcVol[v] # None

\* A PVC-PVC clone goes through a temporary snapshot of its source.
ViaTmp(v) == IsClone(v) /\ SrcSnap[v] = None

\* sourceDesc: what the bard.source stamp of a create says.
SourceDesc(v) == IF IsClone(v) THEN <<SrcVol[v], SrcSnap[v]>> ELSE None

\* The snapshot a clone is made from.
SourceSnap(v) == <<SrcVol[v], IF ViaTmp(v) THEN v ELSE SrcSnap[v]>>

ASSUME Requests ==
    /\ None \notin Vol \cup Snap
    /\ Vol \cap Snap = {}
    /\ SrcVol \in [Vol -> Vol \cup {None}]
    /\ SrcSnap \in [Vol -> Snap \cup {None}]
    /\ \A v \in Vol : SrcVol[v] = None => SrcSnap[v] = None
    /\ \A v \in Vol : SrcSnap[v] # None => SrcVol[v] \in SnapFrom[SrcSnap[v]]
    /\ \A v \in Vol : SrcVol[v] # v
    /\ SnapFrom \in [Snap -> SUBSET Vol]
    /\ ReqSize \in [Vol -> Nat \ {0}]
    /\ Static \subseteq {v \in Vol : ~IsClone(v)}
    /\ DepthLimit \in Nat /\ MaxSize \in Nat /\ MaxFaults \in Nat

CreatePc == {"idle", "info", "hit", "tmpsnap", "provision", "stamp", "size",
             "resize", "tail", "respond"}

-----------------------------------------------------------------------------
(* The cluster, as the rbd commands see it *)

Children(i) == {c \in images : parent[c] = i}

HasSnaps(i) == \E x \in snaps : x[1] = i

\* Depth of the COW chain above an image: cloneDepth's walk, one ancestor at a
\* time; a chain has at most as many links as there are volumes.
Depth(i) ==
    LET Walk[n \in 0..Cardinality(Vol)] ==
            IF n = 0 THEN i
            ELSE IF Walk[n-1] = None THEN None ELSE parent[Walk[n-1]]
    IN  Cardinality({n \in 1..Cardinality(Vol) : Walk[n] # None})

RbdCreate(v, n) ==
    /\ images' = images \cup {v}
    /\ size' = [size EXCEPT ![v] = n]
    /\ root' = [root EXCEPT ![v] = v]
    /\ UNCHANGED <<parent, stamp, static, snaps>>

\* rbd clone: the child starts at the size of the snapshot (no larger than the
\* image is now) and with a copy of the image's whole image-meta.
RbdClone(v, i) ==
    /\ images' = images \cup {v}
    /\ \E n \in 1..size[i] : size' = [size EXCEPT ![v] = n]
    /\ root' = [root EXCEPT ![v] = root[i]]
    /\ parent' = [parent EXCEPT ![v] = i]
    /\ stamp' = [stamp EXCEPT ![v] = stamp[i]]
    /\ static' = IF i \in static THEN static \cup {v} ELSE static
    /\ UNCHANGED snaps

RbdRemove(v) ==
    /\ images' = images \ {v}
    /\ size' = [size EXCEPT ![v] = 0]
    /\ root' = [root EXCEPT ![v] = None]
    /\ parent' = [parent EXCEPT ![v] = None]
    /\ stamp' = [stamp EXCEPT ![v] = None]
    /\ static' = static \ {v}
    /\ UNCHANGED snaps

-----------------------------------------------------------------------------
Init ==
    /\ images = Static
    /\ size = [v \in Vol |-> IF v \in Static THEN ReqSize[v] ELSE 0]
    /\ parent = [v \in Vol |-> None]
    /\ root = [v \in Vol |-> IF v \in Static THEN v ELSE None]
    /\ stamp = [v \in Vol |-> None]
    /\ static = Static
    /\ snaps = {}
    /\ flatten = [v \in Vol |-> "none"]
    /\ snapIndex = [s \in Snap |-> None]
    /\ create = [v \in Vol |-> "idle"]
    /\ delete = [v \in Vol |-> "idle"]
    /\ snapshot = [s \in Snap |-> None] /\ snapTaken = {}
    /\ unsnap = [s \in Snap |-> None]
    /\ wanted = Static /\ acked = Static
    /\ cap = [v \in Vol |-> IF v \in Static THEN ReqSize[v] ELSE 0]
    /\ delWanted = {} /\ gone = {}
    /\ snapAcked = {} /\ snapDel = {} /\ snapGone = {}
    /\ faults = 0 /\ restarts = 0

-----------------------------------------------------------------------------
(* CreateVolume *)

Goto(v, pc) == create' = [create EXCEPT ![v] = pc]

\* The orchestrator (re)tries a create until it is acknowledged.  Its finalizers
\* keep the content source in place meanwhile (see DeleteCall, UnsnapCall).  The
\* claim on the volume name admits one handler at a time.
CreateCall(v) ==
    /\ create[v] = "idle"
    /\ v \notin acked
    /\ ViaTmp(v) => SrcVol[v] \in acked \ delWanted
    /\ SrcSnap[v] # None => SourceSnap(v) \in snapAcked \ snapDel
    /\ wanted' = wanted \cup {v}
    /\ Goto(v, "info")
    /\ UNCHANGED <<cluster, memory, delete, snapHandlers, acked, cap,
                   delWanted, gone, snapCalls, budget>>

\* rbd info decides between a fresh provision and an idempotent hit.
CreateInfo(v) ==
    /\ create[v] = "info"
    /\ Goto(v, IF v \in images THEN "hit"
               ELSE IF ViaTmp(v) THEN "tmpsnap" ELSE "provision")
    /\ UNCHANGED <<cluster, memory, delete, snapHandlers, volCalls,
                   snapCalls, budget>>

\* Mutant of CreateHit: an idempotent hit never grows a half-made clone.
CreateHitNoGrow(v, readFails) ==
    /\ create[v] = "hit" /\ ~readFails
    /\ Goto(v, "tail")
    /\ UNCHANGED <<cluster, memory, delete, snapHandlers, volCalls,
                   snapCalls, budget>>

\* Mutant of CreateHit: the recipe's tail runs on the fresh path only.
CreateHitNoTail(v, readFails) ==
    /\ create[v] = "hit" /\ ~readFails
    /\ Goto(v, "respond")
    /\ UNCHANGED <<cluster, memory, delete, snapHandlers, volCalls,
                   snapCalls, budget>>

\* The existing image is accepted if its stamp names the same source or is
\* empty; imageMetaGet reads an empty stamp when the read itself fails.  Sizes
\* must agree for a plain create; a smaller clone is grown.
CreateHit(v, readFails) ==
    /\ create[v] = "hit"
    /\ readFails => faults < MaxFaults
    /\ faults' = IF readFails THEN faults + 1 ELSE faults
    /\ LET recorded == IF readFails THEN None ELSE stamp[v]
           conflict == \/ recorded # None /\ recorded # SourceDesc(v)
                       \/ ~IsClone(v) /\ size[v] # ReqSize[v]
       IN  Goto(v, IF conflict THEN "idle"
                   ELSE IF size[v] < ReqSize[v] THEN "resize" ELSE "tail")
    /\ UNCHANGED <<cluster, memory, delete, snapHandlers, wanted, acked,
                   cap, delWanted, gone, snapCalls, restarts>>

\* Mutant of ProvisionTmpSnap: a snapshot left by an earlier try is an error.
TmpSnapMustBeNew(v) ==
    /\ create[v] = "tmpsnap"
    /\ snaps' = snaps \cup {SourceSnap(v)}
    /\ Goto(v, IF SourceSnap(v) \in snaps THEN "idle" ELSE "provision")
    /\ UNCHANGED <<images, size, parent, root, stamp, static, memory, delete,
                   snapHandlers, volCalls, snapCalls, budget>>

\* snap create of the temporary snapshot; one left by an earlier try is reused.
ProvisionTmpSnap(v) ==
    /\ create[v] = "tmpsnap"
    /\ IF SrcVol[v] \in images
       THEN snaps' = snaps \cup {SourceSnap(v)} /\ Goto(v, "provision")
       ELSE UNCHANGED snaps /\ Goto(v, "idle")
    /\ UNCHANGED <<images, size, parent, root, stamp, static, memory, delete,
                   snapHandlers, volCalls, snapCalls, budget>>

\* rbd create of a plain volume; an image that exists is fine.
ProvisionPlain(v) ==
    /\ create[v] = "provision" /\ ~IsClone(v)
    /\ IF v \in images THEN UNCHANGED cluster ELSE RbdCreate(v, ReqSize[v])
    /\ Goto(v, "tail")
    /\ UNCHANGED <<memory, delete, snapHandlers, volCalls, snapCalls, budget>>

\* rbd clone of the source snapshot.  It fails without the snapshot, and on an
\* image that exists, which only the PVC-PVC clone tolerates.
ProvisionClone(v) ==
    /\ create[v] = "provision" /\ IsClone(v)
    /\ IF v \notin images /\ SourceSnap(v) \in snaps
       THEN RbdClone(v, SrcVol[v]) /\ Goto(v, "stamp")
       ELSE /\ Goto(v, IF v \in images /\ ViaTmp(v) THEN "stamp" ELSE "idle")
            /\ UNCHANGED cluster
    /\ UNCHANGED <<memory, delete, snapHandlers, volCalls, snapCalls, budget>>

\* image-meta set bard.source; a restore then schedules its depth-gated flatten.
ProvisionStamp(v) ==
    /\ create[v] = "stamp"
    /\ stamp' = [stamp EXCEPT ![v] = SourceDesc(v)]
    /\ flatten' = IF ~ViaTmp(v) /\ DepthLimit > 0 /\ flatten[v] = "none"
                  THEN [flatten EXCEPT ![v] = "gated"] ELSE flatten
    /\ Goto(v, "size")
    /\ UNCHANGED <<images, size, parent, root, static, snaps, snapIndex, delete,
                   snapHandlers, volCalls, snapCalls, budget>>

\* The clone's real size is read back and compared with the request.
CreateSize(v) ==
    /\ create[v] = "size"
    /\ Goto(v, IF size[v] < ReqSize[v] THEN "resize" ELSE "tail")
    /\ UNCHANGED <<cluster, memory, delete, snapHandlers, volCalls,
                   snapCalls, budget>>

CreateResize(v) ==
    /\ create[v] = "resize"
    /\ size' = [size EXCEPT ![v] = ReqSize[v]]
    /\ Goto(v, "tail")
    /\ UNCHANGED <<images, parent, root, stamp, static, snaps, memory, delete,
                   snapHandlers, volCalls, snapCalls, budget>>

\* Tail of the PVC-PVC recipe, on the fresh and on the resumed path: drop the
\* temporary snapshot (absent is fine) and start an unconditional flatten.
CreateTail(v) ==
    /\ create[v] = "tail"
    /\ IF ViaTmp(v)
       THEN /\ snaps' = snaps \ {SourceSnap(v)}
            /\ flatten' = IF flatten[v] = "none"
                          THEN [flatten EXCEPT ![v] = "plain"] ELSE flatten
       ELSE UNCHANGED <<snaps, flatten>>
    /\ Goto(v, "respond")
    /\ UNCHANGED <<images, size, parent, root, stamp, static, snapIndex, delete,
                   snapHandlers, volCalls, snapCalls, budget>>

\* The response reaches the orchestrator with the real capacity.
CreateRespond(v) ==
    /\ create[v] = "respond"
    /\ acked' = acked \cup {v}
    /\ cap' = [cap EXCEPT ![v] = size[v]]
    /\ Goto(v, "idle")
    /\ UNCHANGED <<cluster, memory, delete, snapHandlers, wanted, delWanted,
                   gone, snapCalls, budget>>

-----------------------------------------------------------------------------
(* Background flatten workers *)

\* One worker run: depth-gated (flattenIfDeep) or unconditional.  It severs the
\* parent link, or does nothing when the image is shallow, independent or gone.
FlattenRun(v) ==
    /\ flatten[v] # "none"
    /\ flatten' = [flatten EXCEPT ![v] = "none"]
    /\ parent' = IF flatten[v] = "plain" \/ Depth(v) >= DepthLimit
                 THEN [parent EXCEPT ![v] = None] ELSE parent
    /\ UNCHANGED <<images, size, root, stamp, static, snaps, snapIndex, handlers,
                   volCalls, snapCalls, budget>>

\* A worker that fails only logs.
FlattenFail(v) ==
    /\ flatten[v] # "none"
    /\ faults < MaxFaults /\ faults' = faults + 1
    /\ flatten' = [flatten EXCEPT ![v] = "none"]
    /\ UNCHANGED <<cluster, snapIndex, handlers, volCalls, snapCalls, restarts>>

-----------------------------------------------------------------------------
(* DeleteVolume and ExpandVolume *)

\* The orchestrator deletes a volume it was given, once nothing it is creating
\* clones it, and retries until the call succeeds.
DeleteCall(v) ==
    /\ delete[v] = "idle"
    /\ v \in acked \ gone
    /\ \A w \in wanted \ acked : ~(ViaTmp(w) /\ SrcVol[w] = v)
    /\ delWanted' = delWanted \cup {v}
    /\ delete' = [delete EXCEPT ![v] = "static"]
    /\ UNCHANGED <<cluster, memory, create, snapHandlers, wanted, acked, cap,
                   gone, snapCalls, budget>>

\* Mutant of DeleteStatic: a failed meta read counts as "not static".
DeleteStaticMisread(v) ==
    /\ delete[v] = "static"
    /\ delete' = [delete EXCEPT ![v] = "rm"]
    /\ UNCHANGED <<cluster, memory, create, snapHandlers, volCalls,
                   snapCalls, budget>>

\* An image marked bard.static is never reaped: the call succeeds at once.
DeleteStatic(v) ==
    /\ delete[v] = "static"
    /\ IF v \in static
       THEN /\ gone' = gone \cup {v}
            /\ delete' = [delete EXCEPT ![v] = "idle"]
       ELSE /\ delete' = [delete EXCEPT ![v] = "rm"]
            /\ UNCHANGED gone
    /\ UNCHANGED <<cluster, memory, create, snapHandlers, wanted, acked, cap,
                   delWanted, snapCalls, budget>>

\* flattenChildren: an unconditional flatten for every clone child that has no
\* worker yet.
FlattenChildren(v) ==
    flatten' = [c \in Vol |-> IF c \in Children(v) /\ flatten[c] = "none"
                              THEN "plain" ELSE flatten[c]]

\* Mutant of DeleteRemove: every failure of rbd rm is read as "not found".
DeleteRemoveMisread(v) ==
    /\ delete[v] = "rm"
    /\ delete' = [delete EXCEPT ![v] = "idle"]
    /\ IF v \in images /\ ~HasSnaps(v) /\ Children(v) = {}
       THEN RbdRemove(v) ELSE UNCHANGED cluster
    /\ gone' = gone \cup {v}
    /\ UNCHANGED <<memory, create, snapHandlers, wanted, acked, cap,
                   delWanted, snapCalls, budget>>

\* Mutant of DeleteRemove: snapshots are purged to make the removal succeed.
DeleteRemovePurging(v) ==
    /\ delete[v] = "rm"
    /\ snaps' = {x \in snaps : x[1] # v}
    /\ UNCHANGED <<images, size, parent, root, stamp, static, memory, handlers,
                   volCalls, snapCalls, budget>>

\* Mutant of DeleteRemove: the children of a blocked image are left alone.
DeleteRemoveNoFlatten(v) ==
    /\ delete[v] = "rm"
    /\ delete' = [delete EXCEPT ![v] = "idle"]
    /\ IF HasSnaps(v) \/ Children(v) # {}
       THEN UNCHANGED <<cluster, gone>>
       ELSE RbdRemove(v) /\ gone' = gone \cup {v}
    /\ UNCHANGED <<memory, create, snapHandlers, wanted, acked, cap,
                   delWanted, snapCalls, budget>>

\* rbd rm.  Live snapshots make it fail; snapshots kept by linked clones make it
\* fail too, but not before the children's flatten was started.
DeleteRemove(v) ==
    /\ delete[v] = "rm"
    /\ delete' = [delete EXCEPT ![v] = "idle"]
    /\ \/ /\ v \in images /\ HasSnaps(v)
          /\ UNCHANGED <<cluster, flatten, gone>>
       \/ /\ v \in images /\ ~HasSnaps(v) /\ Children(v) # {}
          /\ FlattenChildren(v)
          /\ UNCHANGED <<cluster, gone>>
       \/ /\ v \in images /\ ~HasSnaps(v) /\ Children(v) = {}
          /\ RbdRemove(v)
          /\ gone' = gone \cup {v}
          /\ UNCHANGED flatten
       \/ /\ v \notin images
          /\ gone' = gone \cup {v}
          /\ UNCHANGED <<cluster, flatten>>
    /\ UNCHANGED <<snapIndex, create, snapHandlers, wanted, acked, cap,
                   delWanted, snapCalls, budget>>

\* ExpandVolume shares the claim on the volume id with DeleteVolume.  rbd resize
\* refuses to shrink, and the orchestrator only asks for more than it has.
Expand(v) ==
    /\ v \in acked \ delWanted
    /\ delete[v] = "idle"
    /\ cap[v] < MaxSize
    /\ size' = [size EXCEPT ![v] = cap[v] + 1]
    /\ cap' = [cap EXCEPT ![v] = cap[v] + 1]
    /\ UNCHANGED <<images, parent, root, stamp, static, snaps, memory, handlers,
                   wanted, acked, delWanted, gone, snapCalls, budget>>

-----------------------------------------------------------------------------
(* CreateSnapshot and DeleteSnapshot *)

\* Mutant of SnapshotCall: the name index is written, never consulted.
SnapshotCallUnchecked(s, v) ==
    /\ v \in SnapFrom[s] /\ snapshot[s] = None
    /\ v \in acked \ delWanted
    /\ <<v, s>> \notin snapAcked
    /\ snapIndex' = [snapIndex EXCEPT ![s] = v]
    /\ snapshot' = [snapshot EXCEPT ![s] = v]
    /\ UNCHANGED <<cluster, flatten, create, delete, snapTaken, unsnap, volCalls,
                   snapCalls, budget>>

\* A call for snapshot s of volume v: the name index refuses a name bound to
\* another source and is written before any rbd command.
SnapshotCall(s, v) ==
    /\ v \in SnapFrom[s] /\ snapshot[s] = None
    /\ v \in acked \ delWanted
    /\ <<v, s>> \notin snapAcked
    /\ snapIndex[s] \in {None, v}
    /\ snapIndex' = [snapIndex EXCEPT ![s] = v]
    /\ snapshot' = [snapshot EXCEPT ![s] = v]
    /\ UNCHANGED <<cluster, flatten, create, delete, snapTaken, unsnap, volCalls,
                   snapCalls, budget>>

\* snap create; a snapshot left by an earlier try is reused.
SnapshotCreate(s) ==
    /\ snapshot[s] # None /\ s \notin snapTaken
    /\ IF snapshot[s] \in images
       THEN /\ snaps' = snaps \cup {<<snapshot[s], s>>}
            /\ snapTaken' = snapTaken \cup {s}
            /\ UNCHANGED snapshot
       ELSE /\ snapshot' = [snapshot EXCEPT ![s] = None]
            /\ UNCHANGED <<snaps, snapTaken>>
    /\ UNCHANGED <<images, size, parent, root, stamp, static, memory, create,
                   delete, unsnap, volCalls, snapCalls, budget>>

SnapshotRespond(s) ==
    /\ s \in snapTaken
    /\ snapAcked' = snapAcked \cup {<<snapshot[s], s>>}
    /\ snapshot' = [snapshot EXCEPT ![s] = None]
    /\ snapTaken' = snapTaken \ {s}
    /\ UNCHANGED <<cluster, memory, create, delete, unsnap, volCalls, snapDel,
                   snapGone, budget>>

\* The orchestrator deletes a snapshot no create is restoring from.
UnsnapCall(s, v) ==
    /\ unsnap[s] = None
    /\ <<v, s>> \in snapAcked \ snapGone
    /\ \A w \in wanted \ acked : ~(SrcSnap[w] = s /\ SrcVol[w] = v)
    /\ snapDel' = snapDel \cup {<<v, s>>}
    /\ unsnap' = [unsnap EXCEPT ![s] = v]
    /\ UNCHANGED <<cluster, memory, create, delete, snapshot, snapTaken, volCalls,
                   snapAcked, snapGone, budget>>

\* snap rm (absent is fine), then the name is released.  With linked clones the
\* snapshot moves to the trash: it is no longer live, its children remain.
UnsnapRemove(s) ==
    /\ unsnap[s] # None
    /\ snaps' = snaps \ {<<unsnap[s], s>>}
    /\ snapIndex' = IF snapIndex[s] = unsnap[s]
                    THEN [snapIndex EXCEPT ![s] = None] ELSE snapIndex
    /\ snapGone' = snapGone \cup {<<unsnap[s], s>>}
    /\ unsnap' = [unsnap EXCEPT ![s] = None]
    /\ UNCHANGED <<images, size, parent, root, stamp, static, flatten, create,
                   delete, snapshot, snapTaken, volCalls, snapAcked, snapDel,
                   budget>>

-----------------------------------------------------------------------------
(* Faults *)

\* One handler ends early: a command failed, or its context was cancelled.
InterruptVolume(v) ==
    /\ faults < MaxFaults /\ faults' = faults + 1
    /\ \/ create[v] # "idle" /\ Goto(v, "idle") /\ UNCHANGED delete
       \/ /\ delete[v] # "idle"
          /\ delete' = [delete EXCEPT ![v] = "idle"]
          /\ UNCHANGED create
    /\ UNCHANGED <<cluster, memory, snapHandlers, volCalls, snapCalls,
                   restarts>>

InterruptSnapshot(s) ==
    /\ faults < MaxFaults /\ faults' = faults + 1
    /\ \/ /\ snapshot[s] # None
          /\ snapshot' = [snapshot EXCEPT ![s] = None]
          /\ snapTaken' = snapTaken \ {s}
          /\ UNCHANGED unsnap
       \/ /\ unsnap[s] # None
          /\ unsnap' = [unsnap EXCEPT ![s] = None]
          /\ UNCHANGED <<snapshot, snapTaken>>
    /\ UNCHANGED <<cluster, memory, create, delete, volCalls, snapCalls, restarts>>

\* The plugin process restarts.
Restart ==
    /\ faults < MaxFaults /\ faults' = faults + 1
    /\ restarts' = restarts + 1
    /\ flatten' = [v \in Vol |-> "none"]
    /\ snapIndex' = [s \in Snap |-> None]
    /\ create' = [v \in Vol |-> "idle"]
    /\ delete' = [v \in Vol |-> "idle"]
    /\ snapshot' = [s \in Snap |-> None] /\ snapTaken' = {}
    /\ unsnap' = [s \in Snap |-> None]
    /\ UNCHANGED <<cluster, volCalls, snapCalls>>

-----------------------------------------------------------------------------
CreateStep(v) ==
    \/ CreateInfo(v) \/ CreateHit(v, FALSE) \/ ProvisionTmpSnap(v)
    \/ ProvisionPlain(v) \/ ProvisionClone(v) \/ ProvisionStamp(v)
    \/ CreateSize(v) \/ CreateResize(v) \/ CreateTail(v) \/ CreateRespond(v)

DeleteStep(v) == DeleteStatic(v) \/ DeleteRemove(v)

SnapshotStep(s) == SnapshotCreate(s) \/ SnapshotRespond(s)

Next ==
    \/ \E v \in Vol : \/ CreateCall(v) \/ CreateStep(v) \/ CreateHit(v, TRUE)
                      \/ DeleteCall(v) \/ DeleteStep(v) \/ Expand(v)
                      \/ FlattenRun(v) \/ FlattenFail(v) \/ InterruptVolume(v)
    \/ \E s \in Snap : \/ \E v \in Vol : SnapshotCall(s, v) \/ UnsnapCall(s, v)
                       \/ SnapshotStep(s) \/ UnsnapRemove(s)
                       \/ InterruptSnapshot(s)
    \/ Restart

Spec == Init /\ [][Next]_vars

\* Handlers and workers that were started run; the orchestrator retries a create
\* until it is acknowledged and a requested delete until it succeeds.
Fairness ==
    /\ \A v \in Vol : /\ WF_vars(CreateStep(v)) /\ WF_vars(DeleteStep(v))
                      /\ WF_vars(FlattenRun(v))
                      /\ WF_vars(v \in wanted /\ CreateCall(v))
                      /\ WF_vars(v \in delWanted /\ DeleteCall(v))
    /\ \A s \in Snap : /\ WF_vars(SnapshotStep(s)) /\ WF_vars(UnsnapRemove(s))

FairSpec == Spec /\ Fairness

-----------------------------------------------------------------------------
(* Properties *)

TypeCluster ==
    /\ images \subseteq Vol /\ static \subseteq Vol
    /\ size \in [Vol -> Nat]
    /\ parent \in [Vol -> Vol \cup {None}]
    /\ root \in [Vol -> Vol \cup {None}]
    /\ stamp \in [Vol -> {None} \cup (Vol \X (Snap \cup {None}))]
    /\ snaps \subseteq Vol \X (Snap \cup Vol)

TypePlugin ==
    /\ flatten \in [Vol -> {"none", "gated", "plain"}]
    /\ snapIndex \in [Snap -> Vol \cup {None}]
    /\ create \in [Vol -> CreatePc]
    /\ delete \in [Vol -> {"idle", "static", "rm"}]
    /\ snapshot \in [Snap -> Vol \cup {None}] /\ snapTaken \subseteq Snap
    /\ unsnap \in [Snap -> Vol \cup {None}]

TypeCalls ==
    /\ wanted \subseteq Vol /\ acked \subseteq Vol /\ delWanted \subseteq Vol
    /\ gone \subseteq Vol
    /\ cap \in [Vol -> Nat]
    /\ snapAcked \subseteq Vol \X Snap /\ snapDel \subseteq Vol \X Snap
    /\ snapGone \subseteq Vol \X Snap
    /\ faults \in 0..MaxFaults /\ restarts \in 0..faults

\* Every variable stays in its domain.
TypeOK == TypeCluster /\ TypePlugin /\ TypeCalls

\* A volume that CreateVolume acknowledged and nobody asked to delete exists,
\* is at least as large as the request and as the capacity reported, and holds
\* the content of the source that was asked for, whichever attempt, crash or
\* resume produced it.
AckedVolumeServes ==
    \A v \in acked \ delWanted :
        /\ v \in images
        /\ size[v] >= ReqSize[v] /\ size[v] >= cap[v]
        /\ root[v] # None
        /\ IsClone(v) /\ SrcVol[v] \in images => root[v] = root[SrcVol[v]]

\* The administrator's images outlive every DeleteVolume of them.
StaticNeverReaped == Static \subseteq images

\* Once a PVC-PVC clone is acknowledged, its temporary snapshot is off the
\* source, on the fresh and on every resumed path: nothing of the clone recipe is
\* left to block the source's deletion.
NoTmpSnapLeft == \A v \in acked : ViaTmp(v) => SourceSnap(v) \notin snaps

\* A snapshot that was acknowledged and nobody asked to delete is live, and its
\* image exists: no DeleteVolume of the source takes it away.
AckedSnapshotLive ==
    \A x \in snapAcked \ snapDel : x \in snaps /\ x[1] \in images

\* Until the plugin restarts, a CSI snapshot name has live snapshots on one
\* volume only.
SnapNameUnique ==
    restarts = 0 =>
        \A x, y \in snaps : x[2] = y[2] /\ x[2] \in Snap => x = y

\* What a volume is made of when nothing of its create is left to do.
Complete(v) ==
    /\ size[v] >= ReqSize[v]
    /\ root[v] # None /\ (IsClone(v) <=> root[v] # v)
    /\ ViaTmp(v) => SourceSnap(v) \notin snaps

Made(v) ==
    IF v \notin images THEN "absent" ELSE IF Complete(v) THEN "ready" ELSE "partial"

Service == INSTANCE ObjectService WITH
    Obj <- Vol \ Static,
    made <- [v \in Vol \ Static |-> Made(v)],
    wanted <- wanted \ Static, acked <- acked \ Static,
    delWanted <- delWanted \ Static, gone <- gone \ Static

\* CreateVolume, ExpandVolume and DeleteVolume keep what a CSI caller may rely on,
\* whichever interrupted attempts came before: an acknowledged volume is whole and
\* stays whole until its deletion is asked for, and an acknowledged deletion
\* leaves nothing behind.
Served == Service!Spec

\* Every create the orchestrator keeps retrying is acknowledged in the end.
CreatesConverge == \A v \in Vol : v \in wanted ~> v \in acked

\* A requested delete succeeds in the end unless a VolumeSnapshot of the volume
\* remains: a linked clone whose flatten was lost to a restart does not block
\* the deletion of its source for ever.
DeletesConverge ==
    \A v \in Vol :
        v \in delWanted ~> (v \in gone \/ \E s \in Snap : <<v, s>> \in snaps)
=============================================================================
