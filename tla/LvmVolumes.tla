------------------------------ MODULE LvmVolumes ------------------------------
(***************************************************************************)
(* The LVM plugin: volumes and snapshots are logical volumes of one shared  *)
(* volume group, made by the controller's lvm commands and formatted,       *)
(* mounted and grown by the node.  Every state-changing command is a step,  *)
(* together with the reads that precede it.  The plugin keeps no state of   *)
(* its own.  Filesystem volumes only.                                       *)
(***************************************************************************)
EXTENDS Integers

CONSTANTS
    Vol, Snap,   \* volumes and snapshots: their LVs share the VG's namespace
    None,
    Sources,     \* set of [Vol -> Vol \cup Snap \cup {None}]: content sources
    SnapFrom,    \* volumes a snapshot name is asked of
    ReqSize,     \* [Vol -> Nat]: requested size
    Pool,        \* volumes whose class or instance names a thin pool
    ReadOnly,    \* volumes published read-only
    MaxSize,     \* bound: largest size ExpandVolume asks for
    MaxFaults    \* bound: interrupted handlers and failed probes

Obj == Vol \cup Snap

\* A logical volume; from is the one it is a thin snapshot of, fs counts the mkfs runs
\* behind its filesystem, none when it is blank.
LV == [size : Nat, thin : BOOLEAN, active : BOOLEAN, from : Obj \cup {None},
       tag : Vol \cup {None}, fs : Nat, fsSize : Nat]

ASSUME Instance ==
    /\ None \notin Obj \cup LV /\ Vol \cap Snap = {}
    /\ Sources \subseteq [Vol -> Obj \cup {None}]
    /\ SnapFrom \subseteq Vol /\ Pool \subseteq Vol /\ ReadOnly \subseteq Vol
    /\ MaxSize \in Nat /\ ReqSize \in [Vol -> 1..MaxSize] /\ MaxFaults \in Nat

VARIABLES
    src,         \* the content source of each volume (fixed)
    lv,          \* the volume group, [Obj -> LV or None]
    snapOf,      \* source volume of the snapshot call in progress, or served
    cap,         \* capacity the orchestrator was told
    growing,     \* volumes whose node expansion is still required
    ctl, wanted, acked, delWanted, gone,              \* see Orchestrator
    node, mnt, bind, using, staged, published,        \* see NodeMounts
    faults

Calls == INSTANCE Orchestrator
Mounts == INSTANCE NodeMounts
expansion == <<cap, growing>>
callVars == <<ctl, wanted, acked, delWanted, gone>>
mountVars == <<node, mnt, bind, using, staged, published>>
vars == <<src, lv, snapOf, expansion, callVars, mountVars, faults>>

Init ==
    /\ src \in Sources
    /\ lv = [n \in Obj |-> None] /\ snapOf = [s \in Snap |-> None]
    /\ cap = [v \in Vol |-> 0] /\ growing = {}
    /\ Calls!Init /\ Mounts!Init /\ faults = 0

IsClone(v) == src[v] # None

\* lvs -o origin is empty once the LV a thin snapshot was taken of is gone.
Origin(n) == IF lv[n].from # None /\ lv[lv[n].from] # None
             THEN lv[n].from ELSE None

\* isThinLV; lvs fails on an LV that does not exist.
IsThin(n) == lv[n] # None /\ lv[n].thin

Larger(a, b) == IF a > b THEN a ELSE b

\* A step of a controller handler that runs no state-changing command.
Control == UNCHANGED <<src, lv, mountVars, faults>>
\* A command of a controller handler, the volume group aside.
Command == UNCHANGED <<src, snapOf, expansion, mountVars, faults>>

-----------------------------------------------------------------------------
(* CreateVolume *)

\* The orchestrator keeps the content source in place meanwhile.
CreateCall(v) ==
    /\ IsClone(v) => src[v] \in Calls!Held
    /\ Calls!Create(v, "lookup")
    /\ Control /\ UNCHANGED <<snapOf, expansion>>

\* Mutant of CreateLookup: an LV that exists satisfies the request.
CreateLookupAny(v) ==
    /\ Calls!Step(v, "lookup", IF lv[v] # None THEN "reply"
                               ELSE IF IsClone(v) THEN "clone" ELSE "plain")
    /\ Control /\ UNCHANGED <<snapOf, expansion>>

\* An existing LV of the request's size or more satisfies it; a smaller one is
\* a clone to be grown, or a clash.
CreateLookup(v) ==
    /\ Calls!Step(v, "lookup",
           IF lv[v] = None THEN IF IsClone(v) THEN "clone" ELSE "plain"
           ELSE IF lv[v].size >= ReqSize[v] THEN "reply"
           ELSE IF IsClone(v) THEN "extend" ELSE "idle")
    /\ Control /\ UNCHANGED <<snapOf, expansion>>

\* lvcreate, thin with -T and -V or thick with -L.
CreatePlain(v) ==
    /\ Calls!Step(v, "plain", "reply")
    /\ lv' = [lv EXCEPT ![v] = [size |-> ReqSize[v], thin |-> v \in Pool,
                                active |-> TRUE, from |-> None, tag |-> None,
                                fs |-> 0, fsSize |-> 0]]
    /\ Command

\* lvcreate -s of a thin source: the clone starts with the source's size and
\* filesystem, inactive (activation skip).
CreateClone(v) ==
    /\ Calls!Step(v, "clone", IF IsThin(src[v]) THEN "activate" ELSE "idle")
    /\ lv' = IF ~IsThin(src[v]) THEN lv
             ELSE [lv EXCEPT ![v] = [lv[src[v]] EXCEPT !.active = FALSE,
                                     !.from = src[v], !.tag = None]]
    /\ Command

\* lvchange -ay -Ky
CreateActivate(v) ==
    /\ Calls!Step(v, "activate", "extend")
    /\ lv' = [lv EXCEPT ![v].active = TRUE]
    /\ Command

\* extendTo: lvextend -L, where "not larger" is fine.
CreateExtend(v) ==
    /\ Calls!Step(v, "extend", "reply")
    /\ lv' = [lv EXCEPT ![v].size = Larger(@, ReqSize[v])]
    /\ Command

\* The size is read back and reported.
CreateReply(v) ==
    /\ Calls!Reply(v)
    /\ cap' = [cap EXCEPT ![v] = lv[v].size]
    /\ Control /\ UNCHANGED <<snapOf, growing>>

-----------------------------------------------------------------------------
(* DeleteVolume, ExpandVolume *)

\* A volume is deleted once no node uses it and no create copies it.
DeleteCall(n) ==
    /\ n \notin using
    /\ \A w \in (wanted \ acked) \cap Vol : src[w] # n
    /\ Calls!Delete(n, "remove")
    /\ Control /\ UNCHANGED <<snapOf, expansion>>

\* lvremove -f; an LV that is not there is fine.
DeleteRemove(n) ==
    /\ Calls!Step(n, "remove", "removed")
    /\ lv' = [lv EXCEPT ![n] = None]
    /\ Command

DeleteReply(n) ==
    Calls!DeleteReply(n) /\ Control /\ UNCHANGED <<snapOf, expansion>>

ExpandCall(v) ==
    /\ v \in Calls!Held /\ cap[v] < MaxSize
    /\ Calls!Step(v, "idle", "grow")
    /\ Control /\ UNCHANGED <<snapOf, expansion>>

\* lvextend, a no-op when an earlier try already grew the LV.
ExpandGrow(v) ==
    /\ Calls!Step(v, "grow", "grown")
    /\ lv' = [lv EXCEPT ![v].size = Larger(@, cap[v] + 1)]
    /\ Command

\* The response: NodeExpansionRequired.
ExpandReply(v) ==
    /\ Calls!Step(v, "grown", "idle")
    /\ cap' = [cap EXCEPT ![v] = lv[v].size]
    /\ growing' = growing \cup {v}
    /\ Control /\ UNCHANGED snapOf

-----------------------------------------------------------------------------
(* CreateSnapshot; DeleteSnapshot is DeleteRemove of the snapshot's LV *)

SnapCall(s, v) ==
    /\ v \in SnapFrom /\ v \in Calls!Held
    /\ Calls!Create(s, "check")
    /\ snapOf' = [snapOf EXCEPT ![s] = v]
    /\ Control /\ UNCHANGED expansion

\* Thin sources only; a snapshot of this name whose origin is another LV is
\* refused.
SnapCheck(s) ==
    /\ Calls!Step(s, "check", IF /\ IsThin(snapOf[s])
                                 /\ lv[s] = None \/ Origin(s) = snapOf[s]
                              THEN "snap" ELSE "idle")
    /\ Control /\ UNCHANGED <<snapOf, expansion>>

\* Mutant of SnapCreate: the source is not recorded in a tag.
SnapCreateUntagged(s) ==
    LET fails == lv[s] = None /\ lv[snapOf[s]] = None IN
    /\ Calls!Step(s, "snap", IF fails THEN "idle" ELSE "reply")
    /\ lv' = IF fails \/ lv[s] # None THEN lv
             ELSE [lv EXCEPT ![s] = [lv[snapOf[s]] EXCEPT !.active = FALSE,
                                     !.from = snapOf[s], !.tag = None]]
    /\ Command

\* lvcreate -s -pr --addtag: read-only, tagged with its source; a snapshot left
\* by an earlier try is reused, and a source that went away is an error.
SnapCreate(s) ==
    LET fails == lv[s] = None /\ lv[snapOf[s]] = None IN
    /\ Calls!Step(s, "snap", IF fails THEN "idle" ELSE "reply")
    /\ lv' = IF fails \/ lv[s] # None THEN lv
             ELSE [lv EXCEPT ![s] = [lv[snapOf[s]] EXCEPT !.active = FALSE,
                                     !.from = snapOf[s], !.tag = snapOf[s]]]
    /\ Command

SnapReply(s) == Calls!Reply(s) /\ Control /\ UNCHANGED <<snapOf, expansion>>

-----------------------------------------------------------------------------
(* The node *)

NodeOnly == UNCHANGED <<src, snapOf, callVars, faults>>

StageCall(v) ==
    /\ v \in Calls!Held
    /\ Mounts!StageCall(v, "format")
    /\ NodeOnly /\ UNCHANGED <<lv, expansion>>

NodeGoto(v, from, to) ==
    /\ node[v] = from
    /\ node' = [node EXCEPT ![v] = to]
    /\ UNCHANGED <<mnt, bind, using, staged, published>>

\* ensureFormatted's mkfs: it needs the device, which an inactive LV lacks, and
\* refuses one that is mounted.
Mkfs(v) ==
    /\ NodeGoto(v, "format", IF lv[v].active /\ v \notin mnt THEN "mount" ELSE "idle")
    /\ lv' = IF lv[v].active /\ v \notin mnt
             THEN [lv EXCEPT ![v].fs = @ + 1, ![v].fsSize = lv[v].size] ELSE lv

\* A blkid that fails is a fault.
Probed(fails) ==
    /\ fails => faults < MaxFaults
    /\ faults' = IF fails THEN faults + 1 ELSE faults
    /\ UNCHANGED <<src, snapOf, callVars, expansion>>

\* Mutant of StageFormat: the device is always formatted.
StageFormatAlways(v, fails) == Mkfs(v) /\ Probed(fails)

\* ensureFormatted: blkid, then mkfs where blkid named no filesystem, be it that the
\* LV is blank, that it has no device or that blkid failed: the error is dropped.
StageFormat(v, fails) ==
    /\ node[v] = "format"
    /\ IF lv[v].active /\ lv[v].fs # 0 /\ ~fails
       THEN NodeGoto(v, "format", "mount") /\ lv' = lv
       ELSE Mkfs(v)
    /\ Probed(fails)

\* Mutant of StageFill: the filesystem of a clone is left at its source's size.
StageFillNot(v) ==
    NodeGoto(v, "fill", "staged") /\ NodeOnly /\ UNCHANGED <<lv, expansion>>

\* growFilesystem to the device's size.
StageFill(v) ==
    /\ NodeGoto(v, "fill", "staged")
    /\ lv' = [lv EXCEPT ![v].fsSize = lv[v].size]
    /\ NodeOnly /\ UNCHANGED expansion

StageMount(v) ==
    /\ Mounts!Mount(v, "fill") \/ Mounts!StageReply(v)
    /\ NodeOnly /\ UNCHANGED <<lv, expansion>>

NodeUnstage(v) == Mounts!Unstage(v) /\ NodeOnly /\ UNCHANGED <<lv, expansion>>

NodePublish(v) ==
    /\ Mounts!PublishCall(v) \/ Mounts!Bind(v) \/ Mounts!Remount(v)
    /\ NodeOnly /\ UNCHANGED <<lv, expansion>>

NodeUnpublish(v) ==
    Mounts!Unpublish(v) /\ NodeOnly /\ UNCHANGED <<lv, expansion>>

\* NodeExpand grows the filesystem under the published path.
NodeExpand(v) ==
    /\ node[v] = "idle" /\ v \in published \cap growing
    /\ lv' = [lv EXCEPT ![v].fsSize = lv[v].size]
    /\ growing' = growing \ {v}
    /\ NodeOnly /\ UNCHANGED <<cap, mountVars>>

-----------------------------------------------------------------------------
Interrupt(n) ==
    /\ faults < MaxFaults /\ faults' = faults + 1
    /\ \/ Calls!Interrupt(n) /\ UNCHANGED mountVars
       \/ n \in Vol /\ Mounts!Interrupt(n) /\ UNCHANGED callVars
    /\ UNCHANGED <<src, lv, snapOf, expansion>>

Next ==
    \/ \E v \in Vol :
         \/ CreateCall(v) \/ CreateLookup(v) \/ CreatePlain(v) \/ CreateClone(v)
         \/ CreateActivate(v) \/ CreateExtend(v) \/ CreateReply(v)
         \/ ExpandCall(v) \/ ExpandGrow(v) \/ ExpandReply(v)
         \/ StageCall(v) \/ StageMount(v) \/ StageFill(v)
         \/ NodeUnstage(v) \/ NodePublish(v) \/ NodeUnpublish(v) \/ NodeExpand(v)
         \/ \E fails \in BOOLEAN : StageFormat(v, fails)
    \/ \E s \in Snap : \/ \E v \in Vol : SnapCall(s, v)
                       \/ SnapCheck(s) \/ SnapCreate(s) \/ SnapReply(s)
    \/ \E n \in Obj : \/ DeleteCall(n) \/ DeleteRemove(n) \/ DeleteReply(n)
                      \/ Interrupt(n)

Spec == Init /\ [][Next]_vars

-----------------------------------------------------------------------------
(* Properties *)

\* ListSnapshots: the LVs with the snapshot prefix and the source each one
\* names, its origin while that lives and its tag afterwards; a snapshot
\* without a source is dropped.
SourceOf(s) == IF Origin(s) # None THEN Origin(s) ELSE lv[s].tag
ListSnapshots == {<<s, SourceOf(s)>> : s \in {t \in Snap : lv[t] # None
                                                        /\ SourceOf(t) # None}}

\* A volume is complete when its LV is as large as the request and was made
\* from the source that was asked for, a snapshot when it is one of its source.
Made(n) ==
    IF lv[n] = None THEN "absent"
    ELSE IF n \in Vol /\ lv[n].size >= ReqSize[n] /\ lv[n].from = src[n] THEN "ready"
    ELSE IF n \in Snap /\ lv[n].from = snapOf[n] THEN "ready"
    ELSE "partial"

Service == INSTANCE ObjectService WITH made <- [n \in Obj |-> Made(n)]

\* The controller calls keep what a CSI caller may rely on, whichever attempt
\* made, grew or removed the LV: an acknowledged volume or snapshot is whole and
\* stays, the snapshot after the deletion of its source too, and an acknowledged
\* deletion leaves nothing.
Served == Service!Spec

\* An acknowledged snapshot is listed with the volume it was taken of, also
\* when that volume is gone and the origin attribute with it.
SnapshotsListed ==
    \A s \in Snap \cap Calls!Held : <<s, snapOf[s]>> \in ListSnapshots

\* The filesystem of a staged volume fills its device, whatever it was cloned
\* from, unless an expansion still waits for its node step.
StagedFills ==
    \A v \in staged :
        /\ lv[v].fs # 0
        /\ v \notin growing /\ cap[v] = lv[v].size => lv[v].fsSize = lv[v].size

\* No step but the removal of its LV takes a filesystem away or replaces it, unless it
\* is a mkfs whose blkid failed.
DataSurvives ==
    [][\A n \in Obj : lv[n] # None /\ lv'[n] # None /\ lv[n].fs # 0 /\ faults' = faults
                            => lv'[n].fs = lv[n].fs]_vars
=============================================================================
