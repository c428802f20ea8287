------------------------------ MODULE NfsVolumes ------------------------------
(***************************************************************************)
(* The NFS plugin: a volume is a subdirectory of the instance's export, a   *)
(* snapshot a tar archive beside it with a sidecar file naming its source.  *)
(* Each controller handler mounts the export at a directory of its own,     *)
(* works through it and unmounts; the work of tar, cp and RemoveAll is not  *)
(* atomic, so an interrupted handler can leave any part of it.  The plugin  *)
(* keeps no state of its own.                                               *)
(***************************************************************************)
EXTENDS Naturals

CONSTANTS
    Vol, Snap,
    None,
    Plans,       \* set of [src, dir, onDelete, orderly]: what a behaviour is about
    SnapFrom,    \* volumes a snapshot name is asked of
    ReadOnly,    \* volumes published read-only
    MaxFaults    \* bound: interrupted handlers, failed umounts and writes

Obj == Vol \cup Snap

\* A volume's directory and what was copied into it, and a snapshot's archive.
Directory == [owner : Vol, from : Obj \cup {None, "part"}]
Archive == [of : Vol, whole : BOOLEAN]

ASSUME Instance ==
    /\ None \notin Obj \cup Directory \cup Archive /\ "part" \notin Obj \cup {None}
    /\ Vol \cap Snap = {}
    /\ \A p \in Plans : /\ p.src \in [Vol -> Obj \cup {None}]
                        /\ DOMAIN p.dir = Vol
                        /\ p.onDelete \in {"delete", "archive", "retain"}
                        /\ p.orderly \in BOOLEAN
    /\ SnapFrom \subseteq Vol /\ ReadOnly \subseteq Vol /\ MaxFaults \in Nat

VARIABLES
    plan,        \* the plan of this behaviour (fixed)
    dir,         \* the export: path -> Directory, or None
    archived,    \* directories that have an archived- sibling
    tar,         \* snapshot archives: Archive, or None
    label,       \* snapshot sidecars: the source's directory, or None
    snapOf,      \* source volume of the snapshot call in progress, or served
    ctl, wanted, acked, delWanted, gone,              \* see Orchestrator
    node, mnt, bind, using, staged, published,        \* see NodeMounts
    faults

Calls == INSTANCE Orchestrator
Mounts == INSTANCE NodeMounts
volumes == <<dir, archived>>
snapshots == <<tar, label, snapOf>>
callVars == <<ctl, wanted, acked, delWanted, gone>>
mountVars == <<node, mnt, bind, using, staged, published>>
vars == <<plan, volumes, snapshots, callVars, mountVars, faults>>

\* volDir: the subDir template of the class, expanded, or the hashed name.  Two
\* volumes have the same directory when their template expands to the same path.
Dirs == UNION {{p.dir[v] : v \in Vol} : p \in Plans}
DirOf(v) == plan.dir[v]
Rivals(v) == {w \in Vol \ {v} : DirOf(w) = DirOf(v)}
Src(v) == plan.src[v]

Init ==
    /\ plan \in Plans
    /\ dir = [d \in Dirs |-> None] /\ archived = {}
    /\ tar = [s \in Snap |-> None] /\ label = [s \in Snap |-> None]
    /\ snapOf = [s \in Snap |-> None]
    /\ Calls!Init /\ Mounts!Init /\ faults = 0

\* A step of a controller handler, the export aside.
Control == UNCHANGED <<plan, mountVars, faults>>

-----------------------------------------------------------------------------
(* CreateVolume *)

\* The plugin asks for no other volume of the directory.  In an orderly plan the
\* claims are such that a directory is asked for again only after the volume that
\* had it is gone, and its data with it.
CreateCall(v) ==
    /\ Src(v) # None => Src(v) \in Calls!Held
    /\ plan.orderly => \A w \in wanted \cap Rivals(v) :
                          w \in gone /\ plan.onDelete # "retain"
    /\ Calls!Create(v, "mkdir")
    /\ Control /\ UNCHANGED <<volumes, snapshots>>

\* MkdirAll: a directory that exists is used as it is.
CreateMkdir(v) ==
    /\ Calls!Step(v, "mkdir", IF Src(v) = None THEN "umount" ELSE "fill")
    /\ dir' = [dir EXCEPT ![DirOf(v)] =
                 IF @ = None THEN [owner |-> v, from |-> None] ELSE @]
    /\ Control /\ UNCHANGED <<archived, snapshots>>

\* Mutant of CreateFill: a directory an earlier try began to fill is left.
CreateFillOnce(v) ==
    /\ Calls!Step(v, "fill", "umount")
    /\ dir[DirOf(v)] # None
    /\ dir' = [dir EXCEPT ![DirOf(v)].from = IF @ = None THEN Src(v) ELSE @]
    /\ Control /\ UNCHANGED <<archived, snapshots>>

\* What there is to copy: an archive to extract, a directory.
Readable(n) == IF n \in Snap THEN tar[n] # None ELSE dir[DirOf(n)] # None

\* tar xzf or cp -a: the whole content is copied again on every try.  A directory
\* that was removed meanwhile, with a rival, is made by cp and missed by tar.
CreateFill(v) ==
    LET d  == dir[DirOf(v)]
        ok == Readable(Src(v)) /\ (Src(v) \in Snap => d # None)
    IN
    /\ Calls!Step(v, "fill", IF ok THEN "umount" ELSE "idle")
    /\ dir' = IF ~ok THEN dir
              ELSE [dir EXCEPT ![DirOf(v)] = [owner |-> IF d = None THEN v ELSE d.owner,
                                              from |-> Src(v)]]
    /\ Control /\ UNCHANGED <<archived, snapshots>>

-----------------------------------------------------------------------------
(* DeleteVolume *)

DeleteCall(v) ==
    /\ v \notin using
    /\ \A w \in (wanted \ acked) \cap Vol : Src(w) # v
    /\ Calls!Delete(v, IF plan.onDelete = "retain" THEN "removed" ELSE "remove")
    /\ Control /\ UNCHANGED <<volumes, snapshots>>

\* RemoveAll, or the rename to archived-<dir>: missing is fine, but a rename
\* onto an archive that is already there fails.
DeleteRemove(v) ==
    LET archive == plan.onDelete = "archive" /\ dir[DirOf(v)] # None
        taken   == archive /\ DirOf(v) \in archived
    IN  /\ Calls!Step(v, "remove", IF taken THEN "idle" ELSE "umountRemoved")
        /\ dir' = IF taken THEN dir ELSE [dir EXCEPT ![DirOf(v)] = None]
        /\ archived' = IF archive THEN archived \cup {DirOf(v)} ELSE archived
        /\ Control /\ UNCHANGED snapshots

-----------------------------------------------------------------------------
(* CreateSnapshot, DeleteSnapshot *)

SnapCall(s, v) ==
    /\ v \in SnapFrom /\ v \in Calls!Held
    /\ Calls!Create(s, "check")
    /\ snapOf' = [snapOf EXCEPT ![s] = v]
    /\ Control /\ UNCHANGED <<volumes, tar, label>>

\* The sidecar arbitrates a name that was used for another directory; without one
\* the archive is taken over.
SnapCheck(s) ==
    /\ Calls!Step(s, "check", IF label[s] \in {None, DirOf(snapOf[s])} THEN "tar"
                              ELSE "idle")
    /\ Control /\ UNCHANGED <<volumes, snapshots>>

\* tar czf overwrites in place.
SnapTar(s) ==
    LET ok == Readable(snapOf[s]) IN
    /\ Calls!Step(s, "tar", IF ok THEN "label" ELSE "idle")
    /\ tar' = IF ok THEN [tar EXCEPT ![s] = [of |-> snapOf[s], whole |-> TRUE]]
              ELSE tar
    /\ Control /\ UNCHANGED <<volumes, label, snapOf>>

SnapLabel(s) ==
    /\ Calls!Step(s, "label", "umount")
    /\ label' = [label EXCEPT ![s] = DirOf(snapOf[s])]
    /\ Control /\ UNCHANGED <<volumes, tar, snapOf>>

\* The sidecar is best-effort: the call goes on without it.
SnapLabelFails(s) ==
    /\ Calls!Step(s, "label", "umount")
    /\ faults < MaxFaults /\ faults' = faults + 1
    /\ UNCHANGED <<plan, mountVars, volumes, tar, label, snapOf>>

UnsnapCall(s) ==
    /\ \A w \in (wanted \ acked) \cap Vol : Src(w) # s
    /\ Calls!Delete(s, "unlabel")
    /\ Control /\ UNCHANGED <<volumes, snapshots>>

\* The sidecar goes first, then the archive.
UnsnapUnlabel(s) ==
    /\ Calls!Step(s, "unlabel", "untar")
    /\ label' = [label EXCEPT ![s] = None]
    /\ Control /\ UNCHANGED <<volumes, tar, snapOf>>

UnsnapUntar(s) ==
    /\ Calls!Step(s, "untar", "umountRemoved")
    /\ tar' = [tar EXCEPT ![s] = None]
    /\ Control /\ UNCHANGED <<volumes, label, snapOf>>

-----------------------------------------------------------------------------
(* withExportMounted and the responses *)

\* The handler's own mount is detached, on a context of its own, before the
\* response.
Umount(n) ==
    /\ Calls!Step(n, "umount", "reply") \/ Calls!Step(n, "umountRemoved", "removed")
    /\ Control /\ UNCHANGED <<volumes, snapshots>>

\* When it cannot be detached the call fails although its work is done, and the
\* mountpoint, with the export still in it, is left alone.
UmountFails(n) ==
    /\ Calls!Step(n, "umount", "idle") \/ Calls!Step(n, "umountRemoved", "idle")
    /\ faults < MaxFaults /\ faults' = faults + 1
    /\ UNCHANGED <<plan, mountVars, volumes, snapshots>>

Respond(n) ==
    /\ Calls!Reply(n) \/ Calls!DeleteReply(n)
    /\ Control /\ UNCHANGED <<volumes, snapshots>>

-----------------------------------------------------------------------------
(* The node: a volume is an NFS mount of its directory *)

NodeOnly == UNCHANGED <<plan, volumes, snapshots, callVars, faults>>

NodeStage(v) ==
    /\ \/ v \in Calls!Held /\ Mounts!StageCall(v, "mount")
       \/ Mounts!Mount(v, "staged") \/ Mounts!StageReply(v)
    /\ NodeOnly

NodeUnstage(v) == Mounts!Unstage(v) /\ NodeOnly

NodePublish(v) ==
    (Mounts!PublishCall(v) \/ Mounts!Bind(v) \/ Mounts!Remount(v)) /\ NodeOnly

NodeUnpublish(v) == Mounts!Unpublish(v) /\ NodeOnly

-----------------------------------------------------------------------------
\* A handler dies: what it was copying, archiving or removing may be left half
\* done.
Interrupt(n) ==
    /\ faults < MaxFaults /\ faults' = faults + 1
    /\ Calls!Interrupt(n)
    /\ \/ UNCHANGED <<dir, tar>>
       \/ /\ ctl[n] = "tar"
          /\ tar' = [tar EXCEPT ![n] = [of |-> snapOf[n], whole |-> FALSE]]
          /\ UNCHANGED dir
       \/ /\ ctl[n] = "fill" \/ (ctl[n] = "remove" /\ plan.onDelete = "delete")
          /\ dir[DirOf(n)] # None
          /\ dir' = [dir EXCEPT ![DirOf(n)].from = "part"]
          /\ UNCHANGED tar
    /\ UNCHANGED <<plan, archived, label, snapOf, mountVars>>

InterruptNode(v) ==
    /\ faults < MaxFaults /\ faults' = faults + 1
    /\ Mounts!Interrupt(v)
    /\ UNCHANGED <<plan, volumes, snapshots, callVars>>

Next ==
    \/ \E v \in Vol :
         \/ CreateCall(v) \/ CreateMkdir(v) \/ CreateFill(v)
         \/ DeleteCall(v) \/ DeleteRemove(v)
         \/ NodeStage(v) \/ NodeUnstage(v) \/ NodePublish(v) \/ NodeUnpublish(v)
         \/ InterruptNode(v)
    \/ \E s \in Snap :
         \/ \E v \in Vol : SnapCall(s, v)
         \/ SnapCheck(s) \/ SnapTar(s) \/ SnapLabel(s) \/ SnapLabelFails(s)
         \/ UnsnapCall(s) \/ UnsnapUnlabel(s) \/ UnsnapUntar(s)
    \/ \E n \in Obj : Umount(n) \/ UmountFails(n) \/ Respond(n) \/ Interrupt(n)

Spec == Init /\ [][Next]_vars

-----------------------------------------------------------------------------
(* Properties *)

\* A volume is complete when its directory is its own and holds all of the
\* content that was asked for; a retained one leaves the service when its
\* deletion is acknowledged.
MadeVolume(v) ==
    LET d == dir[DirOf(v)] IN
    IF d = None \/ d.owner # v \/ (plan.onDelete = "retain" /\ v \in gone)
    THEN "absent"
    ELSE IF d.from = Src(v) THEN "ready" ELSE "partial"

\* A snapshot is complete when its archive is whole and of the source that was
\* asked for, whether its sidecar could be written or not.
MadeSnapshot(s) ==
    IF tar[s] = None THEN "absent"
    ELSE IF tar[s].whole /\ tar[s].of = snapOf[s] THEN "ready" ELSE "partial"

\* What the plugin can keep: the snapshots, and the volumes that do not meet another
\* one in their directory.  It tells those apart by nothing: a deletion retried for
\* the old volume of a directory removes the new one.
Keepable == Snap \cup {v \in Vol : plan.orderly \/ Rivals(v) = {}}

Service == INSTANCE ObjectService WITH
    made <- [n \in Obj |-> IF n \notin Keepable THEN "absent"
                           ELSE IF n \in Vol THEN MadeVolume(n) ELSE MadeSnapshot(n)],
    wanted <- wanted \cap Keepable, acked <- acked \cap Keepable,
    delWanted <- delWanted \cap Keepable, gone <- gone \cap Keepable

\* The controller calls keep what a CSI caller may rely on, but for volumes that
\* share a directory at the same time: an acknowledged volume has the whole content
\* of its source however often the copy was interrupted, an acknowledged snapshot is
\* a whole archive of its own source, no handler's mount clean-up takes either away,
\* and an acknowledged deletion leaves nothing in its place.
Served == Service!Spec

\* NodeStage, NodePublish and their undoing, interrupted and retried: a volume the
\* kubelet was told is staged or published is mounted, and one it was told is
\* unstaged is not, so that its directory may be removed.
KubeletToldTrue == Mounts!ToldIsSo
=============================================================================
