----------------------------- MODULE IscsiVolumes -----------------------------
(***************************************************************************)
(* The controller side of the iscsi plugin: a volume is a logical volume    *)
(* and its LIO export (backstore, target, portals, LUN, masking), made by   *)
(* local lvm and targetcli commands, or a volume of a remote targetd; a     *)
(* node reaches it once ControllerPublish has put it on the access list.    *)
(* Snapshots and clones are thin LVs, under local management only.  Every   *)
(* state-changing command or RPC is a step, together with the reads that    *)
(* precede it.  One node; IscsiTarget models what the node does with it.    *)
(***************************************************************************)
EXTENDS Integers

CONSTANTS
    Vol, Snap,   \* volumes and snapshots
    None,
    Plans,       \* set of plans, see Plan
    SnapFrom,    \* volumes a snapshot name is asked of
    ReqSize,     \* [Vol -> Nat]: requested size
    Pool,        \* volumes whose class or instance names a thin pool
    MaxSize      \* bound: largest size ExpandVolume asks for

Obj == Vol \cup Snap

\* A logical volume, or a volume of targetd; from is the one it is a thin
\* snapshot of.
LV == [size : Nat, thin : BOOLEAN, active : BOOLEAN, from : Obj \cup {None}]

\* The volumes asked for, those attached to the node, the content sources; the
\* instance's management, whether it has several portals, whether it enforces
\* CHAP (inst refuses that of a targetd instance) and whether it keeps the
\* default iqnBase; bounds: interrupted handlers,
\* times the instance drops out of the config.
Plan == [vols : SUBSET Vol, attach : SUBSET Vol, src : [Vol -> Obj \cup {None}],
         targetd : BOOLEAN, paths : BOOLEAN, chap : BOOLEAN,
         defaultBase : BOOLEAN, faults : Nat, outages : Nat]

ASSUME Instance ==
    /\ None \notin Obj \cup LV /\ Vol \cap Snap = {}
    /\ \A p \in Plans : /\ p.attach \subseteq p.vols /\ p.vols \subseteq Vol
                        /\ p.src \in [Vol -> Obj \cup {None}]
                        /\ p.targetd => ~ p.chap
                        /\ p.faults \in Nat /\ p.outages \in Nat
    /\ SnapFrom \subseteq Vol /\ Pool \subseteq Vol
    /\ MaxSize \in Nat /\ ReqSize \in [Vol -> 1..MaxSize]

VARIABLES
    plan,        \* the plan of this behaviour (fixed)
    lv,          \* [Obj -> LV or None]
    lio,         \* [Vol -> pieces of the LIO export that exist]
    acl, auth,   \* volumes the node has access to, with credentials set
    snapOf,      \* source volume of the snapshot call in progress, or served
    cap,         \* capacity the orchestrator was told
    ctl, wanted, acked, delWanted, gone,    \* see Orchestrator
    att,         \* [Vol -> step of the attach or detach handler]
    asked,       \* volumes whose attachment was asked for, and no detach granted
    attached,    \* volumes the attacher was told are attached
    config,      \* the plugin's configuration has the instance
    faults, outages

Piece == {"backstore", "target", "portals", "lun", "mask"}

Calls == INSTANCE Orchestrator
callVars == <<ctl, wanted, acked, delWanted, gone>>
access == <<acl, auth, att, asked, attached>>
env == <<plan, config, faults, outages>>
vars == <<lv, lio, access, snapOf, cap, callVars, env>>

Init ==
    /\ plan \in Plans
    /\ lv = [n \in Obj |-> None] /\ lio = [v \in Vol |-> {}]
    /\ acl = {} /\ auth = {} /\ asked = {} /\ attached = {}
    /\ att = [v \in Vol |-> "idle"]
    /\ snapOf = [s \in Snap |-> None] /\ cap = [v \in Vol |-> 0]
    /\ Calls!Init /\ config = TRUE /\ faults = 0 /\ outages = 0

IsClone(v) == plan.src[v] # None
IsThin(n) == lv[n] # None /\ lv[n].thin
Origin(n) == IF lv[n].from # None /\ lv[lv[n].from] # None
             THEN lv[n].from ELSE None
Larger(a, b) == IF a > b THEN a ELSE b

\* The pieces of a complete export; a targetd instance has one target for all.
FullExport ==
    IF plan.targetd THEN {} ELSE IF plan.paths THEN Piece ELSE Piece \ {"portals"}

\* The target and initiator IQNs are rebuilt from the instance's iqnBase, or
\* from the default one when the instance is not configured.
RightIQN == config \/ plan.defaultBase

Control == UNCHANGED <<lv, lio, access, env>>
Storage == UNCHANGED <<lio, access, snapOf, cap, env>>

-----------------------------------------------------------------------------
(* CreateVolume *)

\* The instance must be configured; targetd makes no clones.
CreateCall(v) ==
    /\ config /\ v \in plan.vols
    /\ IsClone(v) => ~ plan.targetd /\ plan.src[v] \in Calls!Held
    /\ Calls!Create(v, IF plan.targetd THEN "vol_create" ELSE "lookup")
    /\ Control /\ UNCHANGED <<snapOf, cap>>

\* An existing LV of the request's size or more satisfies it; a smaller one is
\* a clone to be grown, or a clash.
CreateLookup(v) ==
    /\ Calls!Step(v, "lookup",
           IF lv[v] = None THEN IF IsClone(v) THEN "clone" ELSE "plain"
           ELSE IF lv[v].size >= ReqSize[v] THEN "backstore"
           ELSE IF IsClone(v) THEN "extend" ELSE "idle")
    /\ Control /\ UNCHANGED <<snapOf, cap>>

CreatePlain(v) ==
    /\ Calls!Step(v, "plain", "backstore")
    /\ lv' = [lv EXCEPT ![v] = [size |-> ReqSize[v], thin |-> v \in Pool,
                                active |-> TRUE, from |-> None]]
    /\ Storage

\* lvcreate -s of a thin source leaves the clone inactive (activation skip).
CreateClone(v) ==
    LET s == plan.src[v] IN
    /\ Calls!Step(v, "clone", IF IsThin(s) THEN "activate" ELSE "idle")
    /\ lv' = IF ~ IsThin(s) THEN lv
             ELSE [lv EXCEPT ![v] = [lv[s] EXCEPT !.active = FALSE, !.from = s]]
    /\ Storage

CreateActivate(v) ==
    /\ Calls!Step(v, "activate", "extend")
    /\ lv' = [lv EXCEPT ![v].active = TRUE]
    /\ Storage

CreateExtend(v) ==
    /\ Calls!Step(v, "extend", "backstore")
    /\ lv' = [lv EXCEPT ![v].size = Larger(@, ReqSize[v])]
    /\ Storage

\* The step after each piece of the export.
After(p) ==
    [backstore |-> "target", target |-> IF plan.paths THEN "portals" ELSE "lun",
     portals |-> "lun", lun |-> "mask", mask |-> "reply"][p]

\* Mutant of CreateExport: a backstore that exists ends the create.
CreateExportOnce(v) ==
    /\ ctl[v] \in Piece
    /\ Calls!Step(v, ctl[v], IF ctl[v] \in lio[v] THEN "reply" ELSE After(ctl[v]))
    /\ lio' = [lio EXCEPT ![v] = @ \cup {ctl[v]}]
    /\ UNCHANGED <<lv, access, snapOf, cap, env>>

\* targetcli makes one piece after the other, and "already exists" is fine.  A
\* backstore needs the LV's device, which an inactive LV does not have.
CreateExport(v) ==
    LET p == ctl[v]
        fails == p = "backstore" /\ p \notin lio[v] /\ ~ lv[v].active
    IN  /\ p \in Piece
        /\ Calls!Step(v, p, IF fails THEN "idle" ELSE After(p))
        /\ lio' = IF fails THEN lio ELSE [lio EXCEPT ![v] = @ \cup {p}]
        /\ UNCHANGED <<lv, access, snapOf, cap, env>>

\* targetd's vol_create; a volume that exists is compared with the request.
CreateRemote(v) ==
    /\ Calls!Step(v, "vol_create",
           IF lv[v] # None /\ lv[v].size < ReqSize[v] THEN "idle" ELSE "reply")
    /\ lv' = IF lv[v] # None THEN lv
             ELSE [lv EXCEPT ![v] = [size |-> ReqSize[v], thin |-> FALSE,
                                     active |-> TRUE, from |-> None]]
    /\ Storage

CreateReply(v) ==
    /\ Calls!Reply(v)
    /\ cap' = [cap EXCEPT ![v] = IF plan.targetd THEN ReqSize[v] ELSE lv[v].size]
    /\ Control /\ UNCHANGED snapOf

-----------------------------------------------------------------------------
(* DeleteVolume, ExpandVolume *)

\* A volume is deleted once it is detached and no create copies it.  A targetd
\* volume cannot be reached without the instance's configuration.
DeleteCall(v) ==
    /\ v \notin asked /\ att[v] = "idle"
    /\ \A w \in (wanted \ acked) \cap Vol : plan.src[w] # v
    /\ plan.targetd => config
    /\ Calls!Delete(v, IF plan.targetd THEN "revoke" ELSE "untarget")
    /\ Control /\ UNCHANGED <<snapOf, cap>>

\* Deleting the target takes its portals, LUN, attributes and access list.
DeleteTarget(v) ==
    /\ Calls!Step(v, "untarget", "unback")
    /\ IF RightIQN
       THEN /\ lio' = [lio EXCEPT ![v] = @ \cap {"backstore"}]
            /\ acl' = acl \ {v} /\ auth' = auth \ {v}
       ELSE UNCHANGED <<lio, acl, auth>>
    /\ UNCHANGED <<lv, att, asked, attached, snapOf, cap, env>>

\* Deleting the backstore takes the LUN that maps it.
DeleteBackstore(v) ==
    /\ Calls!Step(v, "unback", "remove")
    /\ lio' = [lio EXCEPT ![v] = @ \ {"backstore", "lun"}]
    /\ UNCHANGED <<lv, access, snapOf, cap, env>>

\* targetd: every export of the volume is destroyed first.
DeleteRevoke(v) ==
    /\ Calls!Step(v, "revoke", "destroy")
    /\ acl' = acl \ {v}
    /\ UNCHANGED <<lv, lio, auth, att, asked, attached, snapOf, cap, env>>

\* Mutant of DeleteRemove: an LV that is not there is an error.
DeleteRemoveStrict(n) ==
    /\ Calls!Step(n, "remove", IF lv[n] = None THEN "idle" ELSE "removed")
    /\ lv' = [lv EXCEPT ![n] = None]
    /\ Storage

\* lvremove; an LV that is not there is fine.
DeleteRemove(n) ==
    /\ Calls!Step(n, "remove", "removed")
    /\ lv' = [lv EXCEPT ![n] = None]
    /\ Storage

\* vol_destroy, which targetd refuses for a volume that is exported.
DeleteRemote(v) ==
    /\ Calls!Step(v, "destroy", IF v \in acl THEN "idle" ELSE "removed")
    /\ lv' = IF v \in acl THEN lv ELSE [lv EXCEPT ![v] = None]
    /\ Storage

DeleteReply(n) ==
    Calls!DeleteReply(n) /\ Control /\ UNCHANGED <<snapOf, cap>>

ExpandCall(v) ==
    /\ v \in Calls!Held /\ cap[v] < MaxSize
    /\ plan.targetd => config
    /\ Calls!Step(v, "idle", IF plan.targetd THEN "vol_resize" ELSE "grow")
    /\ Control /\ UNCHANGED <<snapOf, cap>>

\* lvextend; an LV that is large enough is fine.
ExpandGrow(v) ==
    /\ Calls!Step(v, "grow", "grown")
    /\ lv' = [lv EXCEPT ![v].size = Larger(@, cap[v] + 1)]
    /\ Storage

\* vol_resize, when vol_list shows a smaller volume.
ExpandRemote(v) ==
    /\ Calls!Step(v, "vol_resize", "grown")
    /\ lv' = IF lv[v].size >= cap[v] + 1 THEN lv
             ELSE [lv EXCEPT ![v].size = cap[v] + 1]
    /\ Storage

ExpandReply(v) ==
    /\ Calls!Step(v, "grown", "idle")
    /\ cap' = [cap EXCEPT ![v] = lv[v].size]
    /\ Control /\ UNCHANGED snapOf

-----------------------------------------------------------------------------
(* CreateSnapshot, DeleteSnapshot *)

SnapCall(s, v) ==
    /\ config /\ ~ plan.targetd
    /\ v \in SnapFrom /\ v \in Calls!Held
    /\ Calls!Create(s, "check")
    /\ snapOf' = [snapOf EXCEPT ![s] = v]
    /\ Control /\ UNCHANGED cap

\* Thin sources only; a name taken by a snapshot of another LV is refused.
SnapCheck(s) ==
    /\ Calls!Step(s, "check", IF /\ IsThin(snapOf[s])
                                 /\ lv[s] = None \/ Origin(s) = snapOf[s]
                              THEN "snap" ELSE "idle")
    /\ Control /\ UNCHANGED <<snapOf, cap>>

SnapCreate(s) ==
    LET fails == lv[s] = None /\ lv[snapOf[s]] = None IN
    /\ Calls!Step(s, "snap", IF fails THEN "idle" ELSE "reply")
    /\ lv' = IF fails \/ lv[s] # None THEN lv
             ELSE [lv EXCEPT ![s] = [lv[snapOf[s]] EXCEPT !.active = FALSE,
                                                          !.from = snapOf[s]]]
    /\ Storage

SnapReply(s) == Calls!Reply(s) /\ Control /\ UNCHANGED <<snapOf, cap>>

SnapDelete(s) ==
    /\ \A w \in (wanted \ acked) \cap Vol : plan.src[w] # s
    /\ Calls!Delete(s, "remove")
    /\ Control /\ UNCHANGED <<snapOf, cap>>

-----------------------------------------------------------------------------
(* ControllerPublish, ControllerUnpublish *)

Array == UNCHANGED <<lv, lio, snapOf, cap, callVars, env>>

AttachGoto(v, from, to) == att[v] = from /\ att' = [att EXCEPT ![v] = to]

\* The external-attacher asks for a volume that is there.
PublishCall(v) ==
    /\ config /\ v \in (Calls!Held \cap plan.attach) \ attached
    /\ AttachGoto(v, "idle", IF plan.targetd THEN "grant" ELSE "acl")
    /\ asked' = asked \cup {v}
    /\ Array /\ UNCHANGED <<acl, auth, attached>>

\* Mutant of PublishAcl: an entry that exists is taken to be complete.
PublishAclOnce(v) ==
    /\ AttachGoto(v, "acl", IF plan.chap /\ v \notin acl THEN "auth" ELSE "told")
    /\ acl' = acl \cup {v}
    /\ Array /\ UNCHANGED <<auth, asked, attached>>

\* acls create: an entry that exists is fine.
PublishAcl(v) ==
    /\ AttachGoto(v, "acl", IF plan.chap THEN "auth" ELSE "told")
    /\ acl' = acl \cup {v}
    /\ Array /\ UNCHANGED <<auth, asked, attached>>

\* The CHAP credentials of the entry.
PublishAuth(v) ==
    /\ AttachGoto(v, "auth", "told")
    /\ auth' = auth \cup {v}
    /\ Array /\ UNCHANGED <<acl, asked, attached>>

\* grantAccess: an export to the node's initiator, unless there is one.
PublishGrant(v) ==
    /\ AttachGoto(v, "grant", "told")
    /\ acl' = acl \cup {v}
    /\ Array /\ UNCHANGED <<auth, asked, attached>>

PublishReply(v) ==
    /\ AttachGoto(v, "told", "idle")
    /\ attached' = attached \cup {v}
    /\ Array /\ UNCHANGED <<acl, auth, asked>>

UnpublishCall(v) ==
    /\ v \in asked
    /\ plan.targetd => config
    /\ AttachGoto(v, "idle", IF plan.targetd THEN "ungrant" ELSE "unacl")
    /\ attached' = attached \ {v}
    /\ Array /\ UNCHANGED <<acl, auth, asked>>

\* The entry is deleted with its credentials; a target or entry that is not
\* found is fine.
UnpublishAcl(v) ==
    /\ AttachGoto(v, "unacl", "detached")
    /\ acl' = IF RightIQN THEN acl \ {v} ELSE acl
    /\ auth' = IF RightIQN THEN auth \ {v} ELSE auth
    /\ Array /\ UNCHANGED <<asked, attached>>

\* revokeAccess: an export that is gone is fine.
UnpublishRevoke(v) ==
    /\ AttachGoto(v, "ungrant", "detached")
    /\ acl' = acl \ {v}
    /\ Array /\ UNCHANGED <<auth, asked, attached>>

UnpublishReply(v) ==
    /\ AttachGoto(v, "detached", "idle")
    /\ asked' = asked \ {v}
    /\ Array /\ UNCHANGED <<acl, auth, attached>>

-----------------------------------------------------------------------------
(* Faults *)

Interrupt(n) ==
    /\ faults < plan.faults /\ faults' = faults + 1
    /\ \/ Calls!Interrupt(n) /\ UNCHANGED att
       \/ /\ n \in Vol /\ att[n] # "idle" /\ att' = [att EXCEPT ![n] = "idle"]
          /\ UNCHANGED callVars
    /\ UNCHANGED <<lv, lio, acl, auth, asked, attached, snapOf, cap, plan, config,
                   outages>>

\* The plugin restarts with a configuration that lacks the instance.
DropInstance ==
    /\ config /\ outages < plan.outages
    /\ config' = FALSE /\ outages' = outages + 1
    /\ ctl' = [n \in Obj |-> "idle"] /\ att' = [v \in Vol |-> "idle"]
    /\ UNCHANGED <<lv, lio, acl, auth, asked, attached, snapOf, cap, wanted, acked,
                   delWanted, gone, plan, faults>>

\* The instance is back; a restart again, which finds no handler to end that a
\* fault could not have ended.
RestoreInstance ==
    /\ ~ config
    /\ config' = TRUE
    /\ UNCHANGED <<lv, lio, access, snapOf, cap, callVars, plan, faults, outages>>

-----------------------------------------------------------------------------
CreateStep(v) ==
    \/ CreateLookup(v) \/ CreatePlain(v) \/ CreateClone(v) \/ CreateActivate(v)
    \/ CreateExtend(v) \/ CreateExport(v) \/ CreateRemote(v) \/ CreateReply(v)

DeleteStep(n) ==
    \/ n \in Vol /\ (DeleteTarget(n) \/ DeleteBackstore(n))
    \/ n \in Vol /\ (DeleteRevoke(n) \/ DeleteRemote(n))
    \/ DeleteRemove(n) \/ DeleteReply(n)

ExpandStep(v) == ExpandGrow(v) \/ ExpandRemote(v) \/ ExpandReply(v)

SnapStep(s) == SnapCheck(s) \/ SnapCreate(s) \/ SnapReply(s)

AttachStep(v) ==
    \/ PublishAcl(v) \/ PublishAuth(v) \/ PublishGrant(v) \/ PublishReply(v)
    \/ UnpublishAcl(v) \/ UnpublishRevoke(v) \/ UnpublishReply(v)

Next ==
    \/ \E v \in Vol :
         \/ CreateCall(v) \/ CreateStep(v) \/ DeleteCall(v)
         \/ ExpandCall(v) \/ ExpandStep(v)
         \/ PublishCall(v) \/ UnpublishCall(v) \/ AttachStep(v)
    \/ \E s \in Snap : (\E v \in Vol : SnapCall(s, v)) \/ SnapStep(s) \/ SnapDelete(s)
    \/ \E n \in Obj : DeleteStep(n) \/ Interrupt(n)
    \/ DropInstance \/ RestoreInstance

Spec == Init /\ [][Next]_vars

\* Handlers run on; the provisioner and the attacher repeat what failed; the
\* administrator puts the instance back.
Fairness ==
    /\ WF_vars(RestoreInstance)
    /\ \A v \in Vol : /\ WF_vars(CreateStep(v) \/ ExpandStep(v)) /\ WF_vars(AttachStep(v))
                      /\ SF_vars(v \in wanted /\ CreateCall(v))
                      /\ SF_vars(v \in delWanted /\ DeleteCall(v))
    /\ \A n \in Obj : WF_vars(DeleteStep(n))

FairSpec == Spec /\ Fairness

-----------------------------------------------------------------------------
(* Properties *)

Made(n) ==
    IF lv[n] = None /\ (n \in Vol => lio[n] = {}) THEN "absent"
    ELSE IF /\ n \in Vol /\ lv[n] # None /\ lv[n].size >= ReqSize[n]
            /\ lv[n].from = plan.src[n] /\ lv[n].active /\ lio[n] = FullExport
         THEN "ready"
    ELSE IF n \in Snap /\ lv[n].from = snapOf[n] THEN "ready"
    ELSE "partial"

Service == INSTANCE ObjectService WITH made <- [n \in Obj |-> Made(n)]

\* The controller calls keep what a CSI caller may rely on, whichever attempt
\* made or removed an LV or a piece of its export: an acknowledged volume is
\* active, large enough and exported with masking on, and an acknowledged
\* deletion leaves neither LV, backstore nor target.
Served == Service!Spec

\* The access list follows the attachments: a node that was told it is attached
\* finds the export, its entry and its credentials, and an entry outlives
\* neither the last detach nor a time without the instance's configuration.
AccessFollowsAttach ==
    /\ \A v \in attached : /\ v \in acl /\ (plan.chap => v \in auth)
                           /\ Made(v) = "ready"
    /\ acl \subseteq asked

\* "Each step swallows already exists so a retried CreateVolume converges", for
\* volumes that are not clones, and so do the retries of every deletion,
\* wherever the earlier attempts ended.
Converges ==
    \A v \in Vol : /\ (v \in wanted /\ ~ IsClone(v)) ~> v \in acked
                   /\ v \in delWanted ~> v \in gone
=============================================================================
