------------------------------ MODULE IscsiProofs ------------------------------
(***************************************************************************)
(* The iscsi plugin, for every set of volumes, targets and plans.  The     *)
(* attach and node planes: two volumes never share a LUN, a session         *)
(* outlives no volume that needs it, and a detach that is acknowledged has  *)
(* happened.  The controller side: what is acknowledged is served, and the  *)
(* node is on the access list of the volumes that are attached.             *)
(***************************************************************************)
EXTENDS IscsiTarget, IscsiVolumes, TLAPS

-----------------------------------------------------------------------------
(* The controller side: volumes, snapshots and their exports *)

\* Functions by their values.
On(S, f) == f = [x \in S |-> f[x]]

VolumeTypes ==
    /\ plan \in Plans /\ On(Obj, lv) /\ On(Vol, lio) /\ On(Obj, ctl) /\ On(Vol, att)
    /\ On(Snap, snapOf) /\ cap \in [Vol -> Nat] /\ outages \in Nat
    /\ \A n \in Obj : lv[n] # None => lv[n] \in LV
    /\ wanted \subseteq Obj /\ acked \subseteq wanted /\ delWanted \subseteq acked
    /\ gone \subseteq delWanted /\ asked \subseteq Vol
    /\ acl \subseteq Vol /\ attached \subseteq Vol

\* A locally managed instance that can drop out of the configuration has kept the
\* default iqnBase, so that its targets are found without it.
KeepsBase == \A p \in Plans : p.targetd \/ p.defaultBase \/ p.outages = 0

Found == plan.targetd \/ RightIQN

\* Which handlers are at work before a create is acknowledged, after a delete was asked
\* for and in between; and which of a volume's belong to targetd.
Making == {"lookup", "plain", "clone", "activate", "extend", "vol_create", "check", "snap",
           "reply"} \cup Piece
Deleting == {"untarget", "unback", "revoke", "destroy", "remove", "removed"}
Growing == {"grow", "vol_resize", "grown"}
Remote == {"vol_create", "revoke", "destroy", "vol_resize"}
Local == {"lookup", "plain", "clone", "activate", "extend", "untarget", "unback", "remove",
          "grow"} \cup Piece

Asked(n) ==
    /\ ctl[n] \in Making => n \in wanted \ acked
    /\ ctl[n] \in Deleting => n \in delWanted
    /\ ctl[n] \in Growing => n \in acked \ delWanted
    /\ lv[n] # None => n \in wanted
    /\ n \in gone \/ ctl[n] = "removed" => lv[n] = None

\* The LV of a volume is of its source, and there, active and large enough when the
\* handler has come that far.
Complete(v) == lv[v] # None /\ lv[v].size >= ReqSize[v] /\ lv[v].active

VolumeMade(v) ==
    /\ lv[v] # None => lv[v].from = plan.src[v] /\ (plan.targetd => lv[v].active)
    /\ ctl[v] \in Remote => plan.targetd
    /\ ctl[v] \in Local => ~ plan.targetd
    /\ ctl[v] \in {"plain", "clone"} => lv[v] = None /\ (ctl[v] = "plain" <=> plan.src[v] = None)
    /\ ctl[v] = "vol_create" => plan.src[v] = None
    /\ ctl[v] \in {"activate", "extend"} => lv[v] # None
    /\ ctl[v] = "backstore" => lv[v] # None /\ lv[v].size >= ReqSize[v]
    /\ v \in acked \ delWanted \/ ctl[v] \in (Piece \ {"backstore"}) \cup {"reply"} => Complete(v)

\* The pieces of the export that are there when the handler comes to c.
Behind(c) ==
    [backstore |-> {}, target |-> {"backstore"}, portals |-> {"backstore", "target"},
     lun |-> FullExport \cap {"backstore", "target", "portals"},
     mask |-> FullExport \ {"mask"}, reply |-> FullExport][c]

\* An export has no piece too many, a backstore only of an active LV, and loses all of
\* them before the LV goes.
Exported(v) ==
    /\ lio[v] \subseteq FullExport
    /\ "backstore" \in lio[v] => lv[v] # None /\ lv[v].active
    /\ ctl[v] = "portals" => plan.paths
    /\ ctl[v] \in Piece \cup {"reply"} => Behind(ctl[v]) \subseteq lio[v]
    /\ v \in acked \ delWanted => FullExport \subseteq lio[v]
    /\ ctl[v] = "unback" => lio[v] \subseteq {"backstore"}
    /\ v \in gone \/ ctl[v] \in {"remove", "removed"} => lio[v] = {}

\* A volume is attached, or being attached or detached, while it is held; the access
\* list is ahead of what the attacher is told.
OnList(v) ==
    /\ att[v] # "idle" \/ v \in acl \/ v \in attached => v \in asked
    /\ v \in asked => v \in acked \ delWanted
    /\ att[v] \in {"acl", "auth", "unacl"} => ~ plan.targetd
    /\ att[v] \in {"grant", "ungrant"} => plan.targetd
    /\ v \in attached => att[v] = "idle"
    /\ v \in attached \/ att[v] \in {"auth", "told"} => v \in acl
    /\ v \in attached \/ att[v] = "told" => (plan.chap => v \in auth)
    /\ att[v] = "detached" => v \notin acl

\* A snapshot is one of the volume it was asked of.
SnapshotMade(s) ==
    /\ lv[s] # None => lv[s].from \in Vol
    /\ ctl[s] \in {"check", "snap"} => snapOf[s] \in Vol
    /\ ctl[s] = "snap" => lv[s] = None \/ lv[s].from = snapOf[s]
    /\ s \in acked \ delWanted \/ ctl[s] = "reply" => lv[s] # None /\ lv[s].from = snapOf[s]

WholeVolume(n) ==
    /\ Asked(n)
    /\ n \in Vol => VolumeMade(n) /\ Exported(n) /\ OnList(n)
    /\ n \in Snap => SnapshotMade(n)

VolumesInv == VolumeTypes /\ Found /\ \A n \in Obj : WholeVolume(n)

-----------------------------------------------------------------------------
(* A step on one object *)

\* What the others see of a step on n: nothing.
ApartFrom(n) ==
    /\ plan' = plan
    /\ \A m \in Obj \ {n} :
          /\ lv'[m] = lv[m] /\ ctl'[m] = ctl[m]
          /\ m \in wanted' <=> m \in wanted
          /\ m \in acked' <=> m \in acked
          /\ m \in delWanted' <=> m \in delWanted
          /\ m \in gone' <=> m \in gone
    /\ \A s \in Snap \ {n} : snapOf'[s] = snapOf[s]
    /\ \A v \in Vol \ {n} :
          /\ lio'[v] = lio[v] /\ att'[v] = att[v]
          /\ v \in acl' <=> v \in acl
          /\ v \in auth' <=> v \in auth
          /\ v \in asked' <=> v \in asked
          /\ v \in attached' <=> v \in attached

\* What the caller sees of n.
Shown(n) ==
    \/ Made(n)' = Made(n) /\ UNCHANGED <<wanted, acked, delWanted, gone>>
    \/ n \in wanted \ acked /\ UNCHANGED <<wanted, acked, delWanted, gone>>
    \/ Made(n)' = Made(n) /\ wanted' = wanted \cup {n} /\ UNCHANGED <<acked, delWanted, gone>>
    \/ /\ Made(n)' = Made(n) /\ Made(n) = "ready" /\ n \in wanted
       /\ acked' = acked \cup {n} /\ UNCHANGED <<wanted, delWanted, gone>>
    \/ /\ Made(n)' = Made(n) /\ n \in acked
       /\ delWanted' = delWanted \cup {n} /\ UNCHANGED <<wanted, acked, gone>>
    \/ /\ Made(n) = "ready" /\ Made(n)' = "partial" /\ n \in delWanted
       /\ UNCHANGED <<wanted, acked, delWanted, gone>>
    \/ /\ Made(n)' = "absent" /\ n \in delWanted
       /\ gone' \in {gone, gone \cup {n}} /\ UNCHANGED <<wanted, acked, delWanted>>

\* All that a step on n has to show.
Good(n) == VolumeTypes' /\ Found' /\ WholeVolume(n)' /\ ApartFrom(n) /\ Shown(n)

ServesStep == Service!Next \/ UNCHANGED Service!vars

\* The service sees nothing of the objects a step is not about,
LEMMA OthersMade ==
    ASSUME NEW n \in Obj, ApartFrom(n), NEW m \in Obj \ {n}
    PROVE  Made(m)' = Made(m)
<1>1. /\ lv'[m] = lv[m] /\ plan' = plan /\ (m \in Snap => snapOf'[m] = snapOf[m])
      /\ m \in Vol => lio'[m] = lio[m]
  BY Zenon DEF ApartFrom
<1>2. FullExport' = FullExport
  BY <1>1, Zenon DEF FullExport
<1>. QED  BY <1>1, <1>2, Zenon DEF Made

\* and they stay as they were.
LEMMA OthersWhole ==
    ASSUME NEW n \in Obj, ApartFrom(n), NEW m \in Obj \ {n}, WholeVolume(m)
    PROVE  WholeVolume(m)'
<1>1. /\ lv'[m] = lv[m] /\ ctl'[m] = ctl[m] /\ plan' = plan
      /\ m \in wanted' <=> m \in wanted
      /\ m \in acked' <=> m \in acked
      /\ m \in delWanted' <=> m \in delWanted
      /\ m \in gone' <=> m \in gone
  BY Zenon DEF ApartFrom
<1>2. Asked(m)'
  BY <1>1, Zenon DEF WholeVolume, Asked
<1>3. m \in Vol => VolumeMade(m)'
  BY <1>1, Zenon DEF WholeVolume, VolumeMade, Complete
<1>4. ASSUME m \in Vol PROVE Exported(m)' /\ OnList(m)'
  <2>1. /\ lio'[m] = lio[m] /\ att'[m] = att[m]
        /\ m \in acl' <=> m \in acl
        /\ m \in auth' <=> m \in auth
        /\ m \in asked' <=> m \in asked
        /\ m \in attached' <=> m \in attached
    BY <1>4, Zenon DEF ApartFrom
  <2>2. FullExport' = FullExport
    BY <1>1, Zenon DEF FullExport
  <2>3. Behind(ctl[m])' = Behind(ctl[m])
    BY <1>1, <2>2, Zenon DEF Behind
  <2>4. Exported(m)'
    BY <1>1, <1>4, <2>1, <2>2, <2>3, Zenon DEF WholeVolume, Exported
  <2>5. OnList(m)'
    BY <1>1, <1>4, <2>1, Zenon DEF WholeVolume, OnList
  <2>. QED  BY <2>4, <2>5, Zenon
<1>5. ASSUME m \in Snap PROVE SnapshotMade(m)'
  <2>1. snapOf'[m] = snapOf[m]
    BY <1>5, Zenon DEF ApartFrom
  <2>. QED  BY <1>1, <1>5, <2>1, Zenon DEF WholeVolume, SnapshotMade
<1>. QED  BY <1>2, <1>3, <1>4, <1>5, Zenon DEF WholeVolume

\* What the caller sees of n is a step of the service, or nothing.
LEMMA OneShown ==
    ASSUME NEW n \in Obj, ApartFrom(n), Shown(n)
    PROVE  ServesStep
<1>1. [m \in Obj |-> Made(m)]' = [[m \in Obj |-> Made(m)] EXCEPT ![n] = Made(n)']
  <2>1. \A m \in Obj \ {n} : Made(m)' = Made(m)
    BY OthersMade, Zenon
  <2>2. [m \in Obj |-> Made(m)'] = [[m \in Obj |-> Made(m)] EXCEPT ![n] = Made(n)']
    BY <2>1, Zenon
  <2>. QED  BY <2>2, Zenon
<1>2. ASSUME Made(n)' = Made(n) PROVE [m \in Obj |-> Made(m)]' = [m \in Obj |-> Made(m)]
  BY <1>1, <1>2, Zenon
<1>4. CASE Made(n)' = Made(n) /\ UNCHANGED <<wanted, acked, delWanted, gone>>
  BY <1>2, <1>4, Zenon DEF ServesStep, Service!vars
<1>5. CASE n \in wanted \ acked /\ UNCHANGED <<wanted, acked, delWanted, gone>>
  <2>1. \A m \in Obj : Made(m)' \in {"absent", "partial", "ready"}
    BY Zenon DEF Made
  <2>2. \A m \in Obj : m \in wanted \ acked \/ Made(m)' = Made(m)
    BY <1>5, OthersMade, Zenon
  <2>3. Service!Work
    BY <1>5, <2>1, <2>2, Zenon DEF Service!Work
  <2>. QED  BY <2>3, Zenon DEF ServesStep, Service!Next
<1>6. CASE Made(n)' = Made(n) /\ wanted' = wanted \cup {n} /\ UNCHANGED <<acked, delWanted, gone>>
  BY <1>2, <1>6, Zenon DEF ServesStep, Service!Next, Service!Request
<1>7. CASE /\ Made(n)' = Made(n) /\ Made(n) = "ready" /\ n \in wanted
           /\ acked' = acked \cup {n} /\ UNCHANGED <<wanted, delWanted, gone>>
  <2>1. Service!Acknowledge(n)
    BY <1>2, <1>7, Zenon DEF Service!Acknowledge
  <2>. QED  BY <2>1, Zenon DEF ServesStep, Service!Next
<1>8. CASE /\ Made(n)' = Made(n) /\ n \in acked
           /\ delWanted' = delWanted \cup {n} /\ UNCHANGED <<wanted, acked, gone>>
  BY <1>2, <1>8, Zenon DEF ServesStep, Service!Next, Service!RequestDelete
<1>9. CASE /\ Made(n) = "ready" /\ Made(n)' = "partial" /\ n \in delWanted
           /\ UNCHANGED <<wanted, acked, delWanted, gone>>
  <2>1. [m \in Obj |-> Made(m)]' = [[m \in Obj |-> Made(m)] EXCEPT ![n] = "partial"]
    BY <1>1, <1>9, Zenon
  <2>2. Service!Remove(n)
    BY <1>9, <2>1, Zenon DEF Service!Remove
  <2>. QED  BY <2>2, Zenon DEF ServesStep, Service!Next
<1>10. CASE /\ Made(n)' = "absent" /\ n \in delWanted
            /\ gone' \in {gone, gone \cup {n}} /\ UNCHANGED <<wanted, acked, delWanted>>
  <2>1. [m \in Obj |-> Made(m)]' = [[m \in Obj |-> Made(m)] EXCEPT ![n] = "absent"]
    BY <1>1, <1>10, Zenon
  <2>2. CASE gone' = gone
    BY <1>10, <2>1, <2>2, Zenon DEF ServesStep, Service!Next, Service!Remove
  <2>3. CASE gone' = gone \cup {n}
    BY <1>10, <2>1, <2>3, Zenon DEF ServesStep, Service!Next, Service!AcknowledgeDelete
  <2>. QED  BY <1>10, <2>2, <2>3, Zenon
<1>. QED  BY <1>4, <1>5, <1>6, <1>7, <1>8, <1>9, <1>10, Zenon DEF Shown

\* A good step on one object is all there is to show.
LEMMA OneStep ==
    ASSUME VolumesInv, NEW n \in Obj, Good(n)
    PROVE  VolumesInv' /\ ServesStep
<1>1. ASSUME NEW m \in Obj PROVE WholeVolume(m)'
  BY OthersWhole, Zenon DEF VolumesInv, Good
<1>2. ServesStep
  BY OneShown, Zenon DEF Good
<1>. QED  BY <1>1, <1>2, Zenon DEF VolumesInv, Good

-----------------------------------------------------------------------------
(* CreateVolume *)

\* A step of the handler at work on n: the LV it leaves, the step it goes to, and what
\* the caller asks or is told.
LEMMA CallStep ==
    ASSUME VolumeTypes, NEW n \in Obj, NEW l, NEW to, l = None \/ l \in LV,
           lv' = [lv EXCEPT ![n] = l], ctl' = [ctl EXCEPT ![n] = to],
           UNCHANGED env, UNCHANGED <<att, asked, attached>>,
           acl' \in {acl, acl \ {n}}, auth' \in {auth, auth \ {n}},
           wanted' \in {wanted, wanted \cup {n}},
           acked' \in {acked, acked \cup {n}}, acked' = acked \/ n \in wanted,
           delWanted' \in {delWanted, delWanted \cup {n}}, delWanted' = delWanted \/ n \in acked,
           gone' \in {gone, gone \cup {n}}, gone' = gone \/ n \in delWanted,
           snapOf' = snapOf \/ (n \in Snap /\ \E v : snapOf' = [snapOf EXCEPT ![n] = v]),
           cap' = cap \/ (n \in Vol /\ \E c \in Nat : cap' = [cap EXCEPT ![n] = c]),
           lio' = lio \/ (n \in Vol /\ \E e : lio' = [lio EXCEPT ![n] = e])
    PROVE  VolumeTypes' /\ ApartFrom(n) /\ lv'[n] = l /\ ctl'[n] = to /\ (Found => Found')
<1>0. plan' = plan /\ outages' = outages /\ config' = config
  BY Zenon DEF env
<1>1. /\ On(Obj, lv)' /\ lv'[n] = l /\ On(Obj, ctl)' /\ ctl'[n] = to
      /\ \A m \in Obj \ {n} : lv'[m] = lv[m] /\ ctl'[m] = ctl[m]
  BY Zenon DEF VolumeTypes, On
<1>2. \A m \in Obj : lv'[m] # None => lv'[m] \in LV
  BY <1>1, Zenon DEF VolumeTypes
<1>3. On(Snap, snapOf)' /\ \A s \in Snap \ {n} : snapOf'[s] = snapOf[s]
  BY Zenon DEF VolumeTypes, On
<1>4. cap' \in [Vol -> Nat]
  BY Zenon DEF VolumeTypes
<1>5. /\ wanted' \subseteq Obj /\ acked' \subseteq wanted' /\ delWanted' \subseteq acked'
      /\ gone' \subseteq delWanted'
  BY Zenon DEF VolumeTypes
<1>6. On(Vol, lio)' /\ \A v \in Vol \ {n} : lio'[v] = lio[v]
  BY Zenon DEF VolumeTypes, On
<1>7. acl' \subseteq Vol /\ asked' \subseteq Vol /\ attached' \subseteq Vol /\ On(Vol, att)'
  BY Zenon DEF VolumeTypes, On
<1>8. VolumeTypes'
  BY <1>0, <1>1, <1>2, <1>3, <1>4, <1>5, <1>6, <1>7, Zenon DEF VolumeTypes
<1>9. \A m \in Obj \ {n} : /\ m \in wanted' <=> m \in wanted
                           /\ m \in acked' <=> m \in acked
                           /\ m \in delWanted' <=> m \in delWanted
                           /\ m \in gone' <=> m \in gone
                           /\ m \in acl' <=> m \in acl
                           /\ m \in auth' <=> m \in auth
  BY Zenon
<1>10. ApartFrom(n)
  <2>1. \A v \in Vol \ {n} : v \in Obj \ {n}
    BY Zenon DEF Obj
  <2>. QED  BY <1>0, <1>1, <1>3, <1>6, <1>9, <2>1, Zenon DEF ApartFrom
<1>11. Found => Found'
  BY <1>0, Zenon DEF Found, RightIQN
<1>. QED  BY <1>1, <1>8, <1>10, <1>11, Zenon

\* A step that leaves the LVs alone.
LEMMA Same == ASSUME VolumeTypes, NEW n \in Obj, lv' = lv
              PROVE  lv' = [lv EXCEPT ![n] = lv[n]] /\ (lv[n] = None \/ lv[n] \in LV)
BY Zenon DEF VolumeTypes, On

\* Volumes, snapshots and LVs are told apart from each other and from None.
LEMMA Kinds == /\ \A v \in Vol : v \in Obj /\ v \notin Snap /\ v # None
               /\ \A s \in Snap : s \in Obj /\ s \notin Vol /\ s # None
               /\ None \notin LV
BY Instance, Zenon DEF Obj

\* What a step that keeps the plan keeps with it.
LEMMA PlanKept ==
    ASSUME plan' = plan
    PROVE  FullExport' = FullExport /\ \A c : Behind(c)' = Behind(c)
<1>1. FullExport' = FullExport
  BY Zenon DEF FullExport
<1>. QED  BY <1>1, Zenon DEF Behind

\* A volume that is not acknowledged has no part in the access list.
LEMMA NotListed ==
    ASSUME VolumesInv, NEW v \in Vol, v \notin acked \/ v \in delWanted
    PROVE  /\ v \notin asked /\ v \notin acl /\ v \notin attached /\ att[v] = "idle"
           /\ UNCHANGED <<asked, acl, attached, att, plan>> => OnList(v)'
<1>1. OnList(v) /\ delWanted \subseteq acked
  BY Kinds, Zenon DEF VolumesInv, WholeVolume, VolumeTypes
<1>2. v \notin asked /\ v \notin acl /\ v \notin attached /\ att[v] = "idle"
  BY <1>1, Zenon DEF OnList
<1>. QED  BY <1>2, Zenon DEF OnList

\* The call itself promises nothing.
LEMMA CreateCallGood == ASSUME VolumesInv, NEW v \in Vol, CreateCall(v) PROVE Good(v)
<1>0. PICK to : to = IF plan.targetd THEN "vol_create" ELSE "lookup"
  OBVIOUS
<1>1. /\ ctl[v] = "idle" /\ v \notin acked /\ wanted' = wanted \cup {v}
      /\ ctl' = [ctl EXCEPT ![v] = to] /\ UNCHANGED <<acked, delWanted, gone>>
      /\ UNCHANGED <<env, lv, lio, acl, auth, att, asked, attached, snapOf, cap>>
      /\ plan' = plan /\ (plan.targetd => plan.src[v] = None)
  BY <1>0, Zenon DEF CreateCall, Calls!Create, Control, access, env, IsClone
<1>2. VolumeTypes /\ Found /\ WholeVolume(v) /\ v \in Obj /\ v \notin Snap
  BY Kinds, Zenon DEF VolumesInv
<1>3. VolumeTypes' /\ ApartFrom(v) /\ lv'[v] = lv[v] /\ ctl'[v] = to /\ Found'
  BY <1>1, <1>2, Same, CallStep, Zenon
<1>a. (to = "lookup" /\ ~plan.targetd) \/ (to = "vol_create" /\ plan.targetd)
  BY <1>0, Zenon
<1>b. Asked(v) /\ VolumeMade(v) /\ Exported(v)
  BY <1>2, Zenon DEF WholeVolume
<1>4. Asked(v)'
  <2>1. to \in Making /\ to \notin Deleting /\ to \notin Growing /\ to # "removed"
    BY <1>a, Zenon DEF Making, Deleting, Growing
  <2>2. v \in wanted' \ acked' /\ gone' = gone
    BY <1>1, Zenon
  <2>. QED  BY <1>b, <1>3, <2>1, <2>2, Zenon DEF Asked
<1>5. VolumeMade(v)'
  BY <1>a, <1>b, <1>1, <1>3, Zenon DEF VolumeMade, Complete, Remote, Local, Piece
<1>6. Exported(v)'
  BY <1>a, <1>b, <1>1, <1>3, PlanKept, Zenon DEF Exported, Piece
<1>7. OnList(v)'
  BY <1>1, NotListed, Zenon
<1>8. WholeVolume(v)'
  BY <1>2, <1>4, <1>5, <1>6, <1>7, Zenon DEF WholeVolume
<1>9. Made(v)' = Made(v)
  BY <1>1, <1>2, <1>3, PlanKept, Zenon DEF Made
<1>. QED  BY <1>1, <1>3, <1>8, <1>9, Zenon DEF Good, Shown

\* A command of a handler on an LV: the caller learns nothing.
LEMMA Works ==
    ASSUME VolumesInv, NEW n \in Obj, NEW l, NEW to, l = None \/ l \in LV,
           lv' = [lv EXCEPT ![n] = l], ctl' = [ctl EXCEPT ![n] = to],
           UNCHANGED <<wanted, acked, delWanted, gone>>, Storage
    PROVE  /\ VolumeTypes /\ WholeVolume(n) /\ lv'[n] = l /\ ctl'[n] = to
           /\ VolumeTypes' /\ Found' /\ ApartFrom(n)
           /\ UNCHANGED <<plan, lio, acl, auth, att, asked, attached, snapOf, cap>>
<1>1. VolumeTypes /\ Found /\ WholeVolume(n)
  BY Zenon DEF VolumesInv
<1>2. UNCHANGED env /\ UNCHANGED <<plan, lio, acl, auth, att, asked, attached, snapOf, cap>>
  BY Zenon DEF Storage, access, env
<1>3. VolumeTypes' /\ ApartFrom(n) /\ lv'[n] = l /\ ctl'[n] = to /\ Found'
  BY <1>1, <1>2, CallStep, Zenon
<1>. QED  BY <1>1, <1>2, <1>3, Zenon

\* CreateVolume's steps on the LV: the volume is not acknowledged, so nothing is
\* promised yet.
LEMMA CreateGood ==
    ASSUME VolumesInv, NEW v \in Vol, NEW l, NEW to, l = None \/ l \in LV,
           lv' = [lv EXCEPT ![v] = l], ctl' = [ctl EXCEPT ![v] = to],
           UNCHANGED <<wanted, acked, delWanted, gone>>, Storage,
           ctl[v] \in Making,
           to \in {"idle", "plain", "clone", "activate", "extend", "backstore", "reply"},
           l # None => l.from = plan.src[v] /\ (plan.targetd => l.active),
           to \notin {"idle", "reply"} => ~ plan.targetd,
           to \in {"plain", "clone"} => l = None /\ (to = "plain" <=> plan.src[v] = None),
           to \in {"activate", "extend"} => l # None,
           to = "backstore" => l # None /\ l.size >= ReqSize[v],
           to = "reply" => plan.targetd /\ l # None /\ l.size >= ReqSize[v],
           lv[v] = None \/ (l # None /\ (lv[v].active => l.active))
    PROVE  Good(v)
<1>1. v \in Obj /\ v \notin Snap
  BY Kinds, Zenon
<1>2. /\ VolumeTypes /\ WholeVolume(v) /\ lv'[v] = l /\ ctl'[v] = to
      /\ VolumeTypes' /\ Found' /\ ApartFrom(v)
      /\ UNCHANGED <<plan, lio, acl, auth, att, asked, attached, snapOf, cap>>
  BY <1>1, Works, Zenon
<1>3. v \in wanted \ acked /\ v \notin delWanted /\ v \notin gone
  BY <1>2, Zenon DEF VolumeTypes, WholeVolume, Asked
<1>4. Asked(v)'
  BY <1>2, <1>3, Zenon DEF Asked, Making, Deleting, Growing, Piece
<1>5. VolumeMade(v)'
  BY <1>2, <1>3, Zenon DEF VolumeMade, Complete, Remote, Local, Piece
<1>6. Exported(v)'
  <2>1. Exported(v) /\ FullExport' = FullExport
    BY <1>2, PlanKept, Zenon DEF WholeVolume
  <2>2. "backstore" \in lio[v] => l # None /\ l.active
    BY <2>1, Zenon DEF Exported
  <2>3. ASSUME to \in Piece \cup {"reply"} PROVE Behind(to) = {}
    <3>1. CASE to = "backstore"
      BY <3>1, Zenon DEF Behind
    <3>2. CASE to = "reply"
      BY <3>2, Zenon DEF Behind, FullExport
    <3>. QED  BY <2>3, <3>1, <3>2, Zenon DEF Piece
  <2>4. Behind(to)' = Behind(to)
    BY <1>2, PlanKept, Zenon
  <2>. QED  BY <1>2, <1>3, <2>1, <2>2, <2>3, <2>4, Zenon DEF Exported
<1>7. OnList(v)'
  BY <1>2, <1>3, NotListed, Zenon
<1>8. WholeVolume(v)'
  BY <1>1, <1>4, <1>5, <1>6, <1>7, Zenon DEF WholeVolume
<1>. QED  BY <1>2, <1>3, <1>8, Zenon DEF Good, Shown

\* An LV an earlier attempt left is of the right source, and used when it is large enough.
LEMMA CreateLookupGood == ASSUME VolumesInv, NEW v \in Vol, CreateLookup(v) PROVE Good(v)
<1>1. PICK to : to = IF lv[v] = None THEN IF IsClone(v) THEN "clone" ELSE "plain"
                     ELSE IF lv[v].size >= ReqSize[v] THEN "backstore"
                     ELSE IF IsClone(v) THEN "extend" ELSE "idle"
  OBVIOUS
<1>2. /\ ctl[v] = "lookup" /\ ctl' = [ctl EXCEPT ![v] = to]
      /\ UNCHANGED <<wanted, acked, delWanted, gone>> /\ Storage /\ lv' = lv
  BY <1>1, Zenon DEF CreateLookup, Calls!Step, Control, Storage
<1>3. VolumeTypes /\ VolumeMade(v) /\ v \in Obj
  BY Kinds, Zenon DEF VolumesInv, WholeVolume
<1>4. lv' = [lv EXCEPT ![v] = lv[v]] /\ (lv[v] = None \/ lv[v] \in LV)
  BY <1>2, <1>3, Same, Zenon
<1>5. /\ to \in {"idle", "plain", "clone", "activate", "extend", "backstore"}
      /\ to \in {"plain", "clone"} => lv[v] = None /\ (to = "plain" <=> plan.src[v] = None)
      /\ to \in {"activate", "extend"} => lv[v] # None
      /\ to = "backstore" => lv[v] # None /\ lv[v].size >= ReqSize[v]
  BY <1>1, Zenon DEF IsClone
<1>6. /\ lv[v] # None => lv[v].from = plan.src[v] /\ (plan.targetd => lv[v].active)
      /\ ~ plan.targetd
  BY <1>2, <1>3, Zenon DEF VolumeMade, Local
<1>7. ctl[v] \in Making
  BY <1>2, Zenon DEF Making
<1>. QED  BY <1>2, <1>4, <1>5, <1>6, <1>7, CreateGood, Zenon

\* lvcreate runs where lvs found no LV, and vol_create where vol_list found no volume or
\* one that is large enough.
LEMMA CreatePlainGood ==
    ASSUME VolumesInv, NEW v \in Vol, CreatePlain(v) \/ CreateRemote(v)
    PROVE  Good(v)
<1>1. /\ ctl[v] \in {"plain", "vol_create"} /\ UNCHANGED <<wanted, acked, delWanted, gone>>
      /\ Storage
  BY Zenon DEF CreatePlain, CreateRemote, Calls!Step
<1>2. VolumeTypes /\ VolumeMade(v) /\ v \in Obj /\ ctl[v] \in Making
  BY <1>1, Kinds, Zenon DEF VolumesInv, WholeVolume, Making
<1>3. ReqSize[v] \in Nat /\ ReqSize[v] >= ReqSize[v]
  BY Instance
<1>4. ASSUME NEW b \in BOOLEAN,
             NEW l, l = [size |-> ReqSize[v], thin |-> b, active |-> TRUE, from |-> None]
      PROVE  l \in LV /\ l # None /\ l.from = None /\ l.active /\ l.size >= ReqSize[v]
  <2>1. l \in LV
    BY <1>3, <1>4, Zenon DEF LV
  <2>2. l.from = None /\ l.active /\ l.size = ReqSize[v]
    BY <1>4, Zenon
  <2>. QED  BY <1>3, <2>1, <2>2, Kinds, Zenon
<1>5. CASE CreatePlain(v)
  <2>1. PICK l : l = [size |-> ReqSize[v], thin |-> v \in Pool, active |-> TRUE, from |-> None]
    BY Zenon
  <2>2. ctl[v] = "plain" /\ ctl' = [ctl EXCEPT ![v] = "backstore"] /\ lv' = [lv EXCEPT ![v] = l]
    BY <1>5, <2>1, Zenon DEF CreatePlain, Calls!Step
  <2>3. lv[v] = None /\ plan.src[v] = None /\ ~ plan.targetd
    BY <1>2, <2>2, Zenon DEF VolumeMade, Local
  <2>4. (v \in Pool) \in BOOLEAN
    OBVIOUS
  <2>. QED  BY <1>1, <1>2, <1>4, <2>1, <2>2, <2>3, <2>4, CreateGood, Zenon
<1>6. CASE CreateRemote(v)
  <2>1. ctl[v] = "vol_create"
    BY <1>6, Zenon DEF CreateRemote, Calls!Step
  <2>2. plan.src[v] = None /\ plan.targetd
    BY <1>2, <2>1, Zenon DEF VolumeMade, Remote
  <2>3. CASE lv[v] # None
    <3>1. PICK to : to = IF lv[v].size < ReqSize[v] THEN "idle" ELSE "reply"
      OBVIOUS
    <3>2. lv' = lv /\ ctl' = [ctl EXCEPT ![v] = to]
      BY <1>6, <2>3, <3>1, Zenon DEF CreateRemote, Calls!Step
    <3>3. lv' = [lv EXCEPT ![v] = lv[v]] /\ lv[v] \in LV
      BY <1>2, <2>3, <3>2, Same, Zenon
    <3>4. lv[v].size \in Nat
      BY <3>3, Zenon DEF LV
    <3>5. to \in {"idle", "reply"} /\ (to = "reply" => lv[v].size >= ReqSize[v])
      BY <1>3, <3>1, <3>4
    <3>6. lv[v].from = plan.src[v] /\ lv[v].active
      BY <1>2, <2>2, <2>3, Zenon DEF VolumeMade
    <3>. QED  BY <1>1, <1>2, <2>2, <2>3, <3>2, <3>3, <3>5, <3>6, CreateGood, Zenon
  <2>4. CASE lv[v] = None
    <3>1. PICK l : l = [size |-> ReqSize[v], thin |-> FALSE, active |-> TRUE, from |-> None]
      BY Zenon
    <3>2. ctl' = [ctl EXCEPT ![v] = "reply"] /\ lv' = [lv EXCEPT ![v] = l]
      BY <1>6, <2>4, <3>1, Zenon DEF CreateRemote, Calls!Step
    <3>. QED  BY <1>1, <1>2, <1>4, <2>2, <2>4, <3>1, <3>2, CreateGood, Zenon
  <2>. QED  BY <2>3, <2>4, Zenon
<1>. QED  BY <1>5, <1>6, Zenon

\* lvcreate -s takes the source of the request.
LEMMA CreateCloneGood == ASSUME VolumesInv, NEW v \in Vol, CreateClone(v) PROVE Good(v)
<1>1. /\ ctl[v] = "clone" /\ UNCHANGED <<wanted, acked, delWanted, gone>> /\ Storage
  BY Zenon DEF CreateClone, Calls!Step
<1>2. VolumeTypes /\ VolumeMade(v) /\ v \in Obj /\ ctl[v] \in Making
  BY <1>1, Kinds, Zenon DEF VolumesInv, WholeVolume, Making
<1>3. lv[v] = None /\ plan.src[v] # None /\ ~ plan.targetd
  BY <1>1, <1>2, Zenon DEF VolumeMade, Local
<1>4. CASE ~IsThin(plan.src[v])
  <2>1. lv' = lv /\ ctl' = [ctl EXCEPT ![v] = "idle"]
    BY <1>4, Zenon DEF CreateClone, Calls!Step
  <2>2. lv' = [lv EXCEPT ![v] = lv[v]]
    BY <1>2, <2>1, Same, Zenon
  <2>. QED  BY <1>1, <1>2, <1>3, <2>1, <2>2, CreateGood, Zenon
<1>5. CASE IsThin(plan.src[v])
  <2>1. PICK l : l = [lv[plan.src[v]] EXCEPT !.active = FALSE, !.from = plan.src[v]]
    OBVIOUS
  <2>2. lv' = [lv EXCEPT ![v] = l] /\ ctl' = [ctl EXCEPT ![v] = "activate"]
    BY <1>5, <2>1, Zenon DEF CreateClone, Calls!Step
  <2>3. plan.src[v] \in Obj
    BY <1>2, <1>3, Instance, Zenon DEF VolumeTypes
  <2>4. lv[plan.src[v]] \in LV
    BY <1>2, <1>5, <2>3, Zenon DEF IsThin, VolumeTypes
  <2>5. l \in LV /\ l.from = plan.src[v]
    BY <2>1, <2>3, <2>4, Zenon DEF LV
  <2>6. l # None
    BY <2>5, Kinds, Zenon
  <2>. QED  BY <1>1, <1>2, <1>3, <2>2, <2>5, <2>6, CreateGood, Zenon
<1>. QED  BY <1>4, <1>5, Zenon

\* lvextend and vol_resize never shrink.
LEMMA Largest == \A a, b \in Nat : Larger(a, b) \in Nat /\ Larger(a, b) >= a /\ Larger(a, b) >= b
BY DEF Larger

\* lvchange and lvextend keep the LV.
LEMMA CreateActivateGood ==
    ASSUME VolumesInv, NEW v \in Vol, CreateActivate(v) \/ CreateExtend(v)
    PROVE  Good(v)
<1>1. /\ ctl[v] \in {"activate", "extend"} /\ UNCHANGED <<wanted, acked, delWanted, gone>>
      /\ Storage
  BY Zenon DEF CreateActivate, CreateExtend, Calls!Step
<1>2. VolumeTypes /\ VolumeMade(v) /\ v \in Obj /\ ctl[v] \in Making
  BY <1>1, Kinds, Zenon DEF VolumesInv, WholeVolume, Making
<1>3. lv[v] # None /\ lv[v] \in LV /\ lv[v].from = plan.src[v] /\ ~ plan.targetd
  BY <1>1, <1>2, Zenon DEF VolumeTypes, VolumeMade, Local
<1>5. CASE CreateActivate(v)
  <2>1. PICK l : l = [lv[v] EXCEPT !.active = TRUE]
    BY Zenon
  <2>2. lv' = [lv EXCEPT ![v] = l] /\ ctl' = [ctl EXCEPT ![v] = "extend"]
    BY <1>5, <2>1, Zenon DEF CreateActivate, Calls!Step
  <2>3. l \in LV /\ l.from = plan.src[v] /\ l.active
    BY <1>3, <2>1, Zenon DEF LV
  <2>4. l # None
    BY <2>3, Kinds, Zenon
  <2>. QED  BY <1>1, <1>2, <1>3, <2>2, <2>3, <2>4, CreateGood, Zenon
<1>6. CASE CreateExtend(v)
  <2>1. PICK l : l = [lv[v] EXCEPT !.size = Larger(lv[v].size, ReqSize[v])]
    BY Zenon
  <2>2. lv' = [lv EXCEPT ![v] = l] /\ ctl' = [ctl EXCEPT ![v] = "backstore"]
    BY <1>6, <2>1, Zenon DEF CreateExtend, Calls!Step
  <2>3. lv[v].size \in Nat /\ ReqSize[v] \in Nat
    BY <1>3, Instance DEF LV
  <2>4. l \in LV /\ l.from = plan.src[v] /\ l.active = lv[v].active /\ l.size >= ReqSize[v]
    BY <1>3, <2>1, <2>3, Largest, Zenon DEF LV
  <2>5. l # None
    BY <2>4, Kinds, Zenon
  <2>. QED  BY <1>1, <1>2, <1>3, <2>2, <2>4, <2>5, CreateGood, Zenon
<1>. QED  BY <1>5, <1>6, Zenon

\* Each piece comes after those it needs.
LEMMA PieceOrder ==
    ASSUME NEW p \in Piece, p = "portals" => plan.paths, ~ plan.targetd
    PROVE  /\ After(p) \in (Piece \ {"backstore"}) \cup {"reply"}
           /\ After(p) = "portals" => plan.paths
           /\ Behind(After(p)) \subseteq Behind(p) \cup {p}
           /\ p \in FullExport
<1>1. FullExport = IF plan.paths THEN Piece ELSE Piece \ {"portals"}
  BY Zenon DEF FullExport
<1>2. CASE p = "backstore"
  BY <1>1, <1>2, Zenon DEF After, Behind, Piece
<1>3. CASE p = "target"
  BY <1>1, <1>3, Zenon DEF After, Behind, Piece
<1>4. CASE p = "portals"
  BY <1>1, <1>4, Zenon DEF After, Behind, Piece
<1>5. CASE p = "lun"
  BY <1>1, <1>5, Zenon DEF After, Behind, Piece
<1>6. CASE p = "mask"
  BY <1>1, <1>6, Zenon DEF After, Behind, Piece
<1>. QED  BY <1>2, <1>3, <1>4, <1>5, <1>6, Zenon DEF Piece

\* targetcli's steps make the export piece by piece of an LV that is active.
LEMMA CreateExportGood == ASSUME VolumesInv, NEW v \in Vol, CreateExport(v) PROVE Good(v)
<1>1. PICK p : p = ctl[v]
  OBVIOUS
<1>2. /\ ctl[v] = p /\ p \in Piece /\ UNCHANGED <<wanted, acked, delWanted, gone>>
      /\ UNCHANGED <<lv, acl, auth, att, asked, attached, snapOf, cap, plan, env>>
  BY <1>1, Zenon DEF CreateExport, Calls!Step, access, env
<1>3. /\ VolumeTypes /\ Found /\ Asked(v) /\ VolumeMade(v) /\ Exported(v) /\ v \in Obj
      /\ v \notin Snap /\ ctl[v] \in Making
  BY <1>2, Kinds, Zenon DEF VolumesInv, WholeVolume, Making
<1>4. lv' = [lv EXCEPT ![v] = lv[v]] /\ (lv[v] = None \/ lv[v] \in LV)
  BY <1>2, <1>3, Same, Zenon
<1>5. v \in wanted \ acked /\ v \notin delWanted /\ v \notin gone
  BY <1>3, Zenon DEF VolumeTypes, Asked
<1>6. /\ lv[v] # None /\ lv[v].size >= ReqSize[v] /\ ~ plan.targetd
      /\ lv[v].from = plan.src[v] /\ (p # "backstore" => lv[v].active)
  BY <1>2, <1>3, Zenon DEF VolumeMade, Complete, Local
<1>7. CASE p = "backstore" /\ p \notin lio[v] /\ ~ lv[v].active
  <2>1. ctl' = [ctl EXCEPT ![v] = "idle"] /\ lio' = lio
    BY <1>1, <1>7, Zenon DEF CreateExport, Calls!Step
  <2>2. Storage
    BY <1>2, <2>1, Zenon DEF Storage, access
  <2>. QED  BY <1>2, <1>3, <1>4, <1>6, <2>1, <2>2, CreateGood, Zenon
<1>8. CASE ~ (p = "backstore" /\ p \notin lio[v] /\ ~ lv[v].active)
  <2>0. PICK to : to = After(p)
    OBVIOUS
  <2>1. ctl' = [ctl EXCEPT ![v] = to] /\ lio' = [lio EXCEPT ![v] = lio[v] \cup {p}]
    BY <1>1, <1>8, <2>0, Zenon DEF CreateExport, Calls!Step
  <2>2. VolumeTypes' /\ ApartFrom(v) /\ lv'[v] = lv[v] /\ ctl'[v] = to /\ Found'
    BY <1>2, <1>3, <1>4, <2>1, CallStep, Zenon
  <2>3. lio'[v] = lio[v] \cup {p}
    BY <1>3, <2>1, Zenon DEF VolumeTypes, On
  <2>4. Complete(v)
    BY <1>3, <1>6, <1>8, Zenon DEF Exported, Complete
  <2>5. p = "portals" => plan.paths
    BY <1>2, <1>3, Zenon DEF Exported
  <2>6. /\ to \in (Piece \ {"backstore"}) \cup {"reply"}
        /\ to = "portals" => plan.paths
        /\ Behind(to) \subseteq Behind(p) \cup {p}
        /\ p \in FullExport
    BY <1>2, <1>6, <2>0, <2>5, PieceOrder, Zenon
  <2>7. Asked(v)'
    <3>1. to \in Making /\ to \notin Deleting /\ to \notin Growing
      BY <2>6, Zenon DEF Making, Deleting, Growing, Piece
    <3>2. to # "removed"
      BY <2>6, Zenon DEF Piece
    <3>. QED  BY <1>2, <1>3, <1>5, <2>2, <3>1, <3>2, Zenon DEF Asked
  <2>8. VolumeMade(v)'
    <3>1. /\ to \notin Remote /\ to \notin {"plain", "clone", "activate", "extend"}
          /\ to # "vol_create" /\ to # "backstore"
      BY <2>6, Zenon DEF Remote, Piece
    <3>. QED  BY <1>2, <1>6, <2>2, <2>4, <3>1, Zenon DEF VolumeMade, Complete
  <2>9. Exported(v)'
    <3>1. FullExport' = FullExport /\ Behind(to)' = Behind(to)
      BY <1>2, PlanKept, Zenon
    <3>2. Behind(p) \subseteq lio[v] /\ lio[v] \subseteq FullExport
      BY <1>2, <1>3, Zenon DEF Exported
    <3>3. Behind(to) \subseteq lio'[v] /\ lio'[v] \subseteq FullExport
      BY <2>3, <2>6, <3>2, Zenon
    <3>4. to \notin {"unback", "remove", "removed"}
      BY <2>6, Zenon DEF Piece
    <3>5. lv'[v] # None /\ lv'[v].active
      BY <2>2, <2>4, Zenon DEF Complete
    <3>. QED  BY <1>2, <1>5, <2>2, <2>6, <3>1, <3>3, <3>4, <3>5, Zenon DEF Exported
  <2>10. OnList(v)'
    BY <1>2, <1>5, NotListed, Zenon
  <2>11. WholeVolume(v)'
    BY <1>3, <2>7, <2>8, <2>9, <2>10, Zenon DEF WholeVolume
  <2>. QED  BY <1>2, <1>5, <2>2, <2>11, Zenon DEF Good, Shown
<1>. QED  BY <1>7, <1>8, Zenon

\* An acknowledged volume is ready.
LEMMA HeldReady ==
    ASSUME NEW v \in Vol, VolumeMade(v), Exported(v), v \in acked \ delWanted \/ ctl[v] = "reply"
    PROVE  Complete(v) /\ lio[v] = FullExport /\ Made(v) = "ready"
<1>1. Complete(v) /\ lv[v].from = plan.src[v]
  BY Zenon DEF VolumeMade, Complete
<1>2. lio[v] = FullExport
  <2>1. ctl[v] = "reply" => FullExport \subseteq lio[v]
    <3>1. Behind("reply") = FullExport
      BY Zenon DEF Behind
    <3>. QED  BY <3>1, Zenon DEF Exported
  <2>. QED  BY <2>1, Zenon DEF Exported
<1>. QED  BY <1>1, <1>2, Zenon DEF Made, Complete

\* The response comes when the volume is whole.
LEMMA CreateReplyGood == ASSUME VolumesInv, NEW v \in Vol, CreateReply(v) PROVE Good(v)
<1>1. /\ ctl[v] = "reply" /\ acked' = acked \cup {v} /\ ctl' = [ctl EXCEPT ![v] = "idle"]
      /\ UNCHANGED <<wanted, delWanted, gone>>
      /\ cap' = [cap EXCEPT ![v] = IF plan.targetd THEN ReqSize[v] ELSE lv[v].size]
      /\ UNCHANGED <<lv, lio, acl, auth, att, asked, attached, snapOf, plan, env>>
  BY Zenon DEF CreateReply, Calls!Reply, Control, access, env
<1>2. /\ VolumeTypes /\ Found /\ Asked(v) /\ VolumeMade(v) /\ Exported(v) /\ v \in Obj
      /\ v \notin Snap
  BY Kinds, Zenon DEF VolumesInv, WholeVolume
<1>3. Complete(v) /\ lio[v] = FullExport /\ Made(v) = "ready"
  BY <1>1, <1>2, HeldReady, Zenon
<1>4. v \in wanted \ acked /\ v \notin delWanted /\ v \notin gone
  BY <1>1, <1>2, Zenon DEF VolumeTypes, Asked, Making
<1>5. lv' = [lv EXCEPT ![v] = lv[v]] /\ lv[v] \in LV /\ lv[v].size \in Nat
  <2>1. lv' = [lv EXCEPT ![v] = lv[v]] /\ lv[v] \in LV
    BY <1>1, <1>2, <1>3, Same, Zenon DEF Complete
  <2>. QED  BY <2>1, Zenon DEF LV
<1>6. \E c \in Nat : cap' = [cap EXCEPT ![v] = c]
  <2>1. ReqSize[v] \in Nat
    BY Instance
  <2>. QED  BY <1>1, <1>5, <2>1, Zenon
<1>7. VolumeTypes' /\ ApartFrom(v) /\ lv'[v] = lv[v] /\ ctl'[v] = "idle" /\ Found'
  BY <1>1, <1>2, <1>4, <1>5, <1>6, CallStep, Zenon
<1>8. Asked(v)'
  BY <1>1, <1>2, <1>4, <1>7, Zenon DEF Asked, Making, Deleting, Growing, Piece
<1>9. VolumeMade(v)'
  BY <1>1, <1>2, <1>3, <1>7, Zenon DEF VolumeMade, Complete, Remote, Local, Piece
<1>10. Exported(v)'
  BY <1>1, <1>2, <1>3, <1>4, <1>7, PlanKept, Zenon DEF Exported, Piece
<1>11. OnList(v)'
  BY <1>1, <1>4, NotListed, Zenon
<1>12. WholeVolume(v)'
  BY <1>2, <1>8, <1>9, <1>10, <1>11, Zenon DEF WholeVolume
<1>13. Made(v)' = Made(v)
  BY <1>1, <1>7, PlanKept, Zenon DEF Made
<1>. QED  BY <1>1, <1>3, <1>4, <1>7, <1>12, <1>13, Zenon DEF Good, Shown

-----------------------------------------------------------------------------
(* DeleteVolume, DeleteSnapshot, ExpandVolume *)

\* A deletion is asked for only of what is held and not attached.
LEMMA DeleteCallGood == ASSUME VolumesInv, NEW v \in Vol, DeleteCall(v) PROVE Good(v)
<1>0. PICK to : to = IF plan.targetd THEN "revoke" ELSE "untarget"
  OBVIOUS
<1>1. /\ ctl[v] = "idle" /\ v \in acked \ gone /\ v \notin asked
      /\ delWanted' = delWanted \cup {v} /\ ctl' = [ctl EXCEPT ![v] = to]
      /\ UNCHANGED <<wanted, acked, gone>>
      /\ UNCHANGED <<lv, lio, acl, auth, att, asked, attached, snapOf, cap, plan, env>>
  BY <1>0, Zenon DEF DeleteCall, Calls!Delete, Control, access, env
<1>2. /\ VolumeTypes /\ Found /\ Asked(v) /\ VolumeMade(v) /\ Exported(v) /\ OnList(v)
      /\ v \in Obj /\ v \notin Snap
  BY Kinds, Zenon DEF VolumesInv, WholeVolume
<1>3. VolumeTypes' /\ ApartFrom(v) /\ lv'[v] = lv[v] /\ ctl'[v] = to /\ Found'
  BY <1>1, <1>2, Same, CallStep, Zenon
<1>4. (to = "untarget" /\ ~ plan.targetd) \/ (to = "revoke" /\ plan.targetd)
  BY <1>0, Zenon
<1>5. Asked(v)'
  <2>1. to \notin Making /\ to \notin Growing /\ to # "removed"
    BY <1>4, Zenon DEF Making, Growing, Piece
  <2>. QED  BY <1>1, <1>2, <1>3, <2>1, Zenon DEF VolumeTypes, Asked
<1>6. VolumeMade(v)'
  BY <1>1, <1>2, <1>3, <1>4, Zenon DEF VolumeMade, Remote, Local, Piece
<1>7. Exported(v)'
  BY <1>1, <1>2, <1>3, <1>4, PlanKept, Zenon DEF Exported, Piece
<1>8. OnList(v)'
  BY <1>1, <1>2, Zenon DEF OnList
<1>9. WholeVolume(v)'
  BY <1>2, <1>5, <1>6, <1>7, <1>8, Zenon DEF WholeVolume
<1>10. Made(v)' = Made(v)
  BY <1>1, <1>3, PlanKept, Zenon DEF Made
<1>. QED  BY <1>1, <1>3, <1>9, <1>10, Zenon DEF Good, Shown

\* A command of DeleteVolume takes something away, the backstore before the LV.
LEMMA DeleteGood ==
    ASSUME VolumesInv, NEW v \in Vol, NEW l, NEW e, NEW to, v \in delWanted,
           lv' = [lv EXCEPT ![v] = l], lio' = [lio EXCEPT ![v] = e],
           ctl' = [ctl EXCEPT ![v] = to],
           UNCHANGED <<wanted, acked, delWanted, gone>>,
           UNCHANGED <<att, asked, attached, snapOf, cap, plan, env>>,
           acl' \in {acl, acl \ {v}}, auth' \in {auth, auth \ {v}},
           l \in {lv[v], None}, e \subseteq lio[v],
           "backstore" \in e => l = lv[v],
           to \in {"unback", "destroy", "remove", "removed"},
           to \in {"unback", "remove"} => ~ plan.targetd,
           to = "destroy" => plan.targetd,
           to = "unback" => e \subseteq {"backstore"},
           to \in {"remove", "removed"} => e = {},
           to = "removed" => l = None
    PROVE  Good(v)
<1>1. /\ VolumeTypes /\ Found /\ Asked(v) /\ VolumeMade(v) /\ Exported(v) /\ v \in Obj
      /\ v \notin Snap
  BY Kinds, Zenon DEF VolumesInv, WholeVolume
<1>2. l = None \/ l \in LV
  BY <1>1, Zenon DEF VolumeTypes
<1>3. VolumeTypes' /\ ApartFrom(v) /\ lv'[v] = l /\ ctl'[v] = to /\ Found'
  BY <1>1, <1>2, CallStep, Zenon
<1>4. lio'[v] = e
  BY <1>1, Zenon DEF VolumeTypes, On
<1>5. Asked(v)'
  <2>1. to \notin Making /\ to \notin Growing
    BY Zenon DEF Making, Growing, Piece
  <2>. QED  BY <1>1, <1>3, <2>1, Zenon DEF Asked
<1>6. VolumeMade(v)'
  <2>1. /\ to \in Remote => plan.targetd
        /\ to \in Local => ~ plan.targetd
        /\ to \notin {"plain", "clone", "activate", "extend"} /\ to # "vol_create"
        /\ to # "backstore" /\ to \notin (Piece \ {"backstore"}) \cup {"reply"}
    BY Zenon DEF Remote, Local, Piece
  <2>2. l # None => l = lv[v]
    BY Zenon
  <2>. QED  BY <1>1, <1>3, <2>1, <2>2, Zenon DEF VolumeMade
<1>7. Exported(v)'
  <2>1. to # "portals" /\ to \notin Piece \cup {"reply"}
    BY Zenon DEF Piece
  <2>2. FullExport' = FullExport
    BY PlanKept, Zenon
  <2>3. /\ e \subseteq FullExport /\ ("backstore" \in e => l # None /\ l.active)
        /\ v \in gone => e = {}
    BY <1>1, Zenon DEF Exported
  <2>. QED  BY <1>3, <1>4, <2>1, <2>2, <2>3, Zenon DEF Exported
<1>8. OnList(v)'
  <2>1. v \notin asked /\ v \notin acl /\ v \notin attached /\ att[v] = "idle"
    BY NotListed, Zenon
  <2>2. v \notin acl'
    BY <2>1, Zenon
  <2>. QED  BY <2>1, <2>2, Zenon DEF OnList
<1>9. WholeVolume(v)'
  BY <1>1, <1>5, <1>6, <1>7, <1>8, Zenon DEF WholeVolume
<1>10. Made(v)' = Made(v) \/ Made(v)' = "absent" \/ (Made(v) = "ready" /\ Made(v)' = "partial")
  <2>1. FullExport' = FullExport
    BY PlanKept, Zenon
  <2>2. lio[v] \subseteq FullExport
    BY <1>1, Zenon DEF Exported
  <2>3. CASE l = lv[v] /\ e = lio[v]
    BY <1>3, <1>4, <2>1, <2>3, Zenon DEF Made
  <2>4. CASE l = None /\ e = {}
    BY <1>3, <1>4, <2>4, Zenon DEF Made
  <2>5. ASSUME ~(l = lv[v] /\ e = lio[v]), ~(l = None /\ e = {})
        PROVE  Made(v)' = "partial" /\ Made(v) # "absent"
    <3>1. ~(lv[v] = None /\ lio[v] = {})
      BY <2>5, Zenon
    <3>2. ~(l # None /\ e = FullExport)
      BY <2>2, <2>5, Zenon
    <3>. QED  BY <1>1, <1>3, <1>4, <2>1, <2>5, <3>1, <3>2, Zenon DEF Made
  <2>6. Made(v) \in {"absent", "partial", "ready"}
    BY Zenon DEF Made
  <2>. QED  BY <2>3, <2>4, <2>5, <2>6, Zenon
<1>. QED  BY <1>3, <1>9, <1>10, Zenon DEF Good, Shown

\* The target goes first, with the access list, then the backstore, then the LV; a
\* targetd volume goes once its exports are gone.
LEMMA DeleteStepGood ==
    ASSUME VolumesInv, NEW v \in Vol,
           \/ DeleteTarget(v) \/ DeleteBackstore(v) \/ DeleteRevoke(v)
           \/ DeleteRemove(v) \/ DeleteRemote(v)
    PROVE  Good(v)
<1>1. /\ VolumeTypes /\ Found /\ Asked(v) /\ VolumeMade(v) /\ Exported(v) /\ v \in Obj
  BY Kinds, Zenon DEF VolumesInv, WholeVolume
<1>2. lv = [lv EXCEPT ![v] = lv[v]] /\ lio = [lio EXCEPT ![v] = lio[v]]
  BY <1>1, Zenon DEF VolumeTypes, On
<1>3. CASE DeleteTarget(v)
  <2>1. /\ ctl[v] = "untarget" /\ ctl' = [ctl EXCEPT ![v] = "unback"]
        /\ UNCHANGED <<wanted, acked, delWanted, gone>>
        /\ UNCHANGED <<lv, att, asked, attached, snapOf, cap, plan, env>>
    BY <1>3, Zenon DEF DeleteTarget, Calls!Step, env
  <2>2. v \in delWanted /\ ~ plan.targetd
    BY <1>1, <2>1, Zenon DEF Asked, VolumeMade, Deleting, Local
  <2>3. RightIQN
    BY <1>1, <2>2, Zenon DEF Found
  <2>4. PICK e : e = lio[v] \cap {"backstore"}
    OBVIOUS
  <2>5. lio' = [lio EXCEPT ![v] = e] /\ acl' = acl \ {v} /\ auth' = auth \ {v}
    BY <1>3, <2>3, <2>4, Zenon DEF DeleteTarget
  <2>6. lv' = [lv EXCEPT ![v] = lv[v]] /\ e \subseteq lio[v] /\ e \subseteq {"backstore"}
    BY <1>2, <2>1, <2>4, Zenon
  <2>. QED  BY <2>1, <2>2, <2>5, <2>6, DeleteGood, Zenon
<1>4. CASE DeleteBackstore(v)
  <2>1. /\ ctl[v] = "unback" /\ ctl' = [ctl EXCEPT ![v] = "remove"]
        /\ UNCHANGED <<wanted, acked, delWanted, gone>>
        /\ lio' = [lio EXCEPT ![v] = lio[v] \ {"backstore", "lun"}]
        /\ UNCHANGED <<lv, acl, auth, att, asked, attached, snapOf, cap, plan, env>>
    BY <1>4, Zenon DEF DeleteBackstore, Calls!Step, access, env
  <2>2. v \in delWanted /\ ~ plan.targetd /\ lio[v] \ {"backstore", "lun"} = {}
    BY <1>1, <2>1, Zenon DEF Asked, VolumeMade, Exported, Deleting, Local
  <2>3. lv' = [lv EXCEPT ![v] = lv[v]] /\ lio' = [lio EXCEPT ![v] = {}]
    BY <1>2, <2>1, <2>2, Zenon
  <2>. QED  BY <2>1, <2>2, <2>3, DeleteGood, Zenon
<1>5. CASE DeleteRevoke(v)
  <2>1. /\ ctl[v] = "revoke" /\ ctl' = [ctl EXCEPT ![v] = "destroy"] /\ acl' = acl \ {v}
        /\ UNCHANGED <<wanted, acked, delWanted, gone>>
        /\ UNCHANGED <<lv, lio, auth, att, asked, attached, snapOf, cap, plan, env>>
    BY <1>5, Zenon DEF DeleteRevoke, Calls!Step, env
  <2>2. v \in delWanted /\ plan.targetd
    BY <1>1, <2>1, Zenon DEF Asked, VolumeMade, Deleting, Remote
  <2>3. /\ lv' = [lv EXCEPT ![v] = lv[v]] /\ lio' = [lio EXCEPT ![v] = lio[v]]
        /\ "backstore" \in lio[v] => lv[v] = lv[v]
    BY <1>2, <2>1, Zenon
  <2>. QED  BY <2>1, <2>2, <2>3, DeleteGood, Zenon
<1>6. ASSUME DeleteRemove(v) \/ DeleteRemote(v) PROVE Good(v)
  <2>1. /\ ctl[v] = "remove" \/ (ctl[v] = "destroy" /\ DeleteRemote(v))
        /\ UNCHANGED <<wanted, acked, delWanted, gone>>
        /\ UNCHANGED <<lio, acl, auth, att, asked, attached, snapOf, cap, plan, env>>
    BY <1>6, Zenon DEF DeleteRemove, DeleteRemote, Calls!Step, Storage, access, env
  <2>2. v \in delWanted
    BY <1>1, <2>1, Zenon DEF Asked, Deleting
  <2>3. v \notin acl
    BY <2>2, NotListed, Zenon
  <2>4. lv' = [lv EXCEPT ![v] = None] /\ ctl' = [ctl EXCEPT ![v] = "removed"]
    BY <1>6, <2>3, Zenon DEF DeleteRemove, DeleteRemote, Calls!Step
  <2>5. lio[v] = {}
    <3>1. CASE ctl[v] = "remove"
      BY <1>1, <3>1, Zenon DEF Exported
    <3>2. CASE ctl[v] = "destroy"
      <4>1. plan.targetd
        BY <1>1, <3>2, Zenon DEF VolumeMade, Remote
      <4>. QED  BY <1>1, <4>1, Zenon DEF Exported, FullExport
    <3>. QED  BY <2>1, <3>1, <3>2, Zenon
  <2>6. lio' = [lio EXCEPT ![v] = {}]
    BY <1>2, <2>1, <2>5, Zenon
  <2>. QED  BY <2>1, <2>2, <2>4, <2>5, <2>6, DeleteGood, Zenon
<1>. QED  BY <1>3, <1>4, <1>5, <1>6, Zenon

\* A step of a handler that leaves the LV and its export alone keeps what was shown of
\* them, if the step it goes to promises no more.
LEMMA Settles ==
    ASSUME VolumesInv, NEW n \in Obj, lv'[n] = lv[n], ctl'[n] = "idle",
           UNCHANGED <<lio, acl, auth, att, asked, attached, snapOf, plan>>,
           UNCHANGED <<wanted, acked, delWanted>>,
           n \in gone' => lv[n] = None /\ (n \in Vol => lio[n] = {})
    PROVE  WholeVolume(n)' /\ Made(n)' = Made(n)
<1>1. WholeVolume(n) /\ FullExport' = FullExport
  BY PlanKept, Zenon DEF VolumesInv
<1>2. Asked(n)'
  BY <1>1, Zenon DEF WholeVolume, Asked, Making, Deleting, Growing, Piece
<1>3. ASSUME n \in Vol PROVE VolumeMade(n)' /\ Exported(n)' /\ OnList(n)'
  <2>1. VolumeMade(n) /\ Exported(n) /\ OnList(n)
    BY <1>1, <1>3, Zenon DEF WholeVolume
  <2>2. VolumeMade(n)'
    BY <2>1, Zenon DEF VolumeMade, Complete, Remote, Local, Piece
  <2>3. Exported(n)'
    BY <1>1, <1>3, <2>1, Zenon DEF Exported, Piece
  <2>4. OnList(n)'
    BY <2>1, Zenon DEF OnList
  <2>. QED  BY <2>2, <2>3, <2>4, Zenon
<1>4. n \in Snap => SnapshotMade(n)'
  BY <1>1, Zenon DEF WholeVolume, SnapshotMade
<1>5. Made(n)' = Made(n)
  BY <1>1, Zenon DEF Made
<1>. QED  BY <1>2, <1>3, <1>4, <1>5, Zenon DEF WholeVolume

\* The response of a delete comes when nothing is left.
LEMMA DeleteReplyGood == ASSUME VolumesInv, NEW n \in Obj, DeleteReply(n) PROVE Good(n)
<1>1. /\ ctl[n] = "removed" /\ gone' = gone \cup {n} /\ ctl' = [ctl EXCEPT ![n] = "idle"]
      /\ UNCHANGED <<wanted, acked, delWanted>>
      /\ UNCHANGED <<lv, lio, acl, auth, att, asked, attached, snapOf, cap, plan, env>>
  BY Zenon DEF DeleteReply, Calls!DeleteReply, Control, access, env
<1>2. VolumeTypes /\ Found /\ Asked(n) /\ (n \in Vol => Exported(n))
  BY Zenon DEF VolumesInv, WholeVolume
<1>3. n \in delWanted /\ lv[n] = None /\ (n \in Vol => lio[n] = {})
  BY <1>1, <1>2, Zenon DEF Asked, Exported, Deleting
<1>4. VolumeTypes' /\ ApartFrom(n) /\ lv'[n] = lv[n] /\ ctl'[n] = "idle" /\ Found'
  BY <1>1, <1>2, <1>3, Same, CallStep, Zenon
<1>5. WholeVolume(n)' /\ Made(n)' = Made(n)
  BY <1>1, <1>3, <1>4, Settles, Zenon
<1>6. Made(n) = "absent"
  BY <1>3, Zenon DEF Made
<1>. QED  BY <1>1, <1>3, <1>4, <1>5, <1>6, Zenon DEF Good, Shown

\* A handler that dies leaves things as its last command did.
LEMMA InterruptGood ==
    ASSUME VolumesInv, NEW n \in Obj, Calls!Interrupt(n),
           UNCHANGED <<lv, lio, acl, auth, att, asked, attached, snapOf, cap, plan, config, outages>>
    PROVE  Good(n)
<1>1. ctl' = [ctl EXCEPT ![n] = "idle"] /\ UNCHANGED <<wanted, acked, delWanted, gone>>
  BY Zenon DEF Calls!Interrupt
<1>2. VolumeTypes /\ Found /\ Asked(n) /\ (n \in Vol => Exported(n))
  BY Zenon DEF VolumesInv, WholeVolume
<1>3. lv'[n] = lv[n] /\ ctl'[n] = "idle" /\ (\A m \in Obj \ {n} : ctl'[m] = ctl[m])
      /\ On(Obj, ctl)'
  BY <1>1, <1>2, Zenon DEF VolumeTypes, On
<1>4. n \in gone' => lv[n] = None /\ (n \in Vol => lio[n] = {})
  BY <1>1, <1>2, Zenon DEF Asked, Exported
<1>5. WholeVolume(n)' /\ Made(n)' = Made(n)
  BY <1>1, <1>3, <1>4, Settles, Zenon
<1>6. VolumeTypes'
  BY <1>1, <1>2, <1>3, Zenon DEF VolumeTypes, On
<1>7. ApartFrom(n) /\ Found'
  BY <1>1, <1>2, <1>3, Zenon DEF ApartFrom, Found, RightIQN
<1>. QED  BY <1>1, <1>5, <1>6, <1>7, Zenon DEF Good, Shown

\* An expansion works on a volume that is held, and leaves it whole.
LEMMA ExpandGood ==
    ASSUME VolumesInv, NEW v \in Vol, NEW l, NEW to, v \in acked \ delWanted, l \in LV,
           lv' = [lv EXCEPT ![v] = l], ctl' = [ctl EXCEPT ![v] = to],
           UNCHANGED <<wanted, acked, delWanted, gone>>,
           UNCHANGED <<lio, acl, auth, att, asked, attached, snapOf, plan, env>>,
           cap' = cap \/ \E c \in Nat : cap' = [cap EXCEPT ![v] = c],
           l.from = lv[v].from, l.active = lv[v].active, l.size >= ReqSize[v],
           to \in Growing \cup {"idle"},
           to = "grow" => ~ plan.targetd, to = "vol_resize" => plan.targetd
    PROVE  Good(v)
<1>1. /\ VolumeTypes /\ Found /\ Asked(v) /\ VolumeMade(v) /\ Exported(v) /\ OnList(v)
      /\ v \in Obj /\ v \notin Snap /\ l # None
  BY Kinds, Zenon DEF VolumesInv, WholeVolume
<1>2. VolumeTypes' /\ ApartFrom(v) /\ lv'[v] = l /\ ctl'[v] = to /\ Found'
  BY <1>1, CallStep, Zenon
<1>3. Complete(v) /\ lio[v] = FullExport /\ Made(v) = "ready" /\ lv[v].from = plan.src[v]
  BY <1>1, HeldReady, Zenon DEF VolumeMade, Complete
<1>4. FullExport' = FullExport
  BY PlanKept, Zenon
<1>5. v \in wanted /\ v \notin gone
  BY <1>1, Zenon DEF VolumeTypes
<1>6. Asked(v)'
  <2>1. to \notin Making /\ to \notin Deleting /\ to # "removed"
    BY Zenon DEF Making, Deleting, Growing, Piece
  <2>. QED  BY <1>2, <1>5, <2>1, Zenon DEF Asked
<1>7. VolumeMade(v)'
  <2>1. /\ to \in Remote => plan.targetd
        /\ to \in Local => ~ plan.targetd
        /\ to \notin {"plain", "clone", "activate", "extend"} /\ to # "vol_create"
        /\ to # "backstore"
    BY Zenon DEF Remote, Local, Growing, Piece
  <2>. QED  BY <1>1, <1>2, <1>3, <2>1, Zenon DEF VolumeMade, Complete
<1>8. Exported(v)'
  <2>1. to # "portals" /\ to \notin Piece \cup {"reply"} /\ to \notin {"unback", "remove", "removed"}
    BY Zenon DEF Piece, Growing
  <2>. QED  BY <1>1, <1>2, <1>3, <1>4, <1>5, <2>1, Zenon DEF Exported, Complete
<1>9. OnList(v)'
  BY <1>1, Zenon DEF OnList
<1>10. WholeVolume(v)'
  BY <1>1, <1>6, <1>7, <1>8, <1>9, Zenon DEF WholeVolume
<1>11. Made(v)' = "ready"
  BY <1>1, <1>2, <1>3, <1>4, Zenon DEF Made, Complete
<1>. QED  BY <1>2, <1>3, <1>10, <1>11, Zenon DEF Good, Shown

\* lvextend and vol_resize leave no volume smaller than it was.
LEMMA ExpandStepGood ==
    ASSUME VolumesInv, NEW v \in Vol,
           ExpandCall(v) \/ ExpandGrow(v) \/ ExpandRemote(v) \/ ExpandReply(v)
    PROVE  Good(v)
<1>1. /\ UNCHANGED <<wanted, acked, delWanted, gone>>
      /\ UNCHANGED <<lio, acl, auth, att, asked, attached, snapOf, plan, env>>
      /\ ctl[v] \in Growing \/ v \in acked \ delWanted
      /\ cap' = cap \/ cap' = [cap EXCEPT ![v] = lv[v].size]
  BY Zenon DEF ExpandCall, ExpandGrow, ExpandRemote, ExpandReply, Calls!Step, Calls!Held,
     Control, Storage, access, env, Growing
<1>2. /\ VolumeTypes /\ Asked(v) /\ VolumeMade(v) /\ Exported(v) /\ v \in Obj
  BY Kinds, Zenon DEF VolumesInv, WholeVolume
<1>3. v \in acked \ delWanted
  BY <1>1, <1>2, Zenon DEF Asked
<1>4. lv[v] # None /\ lv[v] \in LV /\ lv[v].size >= ReqSize[v]
  BY <1>2, <1>3, Zenon DEF VolumeTypes, VolumeMade, Complete
<1>5. lv[v].size \in Nat
  BY <1>4, Zenon DEF LV
<1>6. /\ cap' = cap \/ \E c \in Nat : cap' = [cap EXCEPT ![v] = c]
      /\ lv = [lv EXCEPT ![v] = lv[v]]
  BY <1>1, <1>2, <1>5, Zenon DEF VolumeTypes, On
<1>7. CASE ExpandCall(v) \/ ExpandReply(v)
  <2>1. PICK to : /\ ctl' = [ctl EXCEPT ![v] = to] /\ lv' = lv
                  /\ \/ to = "idle" \/ (to = "grow" /\ ~ plan.targetd)
                     \/ (to = "vol_resize" /\ plan.targetd)
    BY <1>7, Zenon DEF ExpandCall, ExpandReply, Calls!Step, Control
  <2>2. lv' = [lv EXCEPT ![v] = lv[v]] /\ to \in Growing \cup {"idle"}
    BY <1>6, <2>1, Zenon DEF Growing
  <2>. QED  BY <1>1, <1>3, <1>4, <1>6, <2>1, <2>2, ExpandGood, Zenon
<1>8. ASSUME NEW c, NEW l, c \in Nat, c >= lv[v].size, l = [lv[v] EXCEPT !.size = c],
             lv' = [lv EXCEPT ![v] = l], ctl' = [ctl EXCEPT ![v] = "grown"]
      PROVE  Good(v)
  <2>1. l \in LV /\ l.from = lv[v].from /\ l.active = lv[v].active /\ l.size = c
    BY <1>4, <1>8, Zenon DEF LV
  <2>2. ReqSize[v] \in Nat
    BY Instance
  <2>3. l.size >= ReqSize[v]
    BY <1>4, <1>5, <1>8, <2>1, <2>2
  <2>. QED  BY <1>1, <1>3, <1>6, <1>8, <2>1, <2>3, ExpandGood, Zenon DEF Growing
<1>9. cap[v] + 1 \in Nat
  BY <1>2 DEF VolumeTypes
<1>10. CASE ExpandGrow(v)
  <2>1. /\ lv' = [lv EXCEPT ![v] = [lv[v] EXCEPT !.size = Larger(lv[v].size, cap[v] + 1)]]
        /\ ctl' = [ctl EXCEPT ![v] = "grown"]
    BY <1>10, Zenon DEF ExpandGrow, Calls!Step
  <2>2. /\ Larger(lv[v].size, cap[v] + 1) \in Nat
        /\ Larger(lv[v].size, cap[v] + 1) >= lv[v].size
    BY <1>5, <1>9, Largest, Zenon
  <2>. QED  BY <1>8, <2>1, <2>2, Zenon
<1>11. CASE ExpandRemote(v)
  <2>1. ctl' = [ctl EXCEPT ![v] = "grown"]
    BY <1>11, Zenon DEF ExpandRemote, Calls!Step
  <2>2. CASE lv[v].size >= cap[v] + 1
    <3>1. lv' = [lv EXCEPT ![v] = lv[v]]
      BY <1>6, <1>11, <2>2, Zenon DEF ExpandRemote
    <3>. QED  BY <1>1, <1>3, <1>4, <1>6, <2>1, <3>1, ExpandGood, Zenon DEF Growing
  <2>3. CASE ~ (lv[v].size >= cap[v] + 1)
    <3>1. lv' = [lv EXCEPT ![v] = [lv[v] EXCEPT !.size = cap[v] + 1]]
      BY <1>11, <2>3, Zenon DEF ExpandRemote
    <3>2. cap[v] + 1 >= lv[v].size
      BY <1>5, <1>9, <2>3
    <3>. QED  BY <1>8, <1>9, <2>1, <3>1, <3>2, Zenon
  <2>. QED  BY <2>2, <2>3, Zenon
<1>. QED  BY <1>7, <1>10, <1>11, Zenon

-----------------------------------------------------------------------------
(* CreateSnapshot *)

\* A snapshot's LV goes with one lvremove.
LEMMA SnapRemoveGood ==
    ASSUME VolumesInv, NEW s \in Snap, SnapDelete(s) \/ DeleteRemove(s)
    PROVE  Good(s)
<1>1. /\ VolumeTypes /\ Found /\ Asked(s) /\ SnapshotMade(s) /\ s \in Obj /\ s \notin Vol
  BY Kinds, Zenon DEF VolumesInv, WholeVolume
<1>2. CASE SnapDelete(s)
  <2>1. /\ ctl[s] = "idle" /\ s \in acked \ gone
        /\ delWanted' = delWanted \cup {s} /\ ctl' = [ctl EXCEPT ![s] = "remove"]
        /\ UNCHANGED <<wanted, acked, gone>>
        /\ UNCHANGED <<lv, lio, acl, auth, att, asked, attached, snapOf, cap, plan, env>>
    BY <1>2, Zenon DEF SnapDelete, Calls!Delete, Control, access, env
  <2>2. VolumeTypes' /\ ApartFrom(s) /\ lv'[s] = lv[s] /\ ctl'[s] = "remove" /\ Found'
    BY <1>1, <2>1, Same, CallStep, Zenon
  <2>3. Asked(s)'
    BY <1>1, <2>1, <2>2, Zenon DEF VolumeTypes, Asked, Making, Growing, Piece
  <2>4. SnapshotMade(s)'
    BY <1>1, <2>1, <2>2, Zenon DEF SnapshotMade
  <2>5. WholeVolume(s)'
    BY <1>1, <2>3, <2>4, Zenon DEF WholeVolume
  <2>6. Made(s)' = Made(s)
    BY <1>1, <2>1, <2>2, Zenon DEF Made
  <2>. QED  BY <2>1, <2>2, <2>5, <2>6, Zenon DEF Good, Shown
<1>3. CASE DeleteRemove(s)
  <2>1. /\ ctl[s] = "remove" /\ ctl' = [ctl EXCEPT ![s] = "removed"] /\ lv' = [lv EXCEPT ![s] = None]
        /\ UNCHANGED <<wanted, acked, delWanted, gone>> /\ Storage
    BY <1>3, Zenon DEF DeleteRemove, Calls!Step
  <2>2. /\ VolumeTypes' /\ Found' /\ ApartFrom(s) /\ lv'[s] = None /\ ctl'[s] = "removed"
    BY <1>1, <2>1, Works, Zenon
  <2>3. s \in delWanted
    BY <1>1, <2>1, Zenon DEF Asked, Deleting
  <2>4. Asked(s)'
    BY <2>1, <2>2, <2>3, Zenon DEF Asked, Making, Growing, Piece
  <2>5. SnapshotMade(s)'
    BY <2>1, <2>2, <2>3, Zenon DEF SnapshotMade
  <2>6. WholeVolume(s)'
    BY <1>1, <2>4, <2>5, Zenon DEF WholeVolume
  <2>7. Made(s)' = "absent"
    BY <1>1, <2>2, Zenon DEF Made
  <2>. QED  BY <2>1, <2>2, <2>3, <2>6, <2>7, Zenon DEF Good, Shown
<1>. QED  BY <1>2, <1>3, Zenon

\* A retry may name another source: what an earlier attempt left is then not of it.
LEMMA SnapCallGood == ASSUME VolumesInv, NEW s \in Snap, NEW v \in Vol, SnapCall(s, v) PROVE Good(s)
<1>1. /\ ctl[s] = "idle" /\ s \notin acked /\ wanted' = wanted \cup {s}
      /\ ctl' = [ctl EXCEPT ![s] = "check"] /\ UNCHANGED <<acked, delWanted, gone>>
      /\ UNCHANGED <<lv, lio, acl, auth, att, asked, attached, cap, plan, env>>
      /\ snapOf' = [snapOf EXCEPT ![s] = v]
  BY Zenon DEF SnapCall, Calls!Create, Control, access, env
<1>2. VolumeTypes /\ Found /\ Asked(s) /\ SnapshotMade(s) /\ s \in Obj /\ s \notin Vol
  BY Kinds, Zenon DEF VolumesInv, WholeVolume
<1>3. lv' = [lv EXCEPT ![s] = lv[s]] /\ (lv[s] = None \/ lv[s] \in LV)
  BY <1>1, <1>2, Same, Zenon
<1>4. VolumeTypes' /\ ApartFrom(s) /\ lv'[s] = lv[s] /\ ctl'[s] = "check" /\ Found'
  BY <1>1, <1>2, <1>3, CallStep, Zenon
<1>5. snapOf'[s] = v
  BY <1>1, <1>2, Zenon DEF VolumeTypes, On
<1>6. Asked(s)'
  BY <1>1, <1>2, <1>4, Zenon DEF VolumeTypes, Asked, Making, Deleting, Growing
<1>7. SnapshotMade(s)'
  BY <1>1, <1>2, <1>4, <1>5, Zenon DEF VolumeTypes, SnapshotMade
<1>8. WholeVolume(s)'
  BY <1>2, <1>6, <1>7, Zenon DEF WholeVolume
<1>9. CASE s \in wanted
  <2>1. wanted' = wanted
    BY <1>1, <1>9, Zenon
  <2>. QED  BY <1>1, <1>4, <1>8, <1>9, <2>1, Zenon DEF Good, Shown
<1>10. CASE s \notin wanted
  <2>1. lv[s] = None
    BY <1>2, <1>10, Zenon DEF Asked
  <2>2. Made(s)' = Made(s)
    BY <1>2, <1>4, <2>1, Zenon DEF Made
  <2>. QED  BY <1>1, <1>4, <1>8, <2>2, Zenon DEF Good, Shown
<1>. QED  BY <1>9, <1>10, Zenon

\* CreateSnapshot's own steps.
LEMMA SnapGood ==
    ASSUME VolumesInv, NEW s \in Snap, NEW l, NEW to, l = None \/ l \in LV,
           lv' = [lv EXCEPT ![s] = l], ctl' = [ctl EXCEPT ![s] = to],
           UNCHANGED <<wanted, acked, delWanted, gone>>, Storage,
           ctl[s] \in {"check", "snap"}, to \in {"idle", "snap", "reply"},
           l # None => l.from \in Vol,
           to = "snap" => l = None \/ l.from = snapOf[s],
           to = "reply" => l # None /\ l.from = snapOf[s]
    PROVE  Good(s)
<1>1. s \in Obj /\ s \notin Vol
  BY Kinds, Zenon
<1>2. /\ VolumeTypes /\ WholeVolume(s) /\ VolumeTypes' /\ Found' /\ ApartFrom(s)
      /\ lv'[s] = l /\ ctl'[s] = to /\ snapOf' = snapOf
  BY <1>1, Works, Zenon
<1>3. /\ s \in wanted \ acked /\ s \notin delWanted /\ s \notin gone /\ snapOf[s] \in Vol
  BY <1>2, Zenon DEF VolumeTypes, WholeVolume, Asked, SnapshotMade, Making
<1>4. Asked(s)'
  BY <1>2, <1>3, Zenon DEF Asked, Making, Deleting, Growing
<1>5. SnapshotMade(s)'
  BY <1>2, <1>3, Zenon DEF SnapshotMade
<1>6. WholeVolume(s)'
  BY <1>1, <1>4, <1>5, Zenon DEF WholeVolume
<1>. QED  BY <1>2, <1>3, <1>6, Zenon DEF Good, Shown

\* A snapshot of this name is gone on with only if it is of the same source.
LEMMA SnapCheckGood == ASSUME VolumesInv, NEW s \in Snap, SnapCheck(s) PROVE Good(s)
<1>1. PICK to : to = IF IsThin(snapOf[s]) /\ (lv[s] = None \/ Origin(s) = snapOf[s])
                     THEN "snap" ELSE "idle"
  OBVIOUS
<1>2. /\ ctl[s] = "check" /\ ctl' = [ctl EXCEPT ![s] = to]
      /\ UNCHANGED <<wanted, acked, delWanted, gone>> /\ Storage /\ lv' = lv
  BY <1>1, Zenon DEF SnapCheck, Calls!Step, Control, Storage
<1>3. VolumeTypes /\ SnapshotMade(s) /\ s \in Obj
  BY Kinds, Zenon DEF VolumesInv, WholeVolume
<1>4. lv' = [lv EXCEPT ![s] = lv[s]] /\ (lv[s] = None \/ lv[s] \in LV)
  BY <1>2, <1>3, Same, Zenon
<1>5. snapOf[s] \in Vol /\ snapOf[s] # None
  BY <1>2, <1>3, Kinds, Zenon DEF SnapshotMade
<1>6. to = "snap" => lv[s] = None \/ lv[s].from = snapOf[s]
  BY <1>1, <1>5, Zenon DEF Origin
<1>7. lv[s] # None => lv[s].from \in Vol
  BY <1>3, Zenon DEF SnapshotMade
<1>8. to \in {"idle", "snap"}
  BY <1>1, Zenon
<1>. QED  BY <1>2, <1>4, <1>6, <1>7, <1>8, SnapGood, Zenon

\* lvcreate -s, once.
LEMMA SnapCreateGood == ASSUME VolumesInv, NEW s \in Snap, SnapCreate(s) PROVE Good(s)
<1>1. ctl[s] = "snap" /\ UNCHANGED <<wanted, acked, delWanted, gone>> /\ Storage
  BY Zenon DEF SnapCreate, Calls!Step
<1>2. VolumeTypes /\ SnapshotMade(s) /\ s \in Obj
  BY Kinds, Zenon DEF VolumesInv, WholeVolume
<1>3. /\ snapOf[s] \in Vol /\ snapOf[s] \in Obj
      /\ lv[s] # None => lv[s].from \in Vol /\ lv[s].from = snapOf[s]
  BY <1>1, <1>2, Kinds, Zenon DEF SnapshotMade
<1>4. CASE lv[s] # None
  <2>1. lv' = lv /\ ctl' = [ctl EXCEPT ![s] = "reply"]
    BY <1>4, Zenon DEF SnapCreate, Calls!Step
  <2>2. lv' = [lv EXCEPT ![s] = lv[s]] /\ (lv[s] = None \/ lv[s] \in LV)
    BY <1>2, <2>1, Same, Zenon
  <2>. QED  BY <1>1, <1>3, <1>4, <2>1, <2>2, SnapGood, Zenon
<1>5. CASE lv[s] = None /\ lv[snapOf[s]] = None
  <2>1. lv' = lv /\ ctl' = [ctl EXCEPT ![s] = "idle"]
    BY <1>5, Zenon DEF SnapCreate, Calls!Step
  <2>2. lv' = [lv EXCEPT ![s] = lv[s]] /\ (lv[s] = None \/ lv[s] \in LV)
    BY <1>2, <2>1, Same, Zenon
  <2>. QED  BY <1>1, <1>5, <2>1, <2>2, SnapGood, Zenon
<1>6. CASE lv[s] = None /\ lv[snapOf[s]] # None
  <2>1. PICK l : l = [lv[snapOf[s]] EXCEPT !.active = FALSE, !.from = snapOf[s]]
    OBVIOUS
  <2>2. lv' = [lv EXCEPT ![s] = l] /\ ctl' = [ctl EXCEPT ![s] = "reply"]
    BY <1>6, <2>1, Zenon DEF SnapCreate, Calls!Step
  <2>3. lv[snapOf[s]] \in LV
    BY <1>2, <1>3, <1>6, Zenon DEF VolumeTypes
  <2>4. l \in LV /\ l.from = snapOf[s]
    BY <1>3, <2>1, <2>3, Zenon DEF LV
  <2>5. l # None
    BY <2>4, Kinds, Zenon
  <2>. QED  BY <1>1, <1>3, <1>6, <2>2, <2>4, <2>5, SnapGood, Zenon
<1>. QED  BY <1>4, <1>5, <1>6, Zenon

\* The response comes when the snapshot is one of its source.
LEMMA SnapReplyGood == ASSUME VolumesInv, NEW s \in Snap, SnapReply(s) PROVE Good(s)
<1>1. /\ ctl[s] = "reply" /\ acked' = acked \cup {s} /\ ctl' = [ctl EXCEPT ![s] = "idle"]
      /\ UNCHANGED <<wanted, delWanted, gone>>
      /\ UNCHANGED <<lv, lio, acl, auth, att, asked, attached, snapOf, cap, plan, env>>
  BY Zenon DEF SnapReply, Calls!Reply, Control, access, env
<1>2. VolumeTypes /\ Found /\ Asked(s) /\ SnapshotMade(s) /\ s \in Obj /\ s \notin Vol
  BY Kinds, Zenon DEF VolumesInv, WholeVolume
<1>3. s \in wanted \ acked /\ lv[s] # None /\ lv[s].from = snapOf[s]
  BY <1>1, <1>2, Zenon DEF Asked, SnapshotMade, Making
<1>4. lv' = [lv EXCEPT ![s] = lv[s]] /\ (lv[s] = None \/ lv[s] \in LV)
  BY <1>1, <1>2, Same, Zenon
<1>5. VolumeTypes' /\ ApartFrom(s) /\ lv'[s] = lv[s] /\ ctl'[s] = "idle" /\ Found'
  BY <1>1, <1>2, <1>3, <1>4, CallStep, Zenon
<1>6. Asked(s)'
  BY <1>1, <1>2, <1>3, <1>5, Zenon DEF VolumeTypes, Asked, Making, Deleting, Growing, Piece
<1>7. SnapshotMade(s)'
  BY <1>1, <1>2, <1>3, <1>5, Zenon DEF SnapshotMade
<1>8. WholeVolume(s)'
  BY <1>2, <1>6, <1>7, Zenon DEF WholeVolume
<1>9. Made(s) = "ready" /\ Made(s)' = "ready"
  BY <1>1, <1>2, <1>3, <1>5, Zenon DEF Made
<1>. QED  BY <1>1, <1>3, <1>5, <1>8, <1>9, Zenon DEF Good, Shown

-----------------------------------------------------------------------------
(* ControllerPublish, ControllerUnpublish *)

Unlisted == <<lv, lio, snapOf, cap, ctl, wanted, acked, delWanted, gone, plan, config, outages>>

\* A step of the attach or detach handler has to keep the access list in order.
LEMMA ListGood ==
    ASSUME VolumesInv, NEW v \in Vol, NEW to, att' = [att EXCEPT ![v] = to], UNCHANGED Unlisted,
           acl' \in {acl, acl \cup {v}, acl \ {v}}, auth' \in {auth, auth \cup {v}, auth \ {v}},
           asked' \in {asked, asked \cup {v}, asked \ {v}},
           attached' \in {attached, attached \cup {v}, attached \ {v}},
           att'[v] = to => OnList(v)'
    PROVE  Good(v)
<1>1. /\ VolumeTypes /\ Found /\ Asked(v) /\ VolumeMade(v) /\ Exported(v) /\ v \in Obj /\ v \notin Snap
  BY Kinds, Zenon DEF VolumesInv, WholeVolume
<1>2. UNCHANGED <<lv, lio, snapOf, cap, ctl, wanted, acked, delWanted, gone, plan, config, outages>>
  BY Zenon DEF Unlisted
<1>3. att'[v] = to /\ On(Vol, att)' /\ \A w \in Vol \ {v} : att'[w] = att[w]
  BY <1>1, Zenon DEF VolumeTypes, On
<1>4. acl' \subseteq Vol /\ asked' \subseteq Vol /\ attached' \subseteq Vol
  BY <1>1, Zenon DEF VolumeTypes
<1>5. VolumeTypes'
  BY <1>1, <1>2, <1>3, <1>4, Zenon DEF VolumeTypes, On
<1>6. ApartFrom(v)
  <2>1. \A w \in Vol \ {v} : /\ w \in acl' <=> w \in acl
                             /\ w \in auth' <=> w \in auth
                             /\ w \in asked' <=> w \in asked
                             /\ w \in attached' <=> w \in attached
    BY Zenon
  <2>. QED  BY <1>2, <1>3, <2>1, Zenon DEF ApartFrom
<1>7. Found'
  BY <1>1, <1>2, Zenon DEF Found, RightIQN
<1>8. Asked(v)' /\ VolumeMade(v)'
  BY <1>1, <1>2, Zenon DEF Asked, VolumeMade, Complete
<1>9. FullExport' = FullExport /\ Behind(ctl[v])' = Behind(ctl[v])
  BY <1>2, PlanKept, Zenon DEF Behind
<1>10. Exported(v)'
  BY <1>1, <1>2, <1>9, Zenon DEF Exported
<1>11. WholeVolume(v)'
  BY <1>1, <1>3, <1>8, <1>10, Zenon DEF WholeVolume
<1>12. Made(v)' = Made(v)
  BY <1>2, <1>9, Zenon DEF Made
<1>. QED  BY <1>2, <1>5, <1>6, <1>7, <1>11, <1>12, Zenon DEF Good, Shown

\* ControllerPublish makes the entry and its credentials before it answers.
LEMMA PublishGood ==
    ASSUME VolumesInv, NEW v \in Vol,
           PublishCall(v) \/ PublishAcl(v) \/ PublishAuth(v) \/ PublishGrant(v) \/ PublishReply(v)
    PROVE  Good(v)
<1>1. UNCHANGED Unlisted
  BY Zenon DEF PublishCall, PublishAcl, PublishAuth, PublishGrant, PublishReply, Array, callVars,
     env, Unlisted
<1>2. UNCHANGED <<plan, acked, delWanted>>
  BY <1>1, Zenon DEF Unlisted
<1>3. VolumeTypes /\ OnList(v)
  BY Kinds, Zenon DEF VolumesInv, WholeVolume
<1>4. plan.targetd => ~ plan.chap
  BY <1>3, Instance, Zenon DEF VolumeTypes
<1>5. CASE PublishCall(v)
  <2>0. PICK to : to = IF plan.targetd THEN "grant" ELSE "acl"
    OBVIOUS
  <2>1. /\ att[v] = "idle" /\ att' = [att EXCEPT ![v] = to] /\ asked' = asked \cup {v}
        /\ UNCHANGED <<acl, auth, attached>> /\ v \in acked \ delWanted /\ v \notin attached
    BY <1>5, <2>0, Zenon DEF PublishCall, AttachGoto, Calls!Held
  <2>2. (to = "grant" /\ plan.targetd) \/ (to = "acl" /\ ~ plan.targetd)
    BY <2>0, Zenon
  <2>3. att'[v] = to => OnList(v)'
    BY <1>2, <2>1, <2>2, Zenon DEF OnList
  <2>. QED  BY <1>1, <2>1, <2>3, ListGood, Zenon
<1>6. CASE PublishAcl(v)
  <2>0. PICK to : to = IF plan.chap THEN "auth" ELSE "told"
    OBVIOUS
  <2>1. /\ att[v] = "acl" /\ att' = [att EXCEPT ![v] = to] /\ acl' = acl \cup {v}
        /\ UNCHANGED <<auth, asked, attached>>
    BY <1>6, <2>0, Zenon DEF PublishAcl, AttachGoto
  <2>2. (to = "auth" /\ plan.chap) \/ (to = "told" /\ ~ plan.chap)
    BY <2>0, Zenon
  <2>3. att'[v] = to => OnList(v)'
    BY <1>2, <1>3, <2>1, <2>2, Zenon DEF OnList
  <2>. QED  BY <1>1, <2>1, <2>3, ListGood, Zenon
<1>7. CASE PublishAuth(v)
  <2>1. /\ att[v] = "auth" /\ att' = [att EXCEPT ![v] = "told"] /\ auth' = auth \cup {v}
        /\ UNCHANGED <<acl, asked, attached>>
    BY <1>7, Zenon DEF PublishAuth, AttachGoto
  <2>2. att'[v] = "told" => OnList(v)'
    BY <1>2, <1>3, <2>1, Zenon DEF OnList
  <2>. QED  BY <1>1, <2>1, <2>2, ListGood, Zenon
<1>8. CASE PublishGrant(v)
  <2>1. /\ att[v] = "grant" /\ att' = [att EXCEPT ![v] = "told"] /\ acl' = acl \cup {v}
        /\ UNCHANGED <<auth, asked, attached>>
    BY <1>8, Zenon DEF PublishGrant, AttachGoto
  <2>2. att'[v] = "told" => OnList(v)'
    BY <1>2, <1>3, <1>4, <2>1, Zenon DEF OnList
  <2>. QED  BY <1>1, <2>1, <2>2, ListGood, Zenon
<1>9. CASE PublishReply(v)
  <2>1. /\ att[v] = "told" /\ att' = [att EXCEPT ![v] = "idle"] /\ attached' = attached \cup {v}
        /\ UNCHANGED <<acl, auth, asked>>
    BY <1>9, Zenon DEF PublishReply, AttachGoto
  <2>2. att'[v] = "idle" => OnList(v)'
    BY <1>2, <1>3, <2>1, Zenon DEF OnList
  <2>. QED  BY <1>1, <2>1, <2>2, ListGood, Zenon
<1>. QED  BY <1>5, <1>6, <1>7, <1>8, <1>9, Zenon

\* ControllerUnpublish finds the entry it deletes, and answers when it is gone.
LEMMA UnpublishGood ==
    ASSUME VolumesInv, NEW v \in Vol,
           UnpublishCall(v) \/ UnpublishAcl(v) \/ UnpublishRevoke(v) \/ UnpublishReply(v)
    PROVE  Good(v)
<1>1. UNCHANGED Unlisted
  BY Zenon DEF UnpublishCall, UnpublishAcl, UnpublishRevoke, UnpublishReply, Array, callVars, env,
     Unlisted
<1>2. UNCHANGED <<plan, acked, delWanted>>
  BY <1>1, Zenon DEF Unlisted
<1>3. OnList(v) /\ Found
  BY Kinds, Zenon DEF VolumesInv, WholeVolume
<1>4. CASE UnpublishCall(v)
  <2>0. PICK to : to = IF plan.targetd THEN "ungrant" ELSE "unacl"
    OBVIOUS
  <2>1. /\ att[v] = "idle" /\ att' = [att EXCEPT ![v] = to] /\ v \in asked
        /\ attached' = attached \ {v} /\ UNCHANGED <<acl, auth, asked>>
    BY <1>4, <2>0, Zenon DEF UnpublishCall, AttachGoto
  <2>2. (to = "ungrant" /\ plan.targetd) \/ (to = "unacl" /\ ~ plan.targetd)
    BY <2>0, Zenon
  <2>3. att'[v] = to => OnList(v)'
    BY <1>2, <1>3, <2>1, <2>2, Zenon DEF OnList
  <2>. QED  BY <1>1, <2>1, <2>3, ListGood, Zenon
<1>5. ASSUME UnpublishAcl(v) \/ UnpublishRevoke(v) PROVE Good(v)
  <2>1. /\ att[v] \in {"unacl", "ungrant"} /\ att' = [att EXCEPT ![v] = "detached"]
        /\ UNCHANGED <<asked, attached>>
    BY <1>5, Zenon DEF UnpublishAcl, UnpublishRevoke, AttachGoto
  <2>2. UnpublishAcl(v) => RightIQN
    BY <1>3, Zenon DEF OnList, Found, UnpublishAcl, AttachGoto
  <2>3. acl' = acl \ {v} /\ (auth' = auth \ {v} \/ auth' = auth)
    BY <1>5, <2>2, Zenon DEF UnpublishAcl, UnpublishRevoke
  <2>4. v \in asked /\ v \notin attached
    BY <1>3, <2>1, Zenon DEF OnList
  <2>5. att'[v] = "detached" => OnList(v)'
    BY <1>2, <1>3, <2>1, <2>3, <2>4, Zenon DEF OnList
  <2>. QED  BY <1>1, <2>1, <2>3, <2>5, ListGood, Zenon
<1>6. CASE UnpublishReply(v)
  <2>1. /\ att[v] = "detached" /\ att' = [att EXCEPT ![v] = "idle"]
        /\ asked' = asked \ {v} /\ UNCHANGED <<acl, auth, attached>>
    BY <1>6, Zenon DEF UnpublishReply, AttachGoto
  <2>2. v \notin acl /\ v \notin attached
    BY <1>3, <2>1, Zenon DEF OnList
  <2>3. att'[v] = "idle" => OnList(v)'
    BY <1>2, <2>1, <2>2, Zenon DEF OnList
  <2>. QED  BY <1>1, <2>1, <2>3, ListGood, Zenon
<1>. QED  BY <1>4, <1>5, <1>6, Zenon

\* An attach or detach that dies leaves the access list as its last command did.
LEMMA AttachDies ==
    ASSUME VolumesInv, NEW v \in Vol, att' = [att EXCEPT ![v] = "idle"], UNCHANGED Unlisted,
           UNCHANGED <<acl, auth, asked, attached>>
    PROVE  Good(v)
<1>1. OnList(v) /\ UNCHANGED <<plan, acked, delWanted>>
  BY Kinds, Zenon DEF VolumesInv, WholeVolume, Unlisted
<1>2. att'[v] = "idle" => OnList(v)'
  BY <1>1, Zenon DEF OnList
<1>. QED  BY <1>2, ListGood, Zenon

-----------------------------------------------------------------------------
(* The theorems *)

\* Every step but the plugin's restarts is a good one on some object.
LEMMA NextGood ==
    ASSUME VolumesInv, Next, ~ DropInstance, ~ RestoreInstance
    PROVE  \E n \in Obj : Good(n)
<1>1. ASSUME NEW v \in Vol, CreateCall(v) \/ CreateStep(v) PROVE Good(v)
  BY <1>1, CreateCallGood, CreateLookupGood, CreatePlainGood, CreateCloneGood,
     CreateActivateGood, CreateExportGood, CreateReplyGood, Zenon DEF CreateStep
<1>2. ASSUME NEW v \in Vol, DeleteCall(v) \/ ExpandCall(v) \/ ExpandStep(v) PROVE Good(v)
  BY <1>2, DeleteCallGood, ExpandStepGood, Zenon DEF ExpandStep
<1>3. ASSUME NEW v \in Vol, PublishCall(v) \/ UnpublishCall(v) \/ AttachStep(v) PROVE Good(v)
  BY <1>3, PublishGood, UnpublishGood, Zenon DEF AttachStep
<1>4. ASSUME NEW s \in Snap, (\E v \in Vol : SnapCall(s, v)) \/ SnapStep(s) \/ SnapDelete(s)
      PROVE  Good(s)
  BY <1>4, SnapCallGood, SnapCheckGood, SnapCreateGood, SnapReplyGood, SnapRemoveGood,
     Zenon DEF SnapStep
<1>5. ASSUME NEW n \in Obj, DeleteStep(n) PROVE Good(n)
  <2>1. CASE n \in Vol
    BY <1>5, <2>1, DeleteStepGood, DeleteReplyGood, Zenon DEF DeleteStep
  <2>2. CASE n \in Snap
    BY <1>5, <2>2, Kinds, SnapRemoveGood, DeleteReplyGood, Zenon DEF DeleteStep
  <2>. QED  BY <2>1, <2>2, Zenon DEF Obj
<1>6. ASSUME NEW n \in Obj, Interrupt(n) PROVE Good(n)
  <2>1. CASE Calls!Interrupt(n) /\ UNCHANGED att
    BY <1>6, <2>1, InterruptGood, Zenon DEF Interrupt
  <2>2. ASSUME n \in Vol, att' = [att EXCEPT ![n] = "idle"], UNCHANGED callVars PROVE Good(n)
    <3>1. UNCHANGED Unlisted /\ UNCHANGED <<acl, auth, asked, attached>>
      BY <1>6, <2>2, Zenon DEF Interrupt, callVars, Unlisted
    <3>. QED  BY <2>2, <3>1, AttachDies, Zenon
  <2>. QED  BY <1>6, <2>1, <2>2, Zenon DEF Interrupt
<1>7. Vol \subseteq Obj /\ Snap \subseteq Obj
  BY Zenon DEF Obj
<1>. QED  BY <1>1, <1>2, <1>3, <1>4, <1>5, <1>6, <1>7, Zenon DEF Next

\* A restart of the plugin ends every handler, and takes or gives back the configuration.
LEMMA RestartGood ==
    ASSUME KeepsBase, VolumesInv, DropInstance \/ RestoreInstance
    PROVE  VolumesInv' /\ UNCHANGED Service!vars
<1>0. VolumeTypes /\ Found /\ plan \in Plans
  BY Zenon DEF VolumesInv, VolumeTypes
<1>1. UNCHANGED <<lv, lio, acl, auth, asked, attached, snapOf, cap, plan>>
  BY Zenon DEF DropInstance, RestoreInstance, access
<1>2. UNCHANGED <<wanted, acked, delWanted, gone>>
  BY Zenon DEF DropInstance, RestoreInstance, callVars
<1>3. ASSUME NEW n \in Obj PROVE WholeVolume(n)' /\ Made(n)' = Made(n)
  <2>1. WholeVolume(n) /\ FullExport' = FullExport
    BY <1>1, PlanKept, Zenon DEF VolumesInv
  <2>2. CASE RestoreInstance
    <3>1. ctl' = ctl /\ att' = att /\ Behind(ctl[n])' = Behind(ctl[n])
      BY <1>1, <2>2, PlanKept, Zenon DEF RestoreInstance, callVars, access, Behind
    <3>2. Asked(n)' /\ (n \in Vol => VolumeMade(n)')
      BY <1>1, <1>2, <2>1, <3>1, Zenon DEF WholeVolume, Asked, VolumeMade, Complete
    <3>3. n \in Vol => Exported(n)'
      BY <1>1, <1>2, <2>1, <3>1, Zenon DEF WholeVolume, Exported
    <3>4. n \in Vol => OnList(n)'
      BY <1>1, <1>2, <2>1, <3>1, Zenon DEF WholeVolume, OnList
    <3>5. n \in Snap => SnapshotMade(n)'
      BY <1>1, <1>2, <2>1, <3>1, Zenon DEF WholeVolume, SnapshotMade
    <3>6. Made(n)' = Made(n)
      BY <1>1, <2>1, Zenon DEF Made
    <3>. QED  BY <3>2, <3>3, <3>4, <3>5, <3>6, Zenon DEF WholeVolume
  <2>3. CASE DropInstance
    <3>1. ctl'[n] = "idle" /\ (n \in Vol => att'[n] = "idle")
      BY <2>3, Zenon DEF DropInstance
    <3>2. Asked(n)'
      BY <1>1, <1>2, <2>1, <3>1, Zenon DEF WholeVolume, Asked, Making, Deleting, Growing, Piece
    <3>3. n \in Vol => VolumeMade(n)'
      BY <1>1, <1>2, <2>1, <3>1, Zenon DEF WholeVolume, VolumeMade, Complete, Remote, Local, Piece
    <3>4. n \in Vol => Exported(n)'
      BY <1>1, <1>2, <2>1, <3>1, Zenon DEF WholeVolume, Exported, Piece
    <3>5. n \in Vol => OnList(n)'
      BY <1>1, <1>2, <2>1, <3>1, Zenon DEF WholeVolume, OnList
    <3>6. n \in Snap => SnapshotMade(n)'
      BY <1>1, <1>2, <2>1, <3>1, Zenon DEF WholeVolume, SnapshotMade
    <3>7. Made(n)' = Made(n)
      BY <1>1, <2>1, Zenon DEF Made
    <3>. QED  BY <3>2, <3>3, <3>4, <3>5, <3>6, <3>7, Zenon DEF WholeVolume
  <2>. QED  BY <2>2, <2>3, Zenon
<1>4. On(Obj, ctl)' /\ On(Vol, att)'
  BY <1>0, Zenon DEF DropInstance, RestoreInstance, callVars, access, VolumeTypes, On
<1>5. outages' \in Nat /\ (DropInstance => plan.outages # 0)
  <2>1. outages \in Nat /\ plan.outages \in Nat
    BY <1>0, Instance, Zenon DEF VolumeTypes
  <2>2. CASE DropInstance
    <3>1. outages < plan.outages /\ outages' = outages + 1
      BY <2>2, Zenon DEF DropInstance
    <3>. QED  BY <2>1, <3>1
  <2>3. CASE RestoreInstance
    <3>1. outages' = outages /\ config' # config
      BY <2>3, Zenon DEF RestoreInstance
    <3>2. ~ DropInstance
      BY <2>3, Zenon DEF DropInstance, RestoreInstance
    <3>. QED  BY <2>1, <3>1, <3>2, Zenon
  <2>. QED  BY <2>2, <2>3, Zenon
<1>6. Found'
  <2>1. plan.targetd \/ plan.defaultBase \/ plan.outages = 0
    BY <1>0, Zenon DEF KeepsBase
  <2>2. RestoreInstance => config'
    BY Zenon DEF RestoreInstance
  <2>. QED  BY <1>1, <1>5, <2>1, <2>2, Zenon DEF Found, RightIQN
<1>7. VolumeTypes'
  BY <1>0, <1>1, <1>2, <1>4, <1>5, Zenon DEF VolumeTypes, On
<1>8. UNCHANGED Service!vars
  BY <1>2, <1>3, Zenon DEF Service!vars
<1>. QED  BY <1>3, <1>6, <1>7, <1>8, Zenon DEF VolumesInv

\* VolumesInv is inductive, and every step is one of the service or invisible to it.
LEMMA VolumesStart == Init => VolumesInv /\ Service!Init
<1>. SUFFICES ASSUME Init PROVE VolumesInv /\ Service!Init
  OBVIOUS
<1>1. /\ plan \in Plans /\ lv = [n \in Obj |-> None] /\ lio = [v \in Vol |-> {}]
      /\ acl = {} /\ auth = {} /\ asked = {} /\ attached = {} /\ att = [v \in Vol |-> "idle"]
      /\ snapOf = [s \in Snap |-> None] /\ cap = [v \in Vol |-> 0] /\ ctl = [o \in Obj |-> "idle"]
      /\ wanted = {} /\ acked = {} /\ delWanted = {} /\ gone = {}
      /\ config = TRUE /\ outages = 0
  BY Zenon DEF Init, Calls!Init
<1>2. 0 \in Nat
  OBVIOUS
<1>3. cap \in [Vol -> Nat]
  BY <1>1, <1>2, Zenon
<1>4. On(Obj, lv) /\ On(Vol, lio) /\ On(Obj, ctl) /\ On(Vol, att) /\ On(Snap, snapOf)
  BY <1>1, Zenon DEF On
<1>5. VolumeTypes
  BY <1>1, <1>2, <1>3, <1>4, Zenon DEF VolumeTypes
<1>6. Found
  BY <1>1, Zenon DEF Found, RightIQN
<1>7. ASSUME NEW n \in Obj PROVE WholeVolume(n)
  <2>1. lv[n] = None /\ ctl[n] = "idle" /\ (n \in Vol => lio[n] = {} /\ att[n] = "idle")
    BY <1>1, Zenon
  <2>2. Asked(n)
    BY <1>1, <2>1, Zenon DEF Asked, Making, Deleting, Growing, Piece
  <2>3. VolumeMade(n)
    BY <1>1, <2>1, Zenon DEF VolumeMade, Remote, Local, Piece
  <2>4. SnapshotMade(n)
    BY <1>1, <2>1, Zenon DEF SnapshotMade
  <2>5. n \in Vol => Exported(n) /\ OnList(n)
    BY <1>1, <2>1, Zenon DEF Exported, OnList, Piece
  <2>. QED  BY <2>2, <2>3, <2>4, <2>5, Zenon DEF WholeVolume
<1>8. \A n \in Obj : Made(n) = "absent"
  BY <1>1, Zenon DEF Made
<1>9. Service!Init
  BY <1>1, <1>8, Zenon DEF Service!Init
<1>. QED  BY <1>5, <1>6, <1>7, <1>9, Zenon DEF VolumesInv

LEMMA VolumesStep ==
    ASSUME KeepsBase, VolumesInv, [Next]_vars
    PROVE  VolumesInv' /\ ServesStep
<1>1. CASE DropInstance \/ RestoreInstance
  BY <1>1, RestartGood, Zenon DEF ServesStep
<1>2. CASE Next /\ ~ DropInstance /\ ~ RestoreInstance
  BY <1>2, NextGood, OneStep, Zenon
<1>3. CASE UNCHANGED vars
  <2>1. /\ UNCHANGED <<plan, lv, lio, acl, auth, att, asked, attached, snapOf, cap>>
        /\ UNCHANGED <<ctl, wanted, acked, delWanted, gone, config, outages>>
    BY <1>3, Zenon DEF vars, access, callVars, env
  <2>2. VolumeTypes' /\ Found'
    BY <2>1, Zenon DEF VolumesInv, VolumeTypes, On, Found, RightIQN
  <2>3. FullExport' = FullExport /\ \A c : Behind(c)' = Behind(c)
    BY <2>1, PlanKept, Zenon
  <2>4. ASSUME NEW n \in Obj PROVE WholeVolume(n)'
    <3>1. WholeVolume(n) /\ Behind(ctl[n])' = Behind(ctl[n])
      BY <2>1, <2>3, Zenon DEF VolumesInv, Behind
    <3>2. Asked(n)' /\ (n \in Vol => VolumeMade(n)')
      BY <2>1, <3>1, Zenon DEF WholeVolume, Asked, VolumeMade, Complete
    <3>3. n \in Vol => Exported(n)' /\ OnList(n)'
      BY <2>1, <2>3, <3>1, Zenon DEF WholeVolume, Exported, OnList
    <3>4. n \in Snap => SnapshotMade(n)'
      BY <2>1, <3>1, Zenon DEF WholeVolume, SnapshotMade
    <3>. QED  BY <3>2, <3>3, <3>4, Zenon DEF WholeVolume
  <2>5. \A n \in Obj : Made(n)' = Made(n)
    BY <2>1, <2>3, Zenon DEF Made
  <2>6. UNCHANGED Service!vars
    BY <2>1, <2>5, Zenon DEF Service!vars
  <2>. QED  BY <2>2, <2>4, <2>6, Zenon DEF VolumesInv, ServesStep
<1>. QED  BY <1>1, <1>2, <1>3, Zenon

\* CreateVolume, DeleteVolume, CreateSnapshot, DeleteSnapshot and ExpandVolume of
\* iscsiplugin.go and targetd.go keep what a CSI caller may rely on, for any volumes,
\* sources, sizes, pools and faults, under either management, and through any restarts
\* without the instance.
THEOREM IscsiServes == ASSUME KeepsBase PROVE Spec => Served
<1>1. VolumesInv /\ [Next]_vars => VolumesInv' /\ [Service!Next]_(Service!vars)
  BY VolumesStep, Zenon DEF ServesStep
<1>. QED  BY <1>1, VolumesStart, PTL DEF Spec, Served, Service!Spec

\* ControllerPublish and ControllerUnpublish: a volume the attacher was told is attached is
\* whole, on the access list and has its credentials, and the list holds no volume whose
\* detach was granted.
THEOREM IscsiAccessFollows == ASSUME KeepsBase PROVE Spec => []AccessFollowsAttach
<1>1. ASSUME VolumesInv PROVE AccessFollowsAttach
  <2>1. ASSUME NEW v \in Vol PROVE WholeVolume(v) /\ OnList(v) /\ VolumeMade(v) /\ Exported(v)
    BY <1>1, Kinds, Zenon DEF VolumesInv, WholeVolume
  <2>2. ASSUME NEW v \in attached
        PROVE  v \in acl /\ (plan.chap => v \in auth) /\ Made(v) = "ready"
    <3>1. v \in Vol
      BY <1>1, Zenon DEF VolumesInv, VolumeTypes
    <3>2. v \in acl /\ (plan.chap => v \in auth) /\ v \in acked \ delWanted
      BY <2>1, <3>1, Zenon DEF OnList
    <3>3. Made(v) = "ready"
      BY <2>1, <3>1, <3>2, HeldReady, Zenon
    <3>. QED  BY <3>2, <3>3, Zenon
  <2>3. acl \subseteq asked
    <3>1. acl \subseteq Vol
      BY <1>1, Zenon DEF VolumesInv, VolumeTypes
    <3>. QED  BY <2>1, <3>1, Zenon DEF OnList
  <2>. QED  BY <2>2, <2>3, Zenon DEF AccessFollowsAttach
<1>2. VolumesInv => AccessFollowsAttach
  BY <1>1, Zenon
<1>3. VolumesInv /\ [Next]_vars => VolumesInv'
  BY VolumesStep, Zenon
<1>. QED  BY <1>2, <1>3, VolumesStart, PTL DEF Spec

-----------------------------------------------------------------------------
(* The attach plane: grantAccess and the LUNs of a target *)

ArrayTypes ==
    /\ setup \in Setups
    /\ exports \in [Disk -> Lun \cup {Nil}]
    /\ attach \in [Disk -> {"idle", "create"}]
    /\ listed \in [Disk -> SUBSET (Lun \cup {Nil})]

\* What a grant listed under tdAccessMu is still the case when it creates.
Listing ==
    \A v \in Disk : attach[v] = "create" =>
        accessMu = v /\ exports[v] = Nil /\ listed[v] = InUse(v)

LunInv == ArrayTypes /\ Listing /\ LunsUnique


-----------------------------------------------------------------------------
(* The node plane: the invariant of the sessions *)

\* Steps of a handler under the target's lock, with one portal; steps of the
\* multipath handlers.
Locked == {"rescan", "login", "wait", "detach", "logout", "clear"}
Single == Locked \cup {"lock", "ulock"}
Multiple == {"mlogin", "mapper", "mflush", "mlogout", "mclear"}
Label == Single \cup Multiple \cup {"idle", "record", "mount"}

HostTypes ==
    /\ setup \in Setups
    /\ record \in [Disk -> Lun \cup {Nil}]
    /\ session \subseteq Tgt \X Portal
    /\ lock \in [Tgt -> Disk \cup {Nil}]
    /\ pc \in [Disk -> Label]
    /\ leg \in [Disk -> Nat] /\ DOMAIN maps = Disk
    /\ touched \subseteq Disk

\* Which handlers an instance runs depends on its portals; the flock is held by
\* the handler that works under it; every handler's volume is still to be
\* unstaged, and so is one with a record.
Handlers ==
    /\ \A v \in Disk : /\ pc[v] \in Single => setup.portals = 1
                       /\ pc[v] \in Multiple => setup.portals # 1
                       /\ pc[v] \in Locked => lock[Target[v]] = v
                       /\ pc[v] # "idle" => v \in touched
                       /\ record[v] # Nil => v \in touched
    /\ setup.portals = 1 => map = {}

\* Another volume of the target has a record.
Counted(v) == \E w \in Disk \ {v} : record[w] # Nil /\ Target[w] = Target[v]

\* A handler detaches rather than logs out because another record is there; one
\* that has flushed maps has flushed that of its record.
Unstaging ==
    \A v \in Disk : /\ pc[v] = "detach" => Counted(v)
                    /\ (pc[v] \in {"mlogout", "mclear"} /\ record[v] # Nil) => v \in maps[v]

Legs ==
    \A v \in Disk : /\ leg[v] < setup.portals
                    /\ pc[v] \notin {"mlogin", "mlogout"} => leg[v] = 0

\* The handler of v has logged out of the session, which it does but once.
Past(v, s) ==
    \/ pc[v] \in {"clear", "mclear"}
    \/ pc[v] = "mlogout" /\ s[2] <= leg[v]

\* While the instance is configured, every session has a volume that will still
\* log out of it, or that another volume's unstage will count.
Held ==
    configured => \A s \in session : \E v \in touched : Target[v] = s[1] /\ ~ Past(v, s)

SessionInv == HostTypes /\ Handlers /\ Unstaging /\ Legs /\ Held

LEMMA PlanShape ==
    ASSUME setup \in Setups
    PROVE  /\ Target \in [Disk -> Tgt]
           /\ setup.portals \in Nat \ {0}
BY Shape, Zenon DEF Target

LEMMA SessionStart == NodeInit => SessionInv
<1>. SUFFICES ASSUME NodeInit PROVE SessionInv
  OBVIOUS
<1>1. HostTypes
  BY Zenon DEF NodeInit, HostTypes, Label
<1>2. \A v \in Disk : pc[v] = "idle" /\ leg[v] = 0 /\ record[v] = Nil
  BY Zenon DEF NodeInit
<1>3. setup \in Setups /\ session = {} /\ map = {}
  BY Zenon DEF NodeInit
<1>4. Handlers /\ Unstaging
  BY <1>2, <1>3, Zenon DEF Handlers, Unstaging, Single, Multiple, Locked
<1>5. Legs
  BY <1>2, <1>3, PlanShape DEF Legs
<1>. QED  BY <1>1, <1>3, <1>4, <1>5, Zenon DEF SessionInv, Held

\* A step of the attach plane, of the kernel, of multipathd or of a drain.
LEMMA HostStays ==
    ASSUME SessionInv, setup.portals = 1 => map' = map,
           UNCHANGED <<setup, configured, session, record, lock, pc, leg, maps, touched>>
    PROVE  SessionInv'
BY ZenonT(30) DEF SessionInv, HostTypes, Handlers, Unstaging, Legs, Held, Past, Target, Portal, Counted

\* What a step of v's handler that takes it to label l does, unless it ends an
\* unstage: it adds sessions only of its own target, and only while it has not
\* logged out of them.
Advance(v, l) ==
    /\ UNCHANGED <<setup, configured>>
    /\ l \in Label /\ pc' = [pc EXCEPT ![v] = l]
    /\ l \in Single => setup.portals = 1
    /\ l \in Multiple => setup.portals # 1
    /\ lock' \in [Tgt -> Disk \cup {Nil}]
    /\ l \in Locked => lock'[Target[v]] = v
    /\ \A w \in Disk \ {v} : pc[w] \in Locked => lock'[Target[w]] = lock[Target[w]]
    /\ touched' \in {touched, touched \cup {v}} /\ (l # "idle" => v \in touched')
    /\ \/ record' = record
       \/ v \in touched /\ \E k \in Lun : record' = [record EXCEPT ![v] = k]
    /\ setup.portals = 1 => map' = {}
    /\ l = "detach" => Counted(v)
    /\ DOMAIN maps' = Disk /\ \A w \in Disk \ {v} : maps'[w] = maps[w]
    /\ (l \in {"mlogout", "mclear"} /\ record'[v] # Nil) => v \in maps'[v]
    /\ leg' \in [Disk -> Nat] /\ \A w \in Disk \ {v} : leg'[w] = leg[w]
    /\ leg'[v] < setup.portals /\ (l \notin {"mlogin", "mlogout"} => leg'[v] = 0)
    /\ session' \subseteq Tgt \X Portal
    /\ \A s \in session' :
          \/ s \in session /\ (s[1] # Target[v] \/ ~ Past(v, s)' \/ Past(v, s))
          \/ s[1] = Target[v] /\ v \in touched' /\ ~ Past(v, s)'

LEMMA Advances ==
    ASSUME SessionInv, NEW v \in Disk, NEW l, Advance(v, l)
    PROVE  SessionInv'
<1>. USE DEF SessionInv
<1>1. /\ pc'[v] = l /\ \A w \in Disk \ {v} : pc'[w] = pc[w]
      /\ Target' = Target /\ Portal' = Portal
  BY Zenon DEF Advance, HostTypes, Target, Portal
<1>2. record' \in [Disk -> Lun \cup {Nil}] /\ \A w \in Disk \ {v} : record'[w] = record[w]
  BY DEF Advance, HostTypes
<1>3. \A w \in Disk : record[w] # Nil => record'[w] # Nil
  BY Shape DEF Advance, HostTypes
<1>4. touched \subseteq touched' /\ touched' \subseteq Disk
  BY Zenon DEF Advance, HostTypes
<1>5. HostTypes'
  <2>1. pc' \in [Disk -> Label]
    BY Zenon DEF Advance, HostTypes
  <2>. QED  BY <1>1, <1>2, <1>4, <2>1, Zenon DEF Advance, HostTypes
<1>6. Handlers'
  <2>1. \A w \in Disk : record'[w] # Nil => w \in touched'
    BY <1>2, <1>4, Zenon DEF Advance, Handlers
  <2>2. \A w \in Disk : pc'[w] # "idle" => w \in touched'
    BY <1>1, <1>4, ZenonT(30) DEF Advance, Handlers
  <2>3. \A w \in Disk : pc'[w] \in Locked => lock'[Target[w]] = w
    BY <1>1 DEF Advance, Handlers
  <2>4. \A w \in Disk : /\ pc'[w] \in Single => setup.portals = 1
                        /\ pc'[w] \in Multiple => setup.portals # 1
    BY <1>1 DEF Advance, Handlers
  <2>. QED  BY <1>1, <2>1, <2>2, <2>3, <2>4, Zenon DEF Advance, Handlers
<1>7. Unstaging'
  <2>1. \A w \in Disk : Counted(w) => Counted(w)'
    BY <1>1, <1>3, Zenon DEF Counted
  <2>2. \A w \in Disk : pc'[w] = "detach" => Counted(w)
    BY <1>1, Zenon DEF Advance, Unstaging
  <2>3. \A w \in Disk : (pc'[w] \in {"mlogout", "mclear"} /\ record'[w] # Nil)
                         => w \in maps'[w]
    BY <1>1, <1>2 DEF Advance, Unstaging
  <2>. QED  BY <2>1, <2>2, <2>3, Zenon DEF Unstaging
<1>8. Legs'
  BY <1>1, Zenon DEF Advance, Legs
<1>9. Held'
  <2>1. \A w \in Disk \ {v} : \A s : Past(w, s)' <=> Past(w, s)
    BY <1>1, Zenon DEF Advance, Past
  <2>2. ASSUME configured, NEW s \in session' PROVE \E w \in touched' : Target[w] = s[1] /\ ~ Past(w, s)'
    <3>1. CASE s \in session /\ (s[1] # Target[v] \/ ~ Past(v, s)' \/ Past(v, s))
      <4>1. PICK w \in touched : Target[w] = s[1] /\ ~ Past(w, s)
        BY <2>2, <3>1, Zenon DEF Held
      <4>2. w \in Disk /\ w \in touched'
        BY <1>4, Zenon DEF HostTypes
      <4>. QED  BY <2>1, <3>1, <4>1, <4>2, Zenon
    <3>2. CASE s[1] = Target[v] /\ v \in touched' /\ ~ Past(v, s)'
      BY <3>2, Zenon
    <3>. QED  BY <2>2, <3>1, <3>2, Zenon DEF Advance
  <2>. QED  BY <1>1, <2>2, Zenon DEF Held, Advance
<1>. QED  BY <1>5, <1>6, <1>7, <1>8, <1>9, Zenon

\* A volume the node has touched is attached, and one that is attached is exported.
Granted ==
    \A v \in Disk : /\ v \in placed => exports[v] # Nil
                    /\ v \in touched => v \in placed

TargetInv == LunInv /\ Granted /\ SessionInv

\* What a label must fulfil for a handler to go there, logouts aside.
Fits(v, l) ==
    /\ l \in Label \ {"mlogout", "clear", "mclear"}
    /\ l \in Single => setup.portals = 1
    /\ l \in Multiple => setup.portals # 1
    /\ l \in Locked => lock'[Target[v]] = v
    /\ l # "idle" => v \in touched'
    /\ l = "detach" => Counted(v)

\* The handler takes the flock, releases it, or leaves it.
LockStep(v) ==
    \/ lock[Target[v]] = Nil /\ lock' = [lock EXCEPT ![Target[v]] = v]
    \/ pc[v] \in Locked /\ Unlock(v)
    \/ lock' = lock

LEMMA Locking ==
    ASSUME SessionInv, NEW v \in Disk, LockStep(v)
    PROVE  /\ lock' \in [Tgt -> Disk \cup {Nil}]
           /\ \A w \in Disk \ {v} : pc[w] \in Locked => lock'[Target[w]] = lock[Target[w]]
<1>1. Target \in [Disk -> Tgt] /\ lock \in [Tgt -> Disk \cup {Nil}]
  BY PlanShape, Zenon DEF SessionInv, HostTypes
<1>2. \A w \in Disk : pc[w] \in Locked => lock[Target[w]] = w
  BY Zenon DEF SessionInv, Handlers
<1>. QED  BY <1>1, <1>2, Shape DEF Unlock, LockStep

\* A step of v's handler that neither logs in or out, nor records, nor flushes.
LEMMA Quiet ==
    ASSUME SessionInv, NEW v \in Disk, NEW l, Fits(v, l), LockStep(v),
           pc' = [pc EXCEPT ![v] = l],
           UNCHANGED <<setup, configured, session, map, record, maps, leg>>,
           touched' \in {touched, touched \cup {v}}, leg[v] = 0
    PROVE  Advance(v, l)
<1>1. pc'[v] = l
  BY Zenon DEF SessionInv, HostTypes
<1>2. \A s : ~ Past(v, s)'
  BY <1>1, Zenon DEF Past, Fits
<1>3. leg[v] < setup.portals /\ (setup.portals = 1 => map = {})
  BY Zenon DEF SessionInv, Legs, Handlers
<1>. QED  BY <1>2, <1>3, Locking, Zenon DEF Advance, SessionInv, HostTypes, Fits

LEMMA StageQuiet ==
    ASSUME SessionInv, NEW v \in Disk,
           \/ StageCall(v) \/ StageLock(v) \/ StageRescan(v) \/ StageWait(v)
           \/ StageMount(v) \/ MultiMapper(v) \/ UnstageCall(v) \/ UnstageLock(v)
    PROVE  \E l : Advance(v, l)
<1>0. /\ setup.portals \in Nat \ {0} /\ Target[v] \in Tgt
      /\ lock \in [Tgt -> Disk \cup {Nil}]
  BY PlanShape, Zenon DEF SessionInv, HostTypes
<1>1. CASE StageCall(v)
  <2>. DEFINE l == IF ~ configured THEN "idle"
                   ELSE IF setup.portals > 1 THEN "mlogin" ELSE "lock"
  <2>1. /\ pc[v] = "idle" /\ pc' = [pc EXCEPT ![v] = l] /\ lock' = lock
        /\ UNCHANGED <<setup, configured, session, map, record, maps, leg>>
        /\ touched' = touched \cup {v}
    BY <1>1, Zenon DEF StageCall, Goto, host, scsi, multi, ends
  <2>2. leg[v] = 0 /\ v \in touched'
    BY <2>1, Zenon DEF SessionInv, Legs, Handlers
  <2>3. LockStep(v)
    BY <2>1, Zenon DEF LockStep
  <2>4. Fits(v, l)
    BY <1>0, <2>1, <2>2 DEF Fits, SessionInv, Handlers, Label, Single, Multiple, Locked
  <2>. HIDE DEF l
  <2>. QED  BY <2>1, <2>2, <2>3, <2>4, Quiet, Zenon
<1>2. CASE StageLock(v)
  <2>. DEFINE l == IF Records(Target[v]) # {} THEN "rescan" ELSE "login"
  <2>1. /\ pc[v] = "lock" /\ pc' = [pc EXCEPT ![v] = l] /\ lock[Target[v]] = Nil
        /\ lock' = [lock EXCEPT ![Target[v]] = v]
        /\ UNCHANGED <<setup, configured, session, map, record, maps, leg>>
        /\ touched' = touched
    BY <1>2, Zenon DEF StageLock, Goto, host, scsi, multi, ends
  <2>2. leg[v] = 0 /\ v \in touched'
    BY <2>1, Zenon DEF SessionInv, Legs, Handlers
  <2>3. LockStep(v)
    BY <2>1, Zenon DEF LockStep
  <2>4. Fits(v, l)
    BY <1>0, <2>1, <2>2, Zenon DEF Fits, SessionInv, Handlers, Label, Single, Multiple, Locked
  <2>. HIDE DEF l
  <2>. QED  BY <2>1, <2>2, <2>3, <2>4, Quiet, Zenon
<1>3. CASE StageRescan(v)
  <2>. DEFINE l == "wait"
  <2>1. /\ pc[v] = "rescan" /\ pc' = [pc EXCEPT ![v] = l] /\ lock' = lock
        /\ UNCHANGED <<setup, configured, session, map, record, maps, leg>>
        /\ touched' = touched
    BY <1>3, Zenon DEF StageRescan, Goto, host, scsi, multi, ends
  <2>2. leg[v] = 0 /\ v \in touched'
    BY <2>1, Zenon DEF SessionInv, Legs, Handlers
  <2>3. LockStep(v)
    BY <2>1, Zenon DEF LockStep
  <2>4. Fits(v, l)
    BY <2>1, <2>2, Zenon DEF Fits, SessionInv, Handlers, Label, Single, Multiple, Locked
  <2>. HIDE DEF l
  <2>. QED  BY <2>1, <2>2, <2>3, <2>4, Quiet, Zenon
<1>4. CASE StageWait(v)
  <2>. DEFINE l == IF Absent(v, exports[v]) THEN "idle" ELSE "record"
  <2>1. /\ pc[v] = "wait" /\ pc' = [pc EXCEPT ![v] = l] /\ Unlock(v)
        /\ UNCHANGED <<setup, configured, session, map, record, maps, leg>>
        /\ touched' = touched
    BY <1>4, Zenon DEF StageWait, Goto, host, scsi, multi, ends
  <2>2. leg[v] = 0 /\ v \in touched'
    BY <2>1, Zenon DEF SessionInv, Legs, Handlers
  <2>3. LockStep(v)
    BY <2>1, Zenon DEF LockStep, Locked
  <2>4. Fits(v, l)
    BY <2>1, <2>2, Zenon DEF Fits, SessionInv, Handlers, Label, Single, Multiple, Locked
  <2>. HIDE DEF l
  <2>. QED  BY <2>1, <2>2, <2>3, <2>4, Quiet, Zenon
<1>5. CASE StageMount(v)
  <2>. DEFINE l == "idle"
  <2>1. /\ pc[v] = "mount" /\ pc' = [pc EXCEPT ![v] = l] /\ lock' = lock
        /\ UNCHANGED <<setup, configured, session, map, record, maps, leg>>
        /\ touched' = touched
    BY <1>5, Zenon DEF StageMount, Goto, host, scsi, multi, ends
  <2>2. leg[v] = 0 /\ v \in touched'
    BY <2>1, Zenon DEF SessionInv, Legs, Handlers
  <2>3. LockStep(v)
    BY <2>1, Zenon DEF LockStep
  <2>4. Fits(v, l)
    BY <2>1, <2>2, Zenon DEF Fits, SessionInv, Handlers, Label, Single, Multiple, Locked
  <2>. HIDE DEF l
  <2>. QED  BY <2>1, <2>2, <2>3, <2>4, Quiet, Zenon
<1>6. CASE MultiMapper(v)
  <2>. DEFINE l == IF v \in map THEN "record" ELSE "idle"
  <2>1. /\ pc[v] = "mapper" /\ pc' = [pc EXCEPT ![v] = l] /\ lock' = lock
        /\ UNCHANGED <<setup, configured, session, map, record, maps, leg>>
        /\ touched' = touched
    BY <1>6, Zenon DEF MultiMapper, Goto, host, scsi, multi, ends
  <2>2. leg[v] = 0 /\ v \in touched'
    BY <2>1, Zenon DEF SessionInv, Legs, Handlers
  <2>3. LockStep(v)
    BY <2>1, Zenon DEF LockStep
  <2>4. Fits(v, l)
    BY <2>1, <2>2, Zenon DEF Fits, SessionInv, Handlers, Label, Single, Multiple, Locked
  <2>. HIDE DEF l
  <2>. QED  BY <2>1, <2>2, <2>3, <2>4, Quiet, Zenon
<1>7. CASE UnstageCall(v)
  <2>. DEFINE l == IF setup.portals > 1 THEN "mflush" ELSE "ulock"
  <2>1. /\ pc[v] = "idle" /\ pc' = [pc EXCEPT ![v] = l] /\ lock' = lock
        /\ UNCHANGED <<setup, configured, session, map, record, maps, leg>>
        /\ touched' = touched /\ v \in touched
    BY <1>7, Zenon DEF UnstageCall, Goto, host, scsi, multi, ends
  <2>2. leg[v] = 0 /\ v \in touched'
    BY <2>1, Zenon DEF SessionInv, Legs, Handlers
  <2>3. LockStep(v)
    BY <2>1, Zenon DEF LockStep
  <2>4. Fits(v, l)
    BY <1>0, <2>1, <2>2 DEF Fits, SessionInv, Handlers, Label, Single, Multiple, Locked
  <2>. HIDE DEF l
  <2>. QED  BY <2>1, <2>2, <2>3, <2>4, Quiet, Zenon
<1>8. CASE UnstageLock(v)
  <2>. DEFINE l == IF Records(Target[v]) \ {v} # {} THEN "detach" ELSE "logout"
  <2>1. /\ pc[v] = "ulock" /\ pc' = [pc EXCEPT ![v] = l] /\ lock[Target[v]] = Nil
        /\ lock' = [lock EXCEPT ![Target[v]] = v]
        /\ UNCHANGED <<setup, configured, session, map, record, maps, leg>>
        /\ touched' = touched
    BY <1>8, Zenon DEF UnstageLock, Goto, host, scsi, multi, ends
  <2>2. leg[v] = 0 /\ v \in touched'
    BY <2>1, Zenon DEF SessionInv, Legs, Handlers
  <2>3. LockStep(v)
    BY <2>1, Zenon DEF LockStep
  <2>4. Fits(v, l)
    BY <1>0, <2>1, <2>2, Zenon
    DEF Fits, SessionInv, Handlers, Label, Single, Multiple, Locked, Records, Counted
  <2>. HIDE DEF l
  <2>. QED  BY <2>1, <2>2, <2>3, <2>4, Quiet, Zenon
<1>. QED  BY <1>1, <1>2, <1>3, <1>4, <1>5, <1>6, <1>7, <1>8, Zenon

\* recordState and the logins, which add to the record and the sessions of a
\* volume that is touched.
LEMMA StageLogs ==
    ASSUME TargetInv, NEW v \in Disk,
           StageRecord(v) \/ StageLogin(v) \/ MultiLogin(v)
    PROVE  \E l : Advance(v, l)
<1>0. /\ setup.portals \in Nat \ {0} /\ Target[v] \in Tgt /\ leg[v] \in Nat
      /\ leg[v] < setup.portals /\ session \subseteq Tgt \X Portal
      /\ (setup.portals = 1 => map = {})
  BY PlanShape, Zenon DEF TargetInv, SessionInv, HostTypes, Legs, Handlers
<1>1. CASE StageRecord(v)
  <2>1. /\ pc[v] = "record" /\ pc' = [pc EXCEPT ![v] = "mount"] /\ lock' = lock
        /\ UNCHANGED <<setup, configured, session, map, maps, leg, touched>>
        /\ record' = [record EXCEPT ![v] = exports[v]]
    BY <1>1, Zenon DEF StageRecord, Goto, host, scsi, multi, ends
  <2>2. leg[v] = 0 /\ v \in touched
    BY <2>1, Zenon DEF TargetInv, SessionInv, Legs, Handlers
  <2>3. exports[v] \in Lun
    BY <2>2, Zenon DEF TargetInv, Granted, LunInv, ArrayTypes
  <2>4. pc'[v] = "mount"
    BY <2>1, Zenon DEF TargetInv, SessionInv, HostTypes
  <2>5. \A s : ~ Past(v, s)'
    BY <2>4, Zenon DEF Past
  <2>6. v \in touched /\ \E k \in Lun : record' = [record EXCEPT ![v] = k]
    BY <2>1, <2>2, <2>3, Zenon
  <2>7. "mount" \in Label /\ "mount" \notin Single \cup Multiple \cup Locked
    BY Zenon DEF Label, Single, Multiple, Locked
  <2>8. /\ UNCHANGED <<setup, configured, session, lock, maps, leg, touched>>
        /\ pc' = [pc EXCEPT ![v] = "mount"] /\ leg'[v] < setup.portals /\ leg'[v] = 0
        /\ setup.portals = 1 => map' = {}
    BY <1>0, <2>1, <2>2, Zenon
  <2>9. Advance(v, "mount")
    BY <2>5, <2>6, <2>7, <2>8, Zenon DEF Advance, TargetInv, SessionInv, HostTypes
  <2>. QED  BY <2>9, Zenon
<1>2. CASE StageLogin(v)
  <2>1. /\ pc[v] = "login" /\ pc' = [pc EXCEPT ![v] = "wait"] /\ lock' = lock
        /\ UNCHANGED <<setup, configured, map, maps, leg, record, touched>>
        /\ session' = session \cup Sessions(v)
    BY <1>2, Zenon DEF StageLogin, Goto, multi, ends
  <2>2. leg[v] = 0 /\ v \in touched /\ setup.portals = 1 /\ lock[Target[v]] = v
    BY <2>1, Zenon DEF TargetInv, SessionInv, Legs, Handlers, Single, Locked
  <2>4. pc'[v] = "wait"
    BY <2>1, Zenon DEF TargetInv, SessionInv, HostTypes
  <2>5. \A s : ~ Past(v, s)'
    BY <2>4, Zenon DEF Past
  <2>6. session' \subseteq Tgt \X Portal
        /\ \A s \in session' : s \in session \/ s[1] = Target[v]
    BY <1>0, <2>1 DEF Sessions
  <2>7. Advance(v, "wait")
    BY <1>0, <2>1, <2>2, <2>5, <2>6, Zenon
    DEF Advance, TargetInv, SessionInv, HostTypes, Label, Single, Multiple, Locked
  <2>. QED  BY <2>7, Zenon
<1>3. CASE MultiLogin(v)
  <2>1. PICK l \in {"idle", "mapper", "mlogin"}, k \in Nat :
            /\ pc[v] = "mlogin" /\ pc' = [pc EXCEPT ![v] = l] /\ lock' = lock
            /\ UNCHANGED <<setup, configured, map, maps, record, touched>>
            /\ session' = session \cup {<<Target[v], leg[v] + 1>>}
            /\ leg' = [leg EXCEPT ![v] = k] /\ k < setup.portals
            /\ l # "mlogin" => k = 0
    <3>1. /\ pc[v] = "mlogin" /\ lock' = lock
          /\ UNCHANGED <<setup, configured, map, maps, record, touched>>
          /\ session' = session \cup {<<Target[v], leg[v] + 1>>}
      BY <1>3, Zenon DEF MultiLogin, ends
    <3>2. \/ pc' = [pc EXCEPT ![v] = "idle"] /\ leg' = [leg EXCEPT ![v] = 0]
          \/ pc' = [pc EXCEPT ![v] = "mapper"] /\ leg' = [leg EXCEPT ![v] = 0]
          \/ /\ leg[v] + 1 # setup.portals
             /\ pc' = pc /\ leg' = [leg EXCEPT ![v] = leg[v] + 1]
      BY <1>3, Zenon DEF MultiLogin, Goto
    <3>3. pc = [pc EXCEPT ![v] = "mlogin"]
      BY <3>1, Zenon DEF TargetInv, SessionInv, HostTypes
    <3>. QED  BY <1>0, <3>1, <3>2, <3>3
  <2>2. v \in touched /\ setup.portals # 1
    BY <2>1, Zenon DEF TargetInv, SessionInv, Handlers, Multiple
  <2>4. pc'[v] = l
    BY <2>1, Zenon DEF TargetInv, SessionInv, HostTypes
  <2>5. \A s : ~ Past(v, s)'
    BY <2>4, Zenon DEF Past
  <2>6. session' \subseteq Tgt \X Portal
        /\ \A s \in session' : s \in session \/ s[1] = Target[v]
    BY <1>0, <2>1 DEF Portal
  <2>7. leg' \in [Disk -> Nat] /\ leg'[v] = k /\ \A w \in Disk \ {v} : leg'[w] = leg[w]
    BY <2>1, Zenon DEF TargetInv, SessionInv, HostTypes
  <2>8. Advance(v, l)
    BY <1>0, <2>1, <2>2, <2>5, <2>6, <2>7, Zenon
    DEF Advance, TargetInv, SessionInv, HostTypes, Label, Single, Multiple, Locked
  <2>. QED  BY <2>8, Zenon
<1>. QED  BY <1>1, <1>2, <1>3, Zenon

\* The flush and the logouts, after which the handler is past the sessions it has
\* left, and an interruption.
LEMMA UnstageLogs ==
    ASSUME SessionInv, NEW v \in Disk,
           \/ MultiFlush(v) \/ NodeInterrupt(v)
           \/ \E slow \in BOOLEAN : UnstageLogout(v, slow) \/ MultiLogout(v, slow)
    PROVE  \E l : Advance(v, l)
<1>0. /\ setup.portals \in Nat \ {0} /\ Target[v] \in Tgt /\ leg[v] \in Nat
      /\ leg[v] < setup.portals /\ session \subseteq Tgt \X Portal
      /\ (setup.portals = 1 => map = {})
  BY PlanShape, Zenon DEF SessionInv, HostTypes, Legs, Handlers
<1>1. CASE MultiFlush(v)
  <2>. DEFINE M == IF record[v] # Nil THEN {v} ELSE DerivedMaps(v)
  <2>1. /\ pc[v] = "mflush" /\ pc' = [pc EXCEPT ![v] = "mlogout"] /\ lock' = lock
        /\ UNCHANGED <<setup, configured, session, record, leg, touched>>
        /\ maps' = [maps EXCEPT ![v] = M]
    BY <1>1, Zenon DEF MultiFlush, Goto, scsi, ends
  <2>2. leg[v] = 0 /\ v \in touched /\ setup.portals # 1
    BY <2>1, Zenon DEF SessionInv, Legs, Handlers, Multiple
  <2>3. /\ DOMAIN maps' = Disk /\ \A w \in Disk \ {v} : maps'[w] = maps[w]
        /\ record[v] # Nil => v \in maps'[v]
    BY <2>1, Zenon DEF SessionInv, HostTypes
  <2>4. pc'[v] = "mlogout" /\ leg'[v] = 0
    BY <2>1, <2>2, Zenon DEF SessionInv, HostTypes
  <2>5. \A s \in session : ~ Past(v, s)'
    BY <1>0, <2>4 DEF Past, Portal
  <2>6. Advance(v, "mlogout")
    BY <1>0, <2>1, <2>2, <2>3, <2>5, Zenon
    DEF Advance, SessionInv, HostTypes, Label, Single, Multiple, Locked
  <2>. QED  BY <2>6, Zenon
<1>2. CASE NodeInterrupt(v)
  <2>1. /\ pc[v] # "idle" /\ pc' = [pc EXCEPT ![v] = "idle"]
        /\ UNCHANGED <<setup, configured, session, map, record, touched>>
        /\ lock' = [t \in Tgt |-> IF lock[t] = v THEN Nil ELSE lock[t]]
        /\ leg' = [leg EXCEPT ![v] = 0] /\ maps' = [maps EXCEPT ![v] = {}]
    BY <1>2, Zenon DEF NodeInterrupt, Goto, host, scsi
  <2>2. lock' \in [Tgt -> Disk \cup {Nil}]
    BY <2>1, Zenon DEF SessionInv, HostTypes
  <2>3. \A w \in Disk \ {v} : pc[w] \in Locked => lock'[Target[w]] = lock[Target[w]]
    <3>1. \A w \in Disk : Target[w] \in Tgt /\ (pc[w] \in Locked => lock[Target[w]] = w)
      BY PlanShape, Zenon DEF SessionInv, HostTypes, Handlers
    <3>. QED  BY <2>1, <3>1, Zenon
  <2>4. /\ DOMAIN maps' = Disk /\ \A w \in Disk \ {v} : maps'[w] = maps[w]
        /\ leg' \in [Disk -> Nat] /\ leg'[v] = 0 /\ \A w \in Disk \ {v} : leg'[w] = leg[w]
        /\ pc'[v] = "idle"
    BY <2>1, Zenon DEF SessionInv, HostTypes
  <2>5. \A s : ~ Past(v, s)'
    BY <2>4, Zenon DEF Past
  <2>6. Advance(v, "idle")
    BY <1>0, <2>1, <2>2, <2>3, <2>4, <2>5
    DEF Advance, Label, Single, Multiple, Locked
  <2>. QED  BY <2>6, Zenon
<1>3. ASSUME NEW slow \in BOOLEAN, UnstageLogout(v, slow) PROVE \E l : Advance(v, l)
  <2>1. /\ pc[v] = "logout" /\ pc' = [pc EXCEPT ![v] = "clear"] /\ lock' = lock
        /\ UNCHANGED <<setup, configured, map, maps, leg, record, touched>>
        /\ session' = session \ Sessions(v)
    BY <1>3, Zenon DEF UnstageLogout, Goto, multi, ends
  <2>2. leg[v] = 0 /\ v \in touched /\ setup.portals = 1 /\ lock[Target[v]] = v
    BY <2>1, Zenon DEF SessionInv, Legs, Handlers, Single, Locked
  <2>3. \A s \in session' : s \in session /\ s[1] # Target[v]
    BY <1>0, <2>1 DEF Sessions
  <2>4. Advance(v, "clear")
    BY <1>0, <2>1, <2>2, <2>3, Zenon
    DEF Advance, SessionInv, HostTypes, Label, Single, Multiple, Locked
  <2>. QED  BY <2>4, Zenon
<1>4. ASSUME NEW slow \in BOOLEAN, MultiLogout(v, slow) PROVE \E l : Advance(v, l)
  <2>1. PICK l \in {"mclear", "mlogout"}, k \in Nat :
            /\ pc[v] = "mlogout" /\ pc' = [pc EXCEPT ![v] = l] /\ lock' = lock
            /\ UNCHANGED <<setup, configured, map, maps, record, touched>>
            /\ session' = session \ {<<Target[v], leg[v] + 1>>}
            /\ leg' = [leg EXCEPT ![v] = k] /\ k < setup.portals
            /\ l = "mclear" => k = 0 /\ leg[v] + 1 = setup.portals
            /\ l = "mlogout" => k = leg[v] + 1
    <3>1. /\ pc[v] = "mlogout" /\ lock' = lock
          /\ UNCHANGED <<setup, configured, map, maps, record, touched>>
          /\ session' = session \ {<<Target[v], leg[v] + 1>>}
      BY <1>4, Zenon DEF MultiLogout, ends
    <3>2. \/ /\ leg[v] + 1 = setup.portals
             /\ pc' = [pc EXCEPT ![v] = "mclear"] /\ leg' = [leg EXCEPT ![v] = 0]
          \/ /\ leg[v] + 1 # setup.portals
             /\ pc' = pc /\ leg' = [leg EXCEPT ![v] = leg[v] + 1]
      BY <1>4, Zenon DEF MultiLogout, Goto
    <3>3. pc = [pc EXCEPT ![v] = "mlogout"]
      BY <3>1, Zenon DEF SessionInv, HostTypes
    <3>. QED  BY <1>0, <3>1, <3>2, <3>3
  <2>2. v \in touched /\ setup.portals # 1 /\ (record[v] # Nil => v \in maps[v])
    BY <2>1, Zenon DEF SessionInv, Handlers, Unstaging, Multiple
  <2>3. /\ leg' \in [Disk -> Nat] /\ leg'[v] = k /\ \A w \in Disk \ {v} : leg'[w] = leg[w]
        /\ pc'[v] = l
    BY <2>1, Zenon DEF SessionInv, HostTypes
  <2>4. \A s \in session' : s \in session /\ (s[1] = Target[v] /\ Past(v, s)' => Past(v, s))
    <3>1. SUFFICES ASSUME NEW s \in session', s[1] = Target[v], Past(v, s)' PROVE Past(v, s)
      BY <2>1, Zenon
    <3>2. s \in Tgt \X Portal /\ s # <<Target[v], leg[v] + 1>>
      BY <1>0, <2>1, Zenon
    <3>3. s[2] \in Nat /\ s[2] <= setup.portals /\ s[2] # leg[v] + 1
      BY <1>0, <3>1, <3>2 DEF Portal
    <3>. QED  BY <1>0, <2>1, <2>3, <3>1, <3>3 DEF Past
  <2>5. Advance(v, l)
    BY <1>0, <2>1, <2>2, <2>3, <2>4, Zenon
    DEF Advance, SessionInv, HostTypes, Label, Single, Multiple, Locked
  <2>. QED  BY <2>5, Zenon
<1>. QED  BY <1>1, <1>2, <1>3, <1>4, Zenon

-----------------------------------------------------------------------------
(* The end of an unstage, and the steps of the whole system *)

\* The end of an unstage that succeeds: a handler that logged out was past every
\* session of its target, and one that detached leaves them to the volume that it
\* counted.
LEMMA Leaves ==
    ASSUME SessionInv, NEW v \in Disk, pc[v] \in {"detach", "clear", "mclear"},
           Unstaged(v), LockStep(v), pc' = [pc EXCEPT ![v] = "idle"],
           UNCHANGED <<setup, configured, session, leg>>, map' \subseteq map,
           maps' \in {maps, [maps EXCEPT ![v] = {}]}
    PROVE  SessionInv'
<1>. USE DEF SessionInv
<1>1. /\ pc'[v] = "idle" /\ \A w \in Disk \ {v} : pc'[w] = pc[w]
      /\ record'[v] = Nil /\ \A w \in Disk \ {v} : record'[w] = record[w]
      /\ touched' = touched \ {v} /\ Target' = Target /\ Portal' = Portal
      /\ DOMAIN maps' = Disk /\ \A w \in Disk \ {v} : maps'[w] = maps[w]
  BY Zenon DEF HostTypes, Unstaged, Target, Portal
<1>2. /\ lock' \in [Tgt -> Disk \cup {Nil}]
      /\ \A w \in Disk \ {v} : pc[w] \in Locked => lock'[Target[w]] = lock[Target[w]]
  BY Locking, Zenon
<1>3. HostTypes'
  <2>1. pc' \in [Disk -> Label] /\ record' \in [Disk -> Lun \cup {Nil}]
    BY Zenon DEF HostTypes, Unstaged, Label
  <2>. QED  BY <1>1, <1>2, <2>1, Zenon DEF HostTypes
<1>4. Handlers'
  <2>1. "idle" \notin Single \cup Multiple \cup Locked
    BY Zenon DEF Single, Multiple, Locked
  <2>. QED  BY <1>1, <1>2, <2>1 DEF Handlers
\* Another handler that counted v would hold the lock as well.
<1>5. \A w \in Disk \ {v} : pc[w] = "detach" => Target[w] # Target[v]
  BY Zenon DEF Handlers, Single, Multiple, Locked
<1>6. Unstaging'
  <2>1. \A w \in Disk \ {v} : pc[w] = "detach" => Counted(w)'
    BY <1>1, <1>5 DEF Unstaging, Counted
  <2>. QED  BY <1>1, <2>1 DEF Unstaging
<1>7. Legs'
  BY <1>1, Zenon DEF Legs
<1>8. Held'
  <2>1. \A w \in Disk \ {v} : \A s : Past(w, s)' <=> Past(w, s)
    BY <1>1, Zenon DEF Past
  <2>2. ASSUME configured, NEW s \in session PROVE \E w \in touched' : Target[w] = s[1] /\ ~ Past(w, s)'
    <3>1. PICK w \in touched : Target[w] = s[1] /\ ~ Past(w, s)
      BY <2>2, Zenon DEF Held
    <3>2. CASE w # v
      BY <1>1, <2>1, <3>1, <3>2, Zenon DEF HostTypes
    <3>3. CASE w = v
      <4>1. pc[v] = "detach"
        BY <3>1, <3>3, Zenon DEF Past
      <4>2. PICK u \in Disk \ {v} : record[u] # Nil /\ Target[u] = Target[v]
        BY <4>1, Zenon DEF Unstaging, Counted
      <4>3. u \in touched' /\ pc[u] \notin {"clear", "mclear", "mlogout"}
        BY <1>1, <4>1, <4>2 DEF Handlers, Single, Multiple, Locked
      <4>4. ~ Past(u, s)
        BY <4>3, Zenon DEF Past
      <4>. QED  BY <2>1, <3>1, <3>3, <4>2, <4>3, <4>4, Zenon
    <3>. QED  BY <3>2, <3>3, Zenon
  <2>. QED  BY <1>1, <2>2, Zenon DEF Held
<1>. QED  BY <1>3, <1>4, <1>6, <1>7, <1>8, Zenon

LEMMA UnstageEnds ==
    ASSUME SessionInv, NEW v \in Disk,
           UnstageDetach(v) \/ UnstageClear(v) \/ MultiClear(v)
    PROVE  SessionInv'
<1>0. "idle" \in Label /\ "idle" \notin Single \cup Multiple \cup Locked
  BY Zenon DEF Label, Single, Multiple, Locked
<1>1. CASE UnstageDetach(v) \/ UnstageClear(v)
  <2>1. /\ pc[v] \in {"detach", "clear"} /\ Unlock(v) /\ pc' = [pc EXCEPT ![v] = "idle"]
        /\ UNCHANGED <<setup, configured, session, map, maps, leg>>
        /\ Unstaged(v) \/ UNCHANGED <<record, touched>>
    BY <1>1, Zenon DEF UnstageDetach, UnstageClear, Goto, host, scsi, multi, ends
  <2>2. LockStep(v)
    BY <2>1, Zenon DEF LockStep, Locked
  <2>3. CASE Unstaged(v)
    <3>1. /\ pc[v] \in {"detach", "clear", "mclear"} /\ map' \subseteq map
          /\ maps' \in {maps, [maps EXCEPT ![v] = {}]} /\ UNCHANGED <<setup, configured, session, leg>>
      BY <2>1, Zenon
    <3>. QED  BY <2>1, <2>2, <2>3, <3>1, Leaves, Zenon
  <2>4. CASE UNCHANGED <<record, touched>>
    <3>1. leg[v] = 0
      BY <2>1, Zenon DEF SessionInv, Legs
    <3>2. Fits(v, "idle")
      BY <1>0, Zenon DEF Fits
    <3>3. Advance(v, "idle")
      <4>1. /\ UNCHANGED <<setup, configured, session, map, record, maps, leg>>
            /\ touched' \in {touched, touched \cup {v}}
        BY <2>1, <2>4, Zenon
      <4>. QED  BY <2>1, <2>2, <3>1, <3>2, <4>1, Quiet, Zenon
    <3>. QED  BY <3>3, Advances, Zenon
  <2>. QED  BY <2>1, <2>3, <2>4, Zenon
<1>2. CASE MultiClear(v)
  <2>1. /\ pc[v] = "mclear" /\ lock' = lock /\ pc' = [pc EXCEPT ![v] = "idle"]
        /\ UNCHANGED <<setup, configured, session, leg>>
        /\ maps' = [maps EXCEPT ![v] = {}]
        /\ Unstaged(v) \/ UNCHANGED <<record, touched>>
    BY <1>2, Zenon DEF MultiClear, MultiEnd, Goto, scsi, multi, ends
  <2>2. map' \subseteq map
    BY <1>2, Zenon DEF MultiClear
  <2>3. LockStep(v)
    BY <2>1, Zenon DEF LockStep
  <2>4. CASE Unstaged(v)
    <3>1. /\ pc[v] \in {"detach", "clear", "mclear"}
          /\ maps' \in {maps, [maps EXCEPT ![v] = {}]}
      BY <2>1, Zenon
    <3>. QED  BY <2>1, <2>2, <2>3, <2>4, <3>1, Leaves, Zenon
  <2>5. CASE UNCHANGED <<record, touched>>
    <3>1. leg[v] = 0 /\ leg[v] < setup.portals /\ setup.portals # 1
      BY <2>1, Zenon DEF SessionInv, Legs, Handlers, Multiple
    <3>2. /\ DOMAIN maps' = Disk /\ \A w \in Disk \ {v} : maps'[w] = maps[w]
          /\ pc'[v] = "idle"
      BY <2>1, Zenon DEF SessionInv, HostTypes
    <3>3. \A s : ~ Past(v, s)'
      BY <3>2, Zenon DEF Past
    <3>4. Advance(v, "idle")
      BY <1>0, <2>1, <2>5, <3>1, <3>2, <3>3, Locking, <2>3, Zenon
      DEF Advance, SessionInv, HostTypes
    <3>. QED  BY <3>4, Advances, Zenon
  <2>. QED  BY <2>1, <2>4, <2>5, Zenon
<1>. QED  BY <1>1, <1>2, Zenon

\* A reboot takes the sessions, and every handler with them.
LEMMA RebootClears ==
    ASSUME SessionInv, Reboot
    PROVE  SessionInv'
<1>. USE DEF SessionInv
<1>1. /\ session' = {} /\ map' = {} /\ UNCHANGED <<setup, record, touched>>
      /\ pc' = [v \in Disk |-> "idle"] /\ leg' = [v \in Disk |-> 0]
      /\ maps' = [v \in Disk |-> {}] /\ lock' = [t \in Tgt |-> Nil]
  BY Zenon DEF Reboot, HandlersEnd
<1>2. HostTypes'
  BY <1>1, Zenon DEF HostTypes, Label, Portal
<1>3. \A v \in Disk : pc'[v] = "idle" /\ leg'[v] = 0
  BY <1>1, Zenon
<1>4. Handlers' /\ Unstaging'
  BY <1>1, <1>3, Zenon DEF Handlers, Unstaging, Single, Multiple, Locked
<1>5. Legs'
  BY <1>1, <1>3, PlanShape DEF Legs, HostTypes
<1>. QED  BY <1>1, <1>2, <1>4, <1>5, Zenon DEF Held

\* Once the instance is not configured, nothing is asked of the sessions.
LEMMA UnconfigureClears ==
    ASSUME SessionInv, Unconfigure
    PROVE  SessionInv'
<1>. USE DEF SessionInv
<1>1. /\ configured' = FALSE /\ UNCHANGED <<setup, session, map, record, touched>>
      /\ pc' = [v \in Disk |-> "idle"] /\ leg' = [v \in Disk |-> 0]
      /\ maps' = [v \in Disk |-> {}] /\ lock' = [t \in Tgt |-> Nil]
  BY Zenon DEF Unconfigure, HandlersEnd, host, scsi
<1>2. HostTypes'
  BY <1>1, Zenon DEF HostTypes, Label, Portal
<1>3. \A v \in Disk : pc'[v] = "idle" /\ leg'[v] = 0
  BY <1>1, Zenon
<1>4. Handlers' /\ Unstaging'
  BY <1>1, <1>3, Zenon DEF Handlers, Unstaging, Single, Multiple, Locked
<1>5. Legs'
  BY <1>1, <1>3, PlanShape DEF Legs, HostTypes
<1>. QED  BY <1>1, <1>2, <1>4, <1>5, Zenon DEF Held

LEMMA UnknownLeaves ==
    ASSUME SessionInv, NEW v \in Disk, UnstageUnknown(v)
    PROVE  SessionInv'
<1>. USE DEF SessionInv
<1>1. /\ pc[v] = "idle" /\ record[v] = Nil /\ ~ configured /\ touched' = touched \ {v}
      /\ UNCHANGED <<setup, configured, session, map, record, lock, pc, leg, maps>>
  BY Zenon DEF UnstageUnknown, host, scsi, multi, ends
<1>2. HostTypes' /\ Legs' /\ Unstaging'
  BY <1>1, Zenon DEF HostTypes, Legs, Unstaging, Counted, Target, Portal
<1>3. Handlers'
  BY <1>1, Zenon DEF Handlers, Target
<1>. QED  BY <1>1, <1>2, <1>3, Zenon DEF Held

LEMMA OthersKeepHost ==
    ASSUME SessionInv,
           \/ \E v \in Disk : GrantStep(v) \/ GrantLost(v) \/ NodeExpand(v) \/ Multipathd(v)
           \/ \E t \in Tgt : KernelDrop(t)
           \/ Drain
    PROVE  SessionInv'
<1>1. ASSUME NEW v \in Disk, GrantStep(v) \/ GrantLost(v) PROVE SessionInv'
  <2>1. UNCHANGED <<setup, configured, host, record, lock, pc, multi, touched>>
    BY <1>1, Zenon DEF GrantStep, GrantList, GrantCreate, Revoke, GrantLost, ends
  <2>2. UNCHANGED <<setup, configured, session, map, record, lock, pc, leg, maps, touched>>
    BY <2>1, Zenon DEF host, scsi, multi
  <2>. QED  BY <2>2, HostStays, Zenon
<1>2. ASSUME NEW v \in Disk, NodeExpand(v) PROVE SessionInv'
  <2>1. UNCHANGED <<setup, configured, session, map, record, lock, pc, leg, maps, touched>>
    BY <1>2, Zenon DEF NodeExpand, multi, ends
  <2>. QED  BY <2>1, HostStays, Zenon
<1>3. ASSUME NEW v \in Disk, Multipathd(v) PROVE SessionInv'
  <2>1. /\ UNCHANGED <<setup, configured, session, record, lock, pc, leg, maps, touched>>
        /\ setup.portals > 1
    BY <1>3, Zenon DEF Multipathd, scsi, multi, ends
  <2>. QED  BY <2>1, HostStays
<1>4. ASSUME NEW t \in Tgt, KernelDrop(t) PROVE SessionInv'
  <2>1. UNCHANGED <<setup, configured, session, map, record, lock, pc, leg, maps, touched>>
    BY <1>4, Zenon DEF KernelDrop, multi, ends
  <2>. QED  BY <2>1, HostStays, Zenon
<1>5. ASSUME Drain PROVE SessionInv'
  <2>1. UNCHANGED <<setup, configured, session, map, record, lock, pc, leg, maps, touched>>
    BY <1>5, Zenon DEF Drain, host, scsi, multi
  <2>. QED  BY <2>1, HostStays, Zenon
<1>. QED  BY <1>1, <1>2, <1>3, <1>4, <1>5, Zenon

\* Only attached volumes become touched, and only an unstage that ends well takes a
\* volume off the touched ones.
LEMMA TouchedChanges ==
    ASSUME NodeNext
    PROVE  \/ touched \subseteq touched' /\ touched' \subseteq touched \cup placed
           \/ \E v \in Disk : /\ UnstageDetach(v) \/ UnstageClear(v) \/ MultiClear(v)
                              /\ touched' = touched \ {v}
           \/ \E v \in Disk : record[v] = Nil /\ touched' = touched \ {v}
<1>1. ASSUME NEW v \in Disk,
             StageCall(v) \/ NodeExpand(v) \/ UnstageCall(v) \/ Multipathd(v) \/ NodeInterrupt(v)
      PROVE  touched \subseteq touched' /\ touched' \subseteq touched \cup placed
  BY <1>1, Zenon DEF StageCall, NodeExpand, UnstageCall, Multipathd, NodeInterrupt
<1>2. ASSUME NEW v \in Disk, StageStep(v) \/ GrantStep(v) \/ GrantLost(v)
      PROVE  touched' = touched
  BY <1>2, Zenon DEF StageStep, StageLock, StageRescan, StageLogin, StageWait, StageRecord,
              StageMount, MultiLogin, MultiMapper, GrantStep, GrantList, GrantCreate,
              Revoke, GrantLost
<1>3. ASSUME NEW v \in Disk, UnstageStep(v)
      PROVE  \/ touched' = touched
             \/ /\ UnstageDetach(v) \/ UnstageClear(v) \/ MultiClear(v)
                /\ touched' = touched \ {v}
  <2>1. CASE UnstageDetach(v) \/ UnstageClear(v) \/ MultiClear(v)
    <3>1. touched' = touched \/ touched' = touched \ {v}
      BY <2>1, Zenon DEF UnstageDetach, UnstageClear, MultiClear, Unstaged
    <3>. QED  BY <2>1, <3>1, Zenon
  <2>2. CASE ~ (UnstageDetach(v) \/ UnstageClear(v) \/ MultiClear(v))
    <3>1. touched' = touched
      BY <1>3, <2>2, Zenon DEF UnstageStep, UnstageLock, UnstageLogout, MultiLogout, MultiFlush
    <3>. QED  BY <3>1, Zenon
  <2>. QED  BY <2>1, <2>2, Zenon
<1>4. ASSUME NEW t \in Tgt, KernelDrop(t) PROVE touched' = touched
  BY <1>4, Zenon DEF KernelDrop
<1>5. ASSUME Drain \/ Unconfigure \/ Reboot PROVE touched' = touched
  BY <1>5, Zenon DEF Drain, Unconfigure, Reboot
<1>6. CASE \E v \in Disk : StageCall(v) \/ NodeExpand(v) \/ UnstageCall(v) \/ Multipathd(v)
                           \/ NodeInterrupt(v)
  BY <1>1, <1>6, Zenon
<1>7. CASE \E v \in Disk : StageStep(v) \/ GrantStep(v) \/ GrantLost(v)
  <2>1. touched' = touched
    BY <1>2, <1>7, Zenon
  <2>. QED  BY <2>1, Zenon
<1>8. CASE \E v \in Disk : UnstageStep(v)
  <2>1. touched' = touched \/ \E v \in Disk :
            /\ UnstageDetach(v) \/ UnstageClear(v) \/ MultiClear(v)
            /\ touched' = touched \ {v}
    BY <1>3, <1>8, Zenon
  <2>. QED  BY <2>1, Zenon
<1>9. CASE (\E t \in Tgt : KernelDrop(t)) \/ Drain \/ Unconfigure \/ Reboot
  <2>1. touched' = touched
    BY <1>4, <1>5, <1>9, Zenon
  <2>. QED  BY <2>1, Zenon
<1>10. CASE \E v \in Disk : UnstageUnknown(v)
  BY <1>10, Zenon DEF UnstageUnknown
<1>. QED  BY <1>6, <1>7, <1>8, <1>9, <1>10, Zenon DEF NodeNext

-----------------------------------------------------------------------------
(* The LUNs: grantAccess finds one that is free *)

FS == INSTANCE FiniteSetTheorems

\* The finite sets of the library's theorems are those of the modules.
LEMMA SameSets ==
    \A S : FS!IsFiniteSet(S) = IsFiniteSet(S) /\ FS!Cardinality(S) = Cardinality(S)
<1>1. \A S : FS!IsFiniteSet(S) = IsFiniteSet(S)
  BY Zenon DEF FS!IsFiniteSet, IsFiniteSet
<1>2. \A S : FS!Cardinality(S) = Cardinality(S)
  BY Zenon DEF FS!Cardinality, Cardinality
<1>. QED  BY <1>1, <1>2, Zenon

\* How many LUNs a target has.
LEMMA LunCount == IsFiniteSet(Lun) /\ Cardinality(Lun) = MaxLun + 1 /\ MaxLun \in Nat
<1>1. 0 \in Int /\ MaxLun \in Int /\ MaxLun \in Nat /\ ~ (0 > MaxLun)
  BY Shape
<1>2. IsFiniteSet(0..MaxLun) /\ Cardinality(0..MaxLun) = IF 0 > MaxLun THEN 0 ELSE MaxLun - 0 + 1
  BY <1>1, SameSets, FS!FS_Interval, Zenon
<1>3. Cardinality(0..MaxLun) = MaxLun - 0 + 1
  BY <1>1, <1>2, Zenon
<1>4. MaxLun - 0 + 1 = MaxLun + 1
  BY <1>1
<1>. QED  BY <1>1, <1>2, <1>3, <1>4, Zenon DEF Lun

\* A set of naturals that is not empty has a least member.
LEMMA Least ==
    ASSUME NEW S \in SUBSET Nat, S # {}
    PROVE  \E l \in S : \A k \in S : l <= k
<1>1. PICK l \in S : \A k \in S : ~ (<<k, l>> \in FS!OpToRel(<, Nat))
  BY FS!NatLessThanWellFounded, FS!WFMin, Zenon
<1>2. \A k \in S : ~ (k < l)
  <2>. SUFFICES ASSUME NEW k \in S, k < l PROVE FALSE
    OBVIOUS
  <2>1. k \in Nat /\ l \in Nat
    OBVIOUS
  <2>2. <<k, l>> \in {ss \in Nat \X Nat : ss[1] < ss[2]}
    BY <2>1, Zenon
  <2>. QED  BY <1>1, <2>2, Zenon DEF FS!OpToRel
<1>. QED  BY <1>2

\* A volume that is not exported leaves a LUN free for it.
LEMMA FreeLun ==
    ASSUME ArrayTypes, NEW v \in Disk, exports[v] = Nil
    PROVE  LowestFree(InUse(v)) \in Lun \ InUse(v)
<1>. DEFINE W == {u \in Disk : exports[u] # Nil /\ Target[u] = Target[v]}
            f == [w \in W |-> exports[w]]
<1>1. IsFiniteSet(W) /\ Cardinality(W) <= Cardinality(Disk \ {v})
  <2>1. IsFiniteSet(Disk \ {v})
    BY SameSets, FS!FS_RemoveElement, Shape, Zenon
  <2>2. W \in SUBSET (Disk \ {v})
    OBVIOUS
  <2>. QED  BY SameSets, <2>1, <2>2, FS!FS_Subset, Zenon
<1>2. Cardinality(Disk \ {v}) < Cardinality(Lun)
  <2>1. Cardinality(Disk \ {v}) = Cardinality(Disk) - 1 /\ Cardinality(Disk) \in Nat
    BY SameSets, FS!FS_RemoveElement, FS!FS_CardinalityType, Shape, Zenon
  <2>2. Cardinality(Lun) = MaxLun + 1 /\ MaxLun \in Nat
    BY LunCount, Zenon
  <2>. QED  BY <2>1, <2>2, Shape
<1>3. IsFiniteSet(InUse(v)) /\ Cardinality(InUse(v)) <= Cardinality(W)
  <2>1. f \in FS!Surjection(W, InUse(v))
    BY Zenon DEF FS!Surjection, InUse
  <2>. QED  BY SameSets, <1>1, <2>1, FS!FS_Surjection, Zenon
<1>4. ~ (Lun \subseteq InUse(v))
  <2>1. SUFFICES ASSUME Lun \subseteq InUse(v) PROVE FALSE
    OBVIOUS
  <2>2. Cardinality(Lun) <= Cardinality(InUse(v))
    BY SameSets, <1>3, <2>1, FS!FS_Subset, Zenon
  <2>3. /\ Cardinality(W) \in Nat /\ Cardinality(InUse(v)) \in Nat
        /\ Cardinality(Lun) \in Nat /\ Cardinality(Disk \ {v}) \in Nat
    <3>1. IsFiniteSet(Disk \ {v}) /\ IsFiniteSet(Lun)
      BY SameSets, FS!FS_RemoveElement, LunCount, Shape, Zenon
    <3>. HIDE DEF W
    <3>. QED  BY SameSets, <1>1, <1>3, <3>1, FS!FS_CardinalityType, Zenon
  <2>. QED  BY <1>1, <1>2, <1>3, <2>2, <2>3
<1>. DEFINE S == Lun \ InUse(v)
<1>5. S \in SUBSET Nat /\ S # {}
  BY <1>4 DEF Lun
<1>. HIDE DEF S
<1>6. \E l \in S : \A k \in S : l <= k
  BY <1>5, Least, Zenon
<1>. QED  BY <1>6, Zenon DEF LowestFree, S

LEMMA LunStart == NodeInit => LunInv
<1>. SUFFICES ASSUME NodeInit PROVE LunInv
  OBVIOUS
<1>1. ArrayTypes
  BY Zenon DEF NodeInit, ArrayTypes
<1>2. \A v \in Disk : attach[v] = "idle" /\ exports[v] = Nil
  BY Zenon DEF NodeInit
<1>. QED  BY <1>1, <1>2, Zenon DEF LunInv, Listing, LunsUnique

\* Steps that leave the exports and the grants alone.
LEMMA ArrayStays ==
    ASSUME LunInv, UNCHANGED <<setup, array>>
    PROVE  LunInv'
BY DEF LunInv, ArrayTypes, Listing, LunsUnique, InUse, Target, array

\* A grant ends, with or without an export at the LUN it found free.
LEMMA GrantEnds ==
    ASSUME LunInv, NEW v \in Disk, attach[v] = "create", GrantEnd(v), setup' = setup,
           exports' \in {exports, [exports EXCEPT ![v] = LowestFree(listed[v])]}
    PROVE  LunInv'
<1>1. accessMu = v /\ exports[v] = Nil /\ listed[v] = InUse(v)
  BY Zenon DEF LunInv, Listing
<1>2. LowestFree(listed[v]) \in Lun \ InUse(v)
  BY <1>1, FreeLun, Zenon DEF LunInv
<1>3. ArrayTypes'
  BY <1>2, Zenon DEF LunInv, ArrayTypes, GrantEnd
<1>4. \A w \in Disk : attach'[w] # "create"
  BY <1>1, Zenon DEF LunInv, ArrayTypes, Listing, GrantEnd
<1>5. LunsUnique'
  <2>1. CASE exports' = exports
    BY <2>1, Zenon DEF LunInv, LunsUnique, Target
  <2>2. CASE exports' = [exports EXCEPT ![v] = LowestFree(listed[v])]
    <3>1. \A w \in Disk : Target[w] = Target[v] /\ exports[w] # Nil
                           => exports[w] # LowestFree(listed[v])
      BY <1>2, Zenon DEF InUse
    <3>2. /\ exports'[v] = LowestFree(listed[v])
          /\ \A w \in Disk \ {v} : exports'[w] = exports[w]
      BY <2>2, Zenon DEF LunInv, ArrayTypes
    <3>3. \A u, w \in Disk : u # w /\ Target[u] = Target[w] /\ exports'[u] # Nil
                             => exports'[u] # exports'[w]
      BY <3>1, <3>2, Zenon DEF LunInv, LunsUnique
    <3>. QED  BY <3>3, Zenon DEF LunsUnique, Target
  <2>. QED  BY <2>1, <2>2, Zenon
<1>. QED  BY <1>3, <1>4, <1>5, Zenon DEF LunInv, Listing

LEMMA AttachKeepsLuns ==
    ASSUME LunInv, NEW v \in Disk, GrantStep(v) \/ GrantLost(v)
    PROVE  LunInv'
<1>1. CASE GrantList(v)
  <2>1. setup' = setup /\ exports' = exports
    BY <1>1, Zenon DEF GrantList, ends
  <2>2. CASE exports[v] # Nil
    BY <1>1, <2>1, <2>2
    DEF GrantList, LunInv, ArrayTypes, Listing, LunsUnique, InUse, Target
  <2>3. CASE exports[v] = Nil
    <3>1. /\ accessMu = Nil /\ accessMu' = v
          /\ listed' = [listed EXCEPT ![v] = InUse(v)]
          /\ attach' = [attach EXCEPT ![v] = "create"]
      BY <1>1, <2>3, Zenon DEF GrantList
    <3>2. \A w \in Disk : attach[w] # "create"
      BY <3>1, Shape, Zenon DEF LunInv, Listing
    <3>3. InUse(v) \in SUBSET (Lun \cup {Nil})
      BY Zenon DEF LunInv, ArrayTypes, InUse
    <3>4. ArrayTypes'
      BY <2>1, <3>1, <3>3, Zenon DEF LunInv, ArrayTypes
    <3>5. \A w \in Disk : attach'[w] = "create" => w = v /\ listed'[w] = InUse(v)
      BY <3>1, <3>2, Zenon DEF LunInv, ArrayTypes
    <3>6. InUse(v)' = InUse(v) /\ (LunsUnique <=> LunsUnique')
      BY <2>1, Zenon DEF InUse, LunsUnique, Target
    <3>7. Listing'
      BY <2>1, <2>3, <3>1, <3>5, <3>6, Zenon DEF Listing
    <3>. QED  BY <3>4, <3>6, <3>7, Zenon DEF LunInv
  <2>. QED  BY <2>2, <2>3, Zenon
<1>2. CASE GrantCreate(v)
  <2>1. /\ attach[v] = "create" /\ GrantEnd(v) /\ setup' = setup
        /\ exports' = [exports EXCEPT ![v] = LowestFree(listed[v])]
    BY <1>2, Zenon DEF GrantCreate, ends
  <2>. QED  BY <2>1, GrantEnds, Zenon
<1>3. CASE GrantLost(v)
  BY <1>3, GrantEnds, Zenon DEF GrantLost
<1>4. CASE Revoke(v)
  <2>1. /\ setup' = setup /\ exports' = [exports EXCEPT ![v] = Nil]
        /\ accessMu = Nil /\ UNCHANGED <<accessMu, attach, listed>>
    BY <1>4, Zenon DEF Revoke, ends
  <2>2. \A w \in Disk : attach[w] # "create"
    BY <2>1, Shape, Zenon DEF LunInv, Listing
  <2>3. ArrayTypes'
    BY <2>1, Zenon DEF LunInv, ArrayTypes
  <2>4. LunsUnique'
    BY <2>1, Zenon DEF LunInv, ArrayTypes, LunsUnique, Target
  <2>. QED  BY <2>1, <2>2, <2>3, <2>4, Zenon DEF LunInv, Listing
<1>. QED  BY <1>1, <1>2, <1>3, <1>4, Zenon DEF GrantStep

\* Everything but a grant or a revoke leaves the exports alone.
LEMMA OthersKeepArray ==
    ASSUME NodeNext
    PROVE  \/ \E v \in Disk : GrantStep(v) \/ GrantLost(v)
           \/ UNCHANGED <<setup, array>>
<1>1. ASSUME NEW v \in Disk, StageCall(v) \/ NodeExpand(v) \/ UnstageCall(v)
                             \/ UnstageUnknown(v) \/ Multipathd(v) \/ NodeInterrupt(v)
      PROVE  UNCHANGED <<setup, array>>
  BY <1>1, Zenon DEF StageCall, NodeExpand, UnstageCall, UnstageUnknown, Multipathd,
              NodeInterrupt, ends
<1>2. ASSUME NEW v \in Disk, StageStep(v)
      PROVE  UNCHANGED <<setup, array>>
  BY <1>2, Zenon DEF StageStep, StageLock, StageRescan, StageLogin, StageWait, StageRecord,
              StageMount, MultiLogin, MultiMapper, ends
<1>3. ASSUME NEW v \in Disk, UnstageStep(v)
      PROVE  UNCHANGED <<setup, array>>
  BY <1>3, Zenon DEF UnstageStep, UnstageLock, UnstageDetach, UnstageClear, UnstageLogout,
              MultiLogout, MultiFlush, MultiClear, ends
<1>4. ASSUME NEW t \in Tgt, KernelDrop(t) PROVE UNCHANGED <<setup, array>>
  BY <1>4, Zenon DEF KernelDrop, ends
<1>5. ASSUME Drain \/ Unconfigure \/ Reboot PROVE UNCHANGED <<setup, array>>
  BY <1>5, Zenon DEF Drain, Unconfigure, Reboot
<1>. QED  BY <1>1, <1>2, <1>3, <1>4, <1>5, Zenon DEF NodeNext

\* LunInv is inductive.
LEMMA LunStep == LunInv /\ [NodeNext]_nodeVars => LunInv'
<1>1. ASSUME LunInv, NodeNext PROVE LunInv'
  BY <1>1, OthersKeepArray, AttachKeepsLuns, ArrayStays, Zenon
<1>2. ASSUME LunInv, UNCHANGED nodeVars PROVE LunInv'
  <2>1. UNCHANGED <<setup, array>>
    BY <1>2, Zenon DEF nodeVars, ends
  <2>. QED  BY <1>2, <2>1, ArrayStays, Zenon
<1>. QED  BY <1>1, <1>2, Zenon

\* grantAccess (iscsiplugin.go): however grants and revokes interleave, and
\* whatever answers are lost, two volumes of one target never share a LUN.
THEOREM LunsStayUnique == NodeSpec => []LunsUnique
<1>1. NodeInit => LunInv
  BY LunStart, Zenon
<1>2. LunInv /\ [NodeNext]_nodeVars => LunInv'
  BY LunStep, Zenon
<1>3. LunInv => LunsUnique
  BY Zenon DEF LunInv
<1>. QED  BY <1>1, <1>2, <1>3, PTL DEF NodeSpec

LEMMA GrantedStays ==
    ASSUME LunInv, Granted, NodeNext
    PROVE  Granted'
<1>1. CASE \E v \in Disk : GrantStep(v) \/ GrantLost(v)
  <2>1. PICK v \in Disk : GrantStep(v) \/ GrantLost(v)
    BY <1>1, Zenon
  <2>. USE DEF LunInv, ArrayTypes, Granted
  <2>2. CASE GrantList(v)
    BY <2>2, Zenon DEF GrantList
  <2>3. CASE Revoke(v)
    BY <2>3, Zenon DEF Revoke
  <2>4. CASE GrantCreate(v) \/ GrantLost(v)
    <3>1. exports[v] = Nil /\ LowestFree(listed[v]) \in Lun
      BY <2>4, FreeLun, Zenon DEF GrantCreate, GrantLost, Listing
    <3>2. /\ exports' \in {exports, [exports EXCEPT ![v] = LowestFree(listed[v])]}
          /\ GrantCreate(v) => exports' = [exports EXCEPT ![v] = LowestFree(listed[v])]
          /\ placed' = placed \/ (GrantCreate(v) /\ placed' = placed \cup {v})
          /\ touched' = touched
      BY <2>4, Zenon DEF GrantCreate, GrantLost
    <3>. QED  BY <3>1, <3>2, Shape
  <2>. QED  BY <2>1, <2>2, <2>3, <2>4, Zenon DEF GrantStep
<1>2. CASE UNCHANGED <<setup, array>>
  <2>1. touched' \subseteq touched \cup placed
    BY TouchedChanges, Zenon
  <2>. QED  BY <1>2, <2>1, Zenon DEF Granted, array
<1>. QED  BY <1>1, <1>2, OthersKeepArray, Zenon

\* TargetInv is inductive.
LEMMA TargetStep == TargetInv /\ [NodeNext]_nodeVars => TargetInv'
<1>1. ASSUME TargetInv, NodeNext PROVE TargetInv'
  <2>1. LunInv' /\ Granted'
    BY <1>1, LunStep, GrantedStays, Zenon DEF TargetInv
  <2>2. SessionInv
    BY <1>1, Zenon DEF TargetInv
  <2>3. ASSUME NEW v \in Disk, StageCall(v) \/ StageStep(v) \/ UnstageCall(v)
                               \/ UnstageStep(v) \/ NodeInterrupt(v)
        PROVE  SessionInv'
    <3>1. CASE UnstageDetach(v) \/ UnstageClear(v) \/ MultiClear(v)
      BY <2>2, <3>1, UnstageEnds, Zenon
    <3>2. CASE ~ (UnstageDetach(v) \/ UnstageClear(v) \/ MultiClear(v))
      <4>1. \E l : Advance(v, l)
        BY <1>1, <2>2, <2>3, <3>2, StageQuiet, StageLogs, UnstageLogs, Zenon
        DEF StageStep, UnstageStep
      <4>. QED  BY <2>2, <4>1, Advances, Zenon
    <3>. QED  BY <3>1, <3>2, Zenon
  <2>4. SessionInv'
    BY <1>1, <2>2, <2>3, RebootClears, UnconfigureClears, UnknownLeaves, OthersKeepHost,
       Zenon DEF NodeNext
  <2>. QED  BY <2>1, <2>4, Zenon DEF TargetInv
<1>2. ASSUME TargetInv, UNCHANGED nodeVars PROVE TargetInv'
  <2>1. UNCHANGED <<setup, configured, exports, accessMu, attach, listed, placed, session, map, record,
                    lock, pc, leg, maps, touched>>
    BY <1>2, Zenon DEF nodeVars, array, host, scsi, multi, ends
  <2>2. LunInv'
    BY <1>2, LunStep, Zenon DEF TargetInv
  <2>3. SessionInv'
    BY <1>2, <2>1, HostStays, Zenon DEF TargetInv
  <2>. QED  BY <1>2, <2>1, <2>2, <2>3, Zenon DEF TargetInv, Granted
<1>. QED  BY <1>1, <1>2, Zenon

LEMMA TargetStart == NodeInit => TargetInv
<1>1. NodeInit => Granted
  BY Zenon DEF NodeInit, Granted
<1>. QED  BY <1>1, LunStart, SessionStart, Zenon DEF TargetInv

\* withTargetLock and the count of records (iscsiplugin.go), and the loops over
\* the portals (multipath.go): whatever stages and unstages run side by side, fail
\* or are cut short, a session is up only while a volume of its target has still
\* to be unstaged.
THEOREM SessionsGo == NodeSpec => []NoSessionLeft
<1>1. TargetInv => NoSessionLeft
  BY Zenon DEF TargetInv, SessionInv, Held, NoSessionLeft
<1>. QED  BY <1>1, TargetStart, TargetStep, PTL DEF NodeSpec

LEMMA FaultsCount ==
    ASSUME nodeFaults \in Nat, [NodeNext]_nodeVars
    PROVE  nodeFaults' \in Nat
<1>1. ASSUME NEW v \in Disk, StageCall(v) \/ StageStep(v) \/ NodeExpand(v) \/ UnstageCall(v)
                             \/ UnstageUnknown(v) \/ Multipathd(v) \/ GrantStep(v)
      PROVE  nodeFaults' = nodeFaults
  BY <1>1, Zenon DEF StageCall, NodeExpand, UnstageCall, UnstageUnknown, Multipathd,
              StageStep, StageLock, StageRescan, StageLogin, StageWait, StageRecord,
              StageMount, MultiLogin, MultiMapper, GrantStep, GrantList, GrantCreate,
              Revoke, ends
<1>2. ASSUME NEW v \in Disk, UnstageStep(v) \/ GrantLost(v) \/ NodeInterrupt(v)
      PROVE  Fault \/ nodeFaults' = nodeFaults
  BY <1>2, Zenon DEF UnstageStep, UnstageLock, UnstageDetach, UnstageClear, UnstageLogout,
              MultiLogout, MultiFlush, MultiClear, GrantLost, NodeInterrupt, ends
<1>3. ASSUME (\E t \in Tgt : KernelDrop(t)) \/ Drain \/ Unconfigure \/ Reboot
      PROVE  nodeFaults' = nodeFaults
  BY <1>3, Zenon DEF KernelDrop, Drain, Unconfigure, Reboot, ends
<1>4. ASSUME UNCHANGED nodeVars PROVE nodeFaults' = nodeFaults
  BY <1>4, Zenon DEF nodeVars, ends
<1>5. Fault \/ nodeFaults' = nodeFaults
  BY <1>1, <1>2, <1>3, <1>4, Zenon DEF NodeNext
<1>. QED  BY <1>5 DEF Fault

LEMMA Detached ==
    ASSUME TargetInv, nodeFaults \in Nat, NodeNext, nodeFaults' = nodeFaults,
           NEW v \in touched \ touched', record[v] # Nil
    PROVE  (\A x \in Slots(v, record[v]) : device'[x] = Nil) /\ v \notin map'
<1>0. v \in Disk /\ Slots(v, record[v]) \subseteq Slot
  BY PlanShape DEF TargetInv, SessionInv, HostTypes, Slots, Slot
<1>1. Known(v) = record[v] /\ ~ Fault
  BY DEF Known, Fault
<1>2. CASE UnstageDetach(v)
  <2>1. /\ device' = [x \in Slot |-> IF x \in Slots(v, Known(v)) THEN Nil ELSE device[x]]
        /\ pc[v] = "detach" /\ map' = map
    BY <1>2, Zenon DEF UnstageDetach
  <2>2. map = {}
    BY <1>0, <2>1, Zenon DEF TargetInv, SessionInv, Handlers, Single, Locked
  <2>. QED  BY <1>0, <1>1, <2>1, <2>2, Zenon
<1>3. CASE UnstageClear(v)
  <2>1. Absent(v, record[v]) /\ pc[v] = "clear" /\ UNCHANGED <<device, map>>
    BY <1>1, <1>3, Zenon DEF UnstageClear, host, scsi
  <2>2. map = {}
    BY <1>0, <2>1, Zenon DEF TargetInv, SessionInv, Handlers, Single, Locked
  <2>. QED  BY <2>1, <2>2, Zenon DEF Absent
<1>4. CASE MultiClear(v)
  <2>1. /\ Absent(v, record[v]) /\ pc[v] = "mclear" /\ device' = device
        /\ maps[v] \cap map' = {}
    BY <1>1, <1>4, Zenon DEF MultiClear, scsi
  <2>2. v \in maps[v]
    BY <1>0, <2>1, Zenon DEF TargetInv, SessionInv, Unstaging
  <2>. QED  BY <2>1, <2>2, Zenon DEF Absent
<1>5. UnstageDetach(v) \/ UnstageClear(v) \/ MultiClear(v)
  BY TouchedChanges, Zenon
<1>. QED  BY <1>2, <1>3, <1>4, <1>5, Zenon

\* unstageSingleTarget and unstageMultipath (iscsiplugin.go, multipath.go): an
\* unstage of a recorded volume that is acknowledged has seen its LUN gone from
\* every portal, and its map too, unless the command that looks for them failed.
THEOREM DetachIsVerified == NodeSpec => DetachVerified
<1>. DEFINE Inv == TargetInv /\ nodeFaults \in Nat
<1>1. NodeInit => Inv
  BY TargetStart DEF NodeInit
<1>2. Inv /\ [NodeNext]_nodeVars => Inv'
  BY TargetStep, FaultsCount, Zenon
<1>3. Inv /\ [NodeNext]_nodeVars
      => [nodeFaults' = nodeFaults => \A v \in touched \ touched' : record[v] # Nil =>
             /\ \A x \in Slots(v, record[v]) : device'[x] = Nil
             /\ v \notin map']_nodeVars
  BY Detached, Zenon
<1>. QED  BY <1>1, <1>2, <1>3, PTL DEF NodeSpec, DetachVerified

=============================================================================
