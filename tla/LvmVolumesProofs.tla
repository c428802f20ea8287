--------------------------- MODULE LvmVolumesProofs ---------------------------
(***************************************************************************)
(* The LVM plugin, for every set of volumes, snapshots, sources and sizes   *)
(* and every number of faults: it implements ObjectService, lists its       *)
(* snapshots with their sources, loses no filesystem and leaves none        *)
(* smaller than its device.                                                 *)
(*                                                                          *)
(* Every step works on one object.  The lemmas named ...Good show of each   *)
(* operation what it leaves of that object and that it touches no other;    *)
(* OneStep draws the conclusions.                                           *)
(***************************************************************************)
EXTENDS LvmVolumes, TLAPS

\* Functions by their values.
On(S, f) == f = [x \in S |-> f[x]]

Types ==
    /\ src \in Sources /\ On(Obj, lv) /\ On(Snap, snapOf) /\ On(Obj, ctl) /\ On(Vol, node)
    /\ cap \in [Vol -> Nat]
    /\ \A n \in Obj : lv[n] # None => lv[n] \in LV
    /\ wanted \subseteq Obj /\ acked \subseteq wanted /\ delWanted \subseteq acked
    /\ gone \subseteq delWanted /\ using \subseteq Vol /\ staged \subseteq using
    /\ published \subseteq using

\* Which handlers are at work before a create is acknowledged, after a delete was
\* asked for and in between.
Making == {"lookup", "plain", "clone", "activate", "extend", "check", "snap", "reply"}

Asked(n) ==
    /\ ctl[n] \in Making => n \in wanted \ acked
    /\ ctl[n] \in {"remove", "removed"} => n \in delWanted
    /\ ctl[n] \in {"grow", "grown"} => n \in acked \ delWanted
    /\ lv[n] # None => n \in wanted
    /\ n \in gone \/ ctl[n] = "removed" => lv[n] = None

\* How far the handler of a volume has come, and that a volume is of its source and
\* as large as it was asked for from then on.
VolumeMade(v) ==
    /\ lv[v] # None => lv[v].from = src[v]
    /\ ctl[v] \in {"plain", "clone"} => lv[v] = None /\ (ctl[v] = "plain" <=> src[v] = None)
    /\ ctl[v] \in {"activate", "extend", "reply"} => lv[v] # None
    /\ v \in acked \ delWanted \/ ctl[v] = "reply" => lv[v] # None /\ lv[v].size >= ReqSize[v]

\* The same of a snapshot, which its tag follows.
SnapshotMade(s) ==
    /\ lv[s] # None => lv[s].from \in Vol /\ lv[s].tag = lv[s].from
    /\ ctl[s] \in {"check", "snap"} => snapOf[s] \in Vol
    /\ ctl[s] = "snap" => lv[s] = None \/ lv[s].from = snapOf[s]
    /\ s \in acked \ delWanted \/ ctl[s] = "reply" => lv[s] # None /\ lv[s].from = snapOf[s]

\* The node's volumes are held, and formatted once they are mounted; they are filled
\* from the last step of NodeStage on.
Filled(v) == v \notin growing /\ cap[v] = lv[v].size => lv[v].fsSize = lv[v].size

OnNode(v) ==
    /\ node[v] # "idle" => v \in using
    /\ v \in using => v \in acked \ delWanted
    /\ v \in staged \/ node[v] \in {"mount", "fill", "staged"} => lv[v].fs # 0
    /\ v \in staged \/ node[v] = "staged" => Filled(v)

Whole(n) ==
    /\ Asked(n)
    /\ n \in Vol => VolumeMade(n) /\ OnNode(n)
    /\ n \in Snap => SnapshotMade(n)

LvmInv == Types /\ faults \in Nat /\ \A n \in Obj : Whole(n)

-----------------------------------------------------------------------------
(* A step on one object *)

\* What the others see of a step on n: nothing.
Apart(n) ==
    /\ src' = src
    /\ \A m \in Obj \ {n} :
          /\ lv'[m] = lv[m] /\ ctl'[m] = ctl[m]
          /\ m \in wanted' <=> m \in wanted
          /\ m \in acked' <=> m \in acked
          /\ m \in delWanted' <=> m \in delWanted
          /\ m \in gone' <=> m \in gone
    /\ \A s \in Snap \ {n} : snapOf'[s] = snapOf[s]
    /\ \A v \in Vol \ {n} :
          /\ node'[v] = node[v] /\ cap'[v] = cap[v]
          /\ v \in growing' <=> v \in growing
          /\ v \in using' <=> v \in using
          /\ v \in staged' <=> v \in staged

\* What the caller sees of n.
Shown(n) ==
    \/ Made(n)' = Made(n) /\ UNCHANGED <<wanted, acked, delWanted, gone>>
    \/ n \in wanted \ acked /\ UNCHANGED <<wanted, acked, delWanted, gone>>
    \/ Made(n)' = Made(n) /\ wanted' = wanted \cup {n} /\ UNCHANGED <<acked, delWanted, gone>>
    \/ /\ Made(n)' = Made(n) /\ Made(n) = "ready" /\ n \in wanted
       /\ acked' = acked \cup {n} /\ UNCHANGED <<wanted, delWanted, gone>>
    \/ /\ Made(n)' = Made(n) /\ n \in acked
       /\ delWanted' = delWanted \cup {n} /\ UNCHANGED <<wanted, acked, gone>>
    \/ /\ Made(n)' = "absent" /\ n \in delWanted
       /\ gone' \in {gone, gone \cup {n}} /\ UNCHANGED <<wanted, acked, delWanted>>

KeepsData(n) ==
    lv[n] # None /\ lv'[n] # None /\ lv[n].fs # 0 /\ faults' = faults => lv'[n].fs = lv[n].fs

\* All that a step on n has to show.
Good(n) == Types' /\ Whole(n)' /\ Apart(n) /\ Shown(n) /\ KeepsData(n)

ServesStep == Service!Next \/ UNCHANGED Service!vars

\* The service sees nothing of the objects a step is not about,
LEMMA OthersMade ==
    ASSUME NEW n \in Obj, Apart(n), NEW m \in Obj \ {n}
    PROVE  Made(m)' = Made(m)
<1>1. lv'[m] = lv[m] /\ src' = src /\ (m \in Snap => snapOf'[m] = snapOf[m])
  BY Zenon DEF Apart
<1>. QED  BY <1>1, Zenon DEF Made

\* and they stay as they were.
LEMMA OthersWhole ==
    ASSUME NEW n \in Obj, Apart(n), NEW m \in Obj \ {n}, Whole(m)
    PROVE  Whole(m)'
<1>1. /\ lv'[m] = lv[m] /\ ctl'[m] = ctl[m] /\ src' = src
      /\ m \in wanted' <=> m \in wanted
      /\ m \in acked' <=> m \in acked
      /\ m \in delWanted' <=> m \in delWanted
      /\ m \in gone' <=> m \in gone
  BY Zenon DEF Apart
<1>2. Asked(m)'
  BY <1>1, Zenon DEF Whole, Asked
<1>3. m \in Vol => VolumeMade(m)'
  BY <1>1, Zenon DEF Whole, VolumeMade
<1>4. ASSUME m \in Vol PROVE OnNode(m)'
  <2>1. /\ node'[m] = node[m] /\ cap'[m] = cap[m]
        /\ m \in growing' <=> m \in growing
        /\ m \in using' <=> m \in using
        /\ m \in staged' <=> m \in staged
    BY <1>4, Zenon DEF Apart
  <2>. QED  BY <1>1, <1>4, <2>1, Zenon DEF Whole, OnNode, Filled
<1>5. ASSUME m \in Snap PROVE SnapshotMade(m)'
  <2>1. snapOf'[m] = snapOf[m]
    BY <1>5, Zenon DEF Apart
  <2>. QED  BY <1>1, <1>5, <2>1, Zenon DEF Whole, SnapshotMade
<1>. QED  BY <1>2, <1>3, <1>4, <1>5, Zenon DEF Whole

\* What the caller sees of n is a step of the service, or nothing.
LEMMA OneShown ==
    ASSUME NEW n \in Obj, Apart(n), Shown(n)
    PROVE  ServesStep
<1>1. [m \in Obj |-> Made(m)]' = [[m \in Obj |-> Made(m)] EXCEPT ![n] = Made(n)']
  <2>1. \A m \in Obj \ {n} : Made(m)' = Made(m)
    BY OthersMade, Zenon
  <2>2. [m \in Obj |-> Made(m)'] = [[m \in Obj |-> Made(m)] EXCEPT ![n] = Made(n)']
    BY <2>1, Zenon
  <2>. QED  BY <2>2, Zenon
<1>2. ASSUME Made(n)' = Made(n) PROVE [m \in Obj |-> Made(m)]' = [m \in Obj |-> Made(m)]
  BY <1>1, <1>2, Zenon
<1>4. CASE Made(n)' = Made(n) /\ UNCHANGED <<wanted, acked, delWanted, gone>>
  BY <1>2, <1>4, Zenon DEF ServesStep, Service!vars
<1>5. CASE n \in wanted \ acked /\ UNCHANGED <<wanted, acked, delWanted, gone>>
  <2>1. \A m \in Obj : Made(m)' \in {"absent", "partial", "ready"}
    BY Zenon DEF Made
  <2>2. \A m \in Obj : m \in wanted \ acked \/ Made(m)' = Made(m)
    BY <1>5, OthersMade, Zenon
  <2>3. Service!Work
    BY <1>5, <2>1, <2>2, Zenon DEF Service!Work
  <2>. QED  BY <2>3, Zenon DEF ServesStep, Service!Next
<1>6. CASE Made(n)' = Made(n) /\ wanted' = wanted \cup {n} /\ UNCHANGED <<acked, delWanted, gone>>
  BY <1>2, <1>6, Zenon DEF ServesStep, Service!Next, Service!Request
<1>7. CASE /\ Made(n)' = Made(n) /\ Made(n) = "ready" /\ n \in wanted
           /\ acked' = acked \cup {n} /\ UNCHANGED <<wanted, delWanted, gone>>
  <2>1. Service!Acknowledge(n)
    BY <1>2, <1>7, Zenon DEF Service!Acknowledge
  <2>. QED  BY <2>1, Zenon DEF ServesStep, Service!Next
<1>8. CASE /\ Made(n)' = Made(n) /\ n \in acked
           /\ delWanted' = delWanted \cup {n} /\ UNCHANGED <<wanted, acked, gone>>
  BY <1>2, <1>8, Zenon DEF ServesStep, Service!Next, Service!RequestDelete
<1>9. CASE /\ Made(n)' = "absent" /\ n \in delWanted
           /\ gone' \in {gone, gone \cup {n}} /\ UNCHANGED <<wanted, acked, delWanted>>
  <2>1. [m \in Obj |-> Made(m)]' = [[m \in Obj |-> Made(m)] EXCEPT ![n] = "absent"]
    BY <1>1, <1>9, Zenon
  <2>2. CASE gone' = gone
    BY <1>9, <2>1, <2>2, Zenon DEF ServesStep, Service!Next, Service!Remove
  <2>3. CASE gone' = gone \cup {n}
    BY <1>9, <2>1, <2>3, Zenon DEF ServesStep, Service!Next, Service!AcknowledgeDelete
  <2>. QED  BY <1>9, <2>2, <2>3, Zenon
<1>. QED  BY <1>4, <1>5, <1>6, <1>7, <1>8, <1>9, Zenon DEF Shown

\* A good step on one object is all there is to show.
LEMMA OneStep ==
    ASSUME LvmInv, NEW n \in Obj, Good(n), faults' \in Nat
    PROVE  LvmInv' /\ ServesStep /\ \A m \in Obj : KeepsData(m)
<1>1. ASSUME NEW m \in Obj PROVE Whole(m)'
  BY OthersWhole, Zenon DEF LvmInv, Good
<1>2. ASSUME NEW m \in Obj \ {n} PROVE KeepsData(m)
  <2>1. lv'[m] = lv[m]
    BY Zenon DEF Good, Apart
  <2>. QED  BY <2>1, Zenon DEF KeepsData
<1>3. \A m \in Obj : KeepsData(m)
  BY <1>2, Zenon DEF Good
<1>4. ServesStep
  BY OneShown, Zenon DEF Good
<1>. QED  BY <1>1, <1>3, <1>4, Zenon DEF LvmInv, Good

-----------------------------------------------------------------------------
(* The controller *)

\* A step of the handler at work on n: the LV it leaves, the step it goes to, and what
\* the caller asks or is told.
LEMMA CallStep ==
    ASSUME Types, NEW n \in Obj, NEW l, NEW to, l = None \/ l \in LV,
           lv' = [lv EXCEPT ![n] = l], ctl' = [ctl EXCEPT ![n] = to],
           src' = src, UNCHANGED mountVars,
           wanted' \in {wanted, wanted \cup {n}},
           acked' \in {acked, acked \cup {n}}, acked' = acked \/ n \in wanted,
           delWanted' \in {delWanted, delWanted \cup {n}}, delWanted' = delWanted \/ n \in acked,
           gone' \in {gone, gone \cup {n}}, gone' = gone \/ n \in delWanted,
           snapOf' = snapOf \/ (n \in Snap /\ \E v : snapOf' = [snapOf EXCEPT ![n] = v]),
           cap' = cap \/ (n \in Vol /\ \E c \in Nat : cap' = [cap EXCEPT ![n] = c]),
           growing' \in {growing, growing \cup {n}}
    PROVE  /\ Types' /\ Apart(n) /\ lv'[n] = l /\ ctl'[n] = to
           /\ UNCHANGED <<node, using, staged, published>>
<1>0. UNCHANGED <<node, using, staged, published>>
  BY Zenon DEF mountVars
<1>1. /\ On(Obj, lv)' /\ lv'[n] = l /\ On(Obj, ctl)' /\ ctl'[n] = to
      /\ \A m \in Obj \ {n} : lv'[m] = lv[m] /\ ctl'[m] = ctl[m]
  BY Zenon DEF Types, On
<1>2. \A m \in Obj : lv'[m] # None => lv'[m] \in LV
  BY <1>1, Zenon DEF Types
<1>3. On(Snap, snapOf)' /\ \A s \in Snap \ {n} : snapOf'[s] = snapOf[s]
  BY Zenon DEF Types, On
<1>4. cap' \in [Vol -> Nat] /\ \A v \in Vol \ {n} : cap'[v] = cap[v]
  BY DEF Types, On
<1>5. /\ wanted' \subseteq Obj /\ acked' \subseteq wanted' /\ delWanted' \subseteq acked'
      /\ gone' \subseteq delWanted'
  BY Zenon DEF Types
<1>6. Types'
  BY <1>0, <1>1, <1>2, <1>3, <1>4, <1>5, Zenon DEF Types, On
<1>7. \A m \in Obj \ {n} : /\ m \in wanted' <=> m \in wanted
                           /\ m \in acked' <=> m \in acked
                           /\ m \in delWanted' <=> m \in delWanted
                           /\ m \in gone' <=> m \in gone
                           /\ m \in growing' <=> m \in growing
  OBVIOUS
<1>8. Apart(n)
  <2>1. \A v \in Vol \ {n} : v \in Obj \ {n}
    BY Zenon DEF Obj
  <2>. QED  BY <1>0, <1>1, <1>3, <1>4, <1>7, <2>1, Zenon DEF Apart
<1>. QED  BY <1>0, <1>1, <1>6, <1>8, Zenon

\* A step that leaves the volume group alone.
LEMMA Same == ASSUME Types, NEW n \in Obj, lv' = lv
              PROVE  lv' = [lv EXCEPT ![n] = lv[n]] /\ (lv[n] = None \/ lv[n] \in LV)
BY Zenon DEF Types, On

\* Volumes, snapshots and LVs are told apart from each other and from None.
LEMMA Kinds == /\ \A v \in Vol : v \in Obj /\ v \notin Snap /\ v # None
               /\ \A s \in Snap : s \in Obj /\ s \notin Vol /\ s # None
               /\ None \notin LV
BY Instance, Zenon DEF Obj

\* The call itself promises nothing.
LEMMA CreateCallGood == ASSUME LvmInv, NEW v \in Vol, CreateCall(v) PROVE Good(v)
<1>1. /\ ctl[v] = "idle" /\ v \notin acked /\ wanted' = wanted \cup {v}
      /\ ctl' = [ctl EXCEPT ![v] = "lookup"] /\ UNCHANGED <<acked, delWanted, gone>>
      /\ src' = src /\ lv' = lv /\ UNCHANGED mountVars /\ snapOf' = snapOf
      /\ cap' = cap /\ growing' = growing
  BY Zenon DEF CreateCall, Calls!Create, Control, expansion
<1>2. Types /\ Whole(v) /\ v \in Obj /\ v \notin Snap
  BY Kinds, Zenon DEF LvmInv
<1>3. /\ Types' /\ Apart(v) /\ lv'[v] = lv[v] /\ ctl'[v] = "lookup"
      /\ UNCHANGED <<node, using, staged, published>>
  BY <1>1, <1>2, Same, CallStep, Zenon
<1>4. Whole(v)'
  <2>1. Asked(v)'
    BY <1>1, <1>2, <1>3, Zenon DEF Whole, Asked, Making
  <2>2. VolumeMade(v)'
    BY <1>1, <1>2, <1>3, Zenon DEF Whole, VolumeMade
  <2>3. OnNode(v)'
    BY <1>1, <1>2, <1>3, Zenon DEF Whole, OnNode, Filled
  <2>. QED  BY <1>2, <2>1, <2>2, <2>3, Zenon DEF Whole
<1>5. Made(v)' = Made(v)
  BY <1>1, <1>2, <1>3, Zenon DEF Made
<1>. QED  BY <1>1, <1>3, <1>4, <1>5, Zenon DEF Good, Shown, KeepsData

\* A command of a handler, or a step without one: the caller learns nothing.
LEMMA Works ==
    ASSUME LvmInv, NEW n \in Obj, NEW l, NEW to, l = None \/ l \in LV,
           lv' = [lv EXCEPT ![n] = l], ctl' = [ctl EXCEPT ![n] = to],
           UNCHANGED <<wanted, acked, delWanted, gone>>, Command
    PROVE  /\ Types /\ Whole(n) /\ Types' /\ Apart(n) /\ lv'[n] = l /\ ctl'[n] = to
           /\ UNCHANGED <<src, snapOf, cap, growing, node, using, staged, wanted, acked, delWanted, gone>>
<1>1. Types /\ Whole(n)
  BY Zenon DEF LvmInv
<1>2. src' = src /\ UNCHANGED mountVars /\ snapOf' = snapOf /\ cap' = cap /\ growing' = growing
  BY Zenon DEF Command, expansion
<1>3. Types' /\ Apart(n) /\ lv'[n] = l /\ ctl'[n] = to /\ UNCHANGED <<node, using, staged, published>>
  BY <1>1, <1>2, CallStep, Zenon
<1>. QED  BY <1>1, <1>2, <1>3, Zenon

\* CreateVolume's own steps: the volume is not acknowledged, so nothing is promised yet.
LEMMA CreateGood ==
    ASSUME LvmInv, NEW v \in Vol, NEW l, NEW to, l = None \/ l \in LV,
           lv' = [lv EXCEPT ![v] = l], ctl' = [ctl EXCEPT ![v] = to],
           UNCHANGED <<wanted, acked, delWanted, gone>>, Command,
           ctl[v] \in Making,
           to \in {"idle", "plain", "clone", "activate", "extend", "reply"},
           l # None => l.from = src[v],
           to \in {"plain", "clone"} => l = None /\ (to = "plain" <=> src[v] = None),
           to \in {"activate", "extend", "reply"} => l # None,
           to = "reply" => l.size >= ReqSize[v],
           lv[v] = None \/ (l # None /\ l.fs = lv[v].fs)
    PROVE  Good(v)
<1>1. v \in Obj /\ v \notin Snap
  BY Kinds, Zenon
<1>2. /\ Types /\ Whole(v) /\ Types' /\ Apart(v) /\ lv'[v] = l /\ ctl'[v] = to
      /\ UNCHANGED <<src, snapOf, cap, growing, node, using, staged, wanted, acked, delWanted, gone>>
  BY <1>1, Works, Zenon
<1>3. /\ v \in wanted \ acked /\ v \notin delWanted /\ v \notin gone /\ v \notin using
      /\ v \notin staged /\ node[v] = "idle"
  BY <1>2, Zenon DEF Types, Whole, Asked, OnNode
<1>4. Asked(v)'
  BY <1>2, <1>3, Zenon DEF Asked, Making
<1>5. VolumeMade(v)'
  BY <1>2, <1>3, Zenon DEF VolumeMade
<1>6. OnNode(v)'
  BY <1>2, <1>3, Zenon DEF OnNode
<1>7. Whole(v)'
  BY <1>1, <1>4, <1>5, <1>6, Zenon DEF Whole
<1>8. KeepsData(v)
  BY <1>2, Zenon DEF KeepsData
<1>. QED  BY <1>2, <1>3, <1>7, <1>8, Zenon DEF Good, Shown

\* An LV an earlier attempt left is of the right source, and used when it is large enough.
LEMMA CreateLookupGood == ASSUME LvmInv, NEW v \in Vol, CreateLookup(v) PROVE Good(v)
<1>1. PICK to : to = IF lv[v] = None THEN IF IsClone(v) THEN "clone" ELSE "plain"
                     ELSE IF lv[v].size >= ReqSize[v] THEN "reply"
                     ELSE IF IsClone(v) THEN "extend" ELSE "idle"
  OBVIOUS
<1>2. /\ ctl[v] = "lookup" /\ ctl' = [ctl EXCEPT ![v] = to]
      /\ UNCHANGED <<wanted, acked, delWanted, gone>> /\ Command /\ lv' = lv
  BY <1>1, Zenon DEF CreateLookup, Calls!Step, Control, Command
<1>3. Types /\ Whole(v) /\ v \in Obj
  BY Kinds, Zenon DEF LvmInv
<1>4. lv' = [lv EXCEPT ![v] = lv[v]] /\ (lv[v] = None \/ lv[v] \in LV)
  BY <1>2, <1>3, Same, Zenon
<1>5. /\ to \in {"idle", "plain", "clone", "activate", "extend", "reply"}
      /\ to \in {"plain", "clone"} => lv[v] = None /\ (to = "plain" <=> src[v] = None)
      /\ to \in {"activate", "extend", "reply"} => lv[v] # None
      /\ to = "reply" => lv[v].size >= ReqSize[v]
  BY <1>1, Zenon DEF IsClone
<1>6. lv[v] # None => lv[v].from = src[v]
  BY <1>3, Zenon DEF Whole, VolumeMade
<1>7. ctl[v] \in Making
  BY <1>2, Zenon DEF Making
<1>. QED  BY <1>2, <1>4, <1>5, <1>6, <1>7, CreateGood, Zenon

\* lvcreate runs where lvs found no LV, so it replaces none.
LEMMA CreatePlainGood == ASSUME LvmInv, NEW v \in Vol, CreatePlain(v) PROVE Good(v)
<1>1. PICK l : l = [size |-> ReqSize[v], thin |-> v \in Pool, active |-> TRUE, from |-> None,
                    tag |-> None, fs |-> 0, fsSize |-> 0]
  BY Zenon
<1>2. /\ ctl[v] = "plain" /\ ctl' = [ctl EXCEPT ![v] = "reply"]
      /\ UNCHANGED <<wanted, acked, delWanted, gone>> /\ Command /\ lv' = [lv EXCEPT ![v] = l]
  BY <1>1, Zenon DEF CreatePlain, Calls!Step
<1>3. Types /\ Whole(v) /\ v \in Obj
  BY Kinds, Zenon DEF LvmInv
<1>4. lv[v] = None /\ src[v] = None
  BY <1>2, <1>3, Zenon DEF Whole, VolumeMade
<1>5. l \in LV /\ l.from = None /\ l.size >= ReqSize[v]
  <2>1. ReqSize[v] \in Nat
    BY Instance
  <2>2. (v \in Pool) \in BOOLEAN
    OBVIOUS
  <2>. QED  BY <1>1, <2>1, <2>2 DEF LV
<1>6. l # None /\ ctl[v] \in Making
  BY <1>2, <1>5, Kinds, Zenon DEF Making
<1>. QED  BY <1>2, <1>4, <1>5, <1>6, CreateGood, Zenon

\* lvcreate -s takes the source of the request.
LEMMA CreateCloneGood == ASSUME LvmInv, NEW v \in Vol, CreateClone(v) PROVE Good(v)
<1>1. /\ ctl[v] = "clone" /\ UNCHANGED <<wanted, acked, delWanted, gone>> /\ Command
  BY Zenon DEF CreateClone, Calls!Step
<1>2. Types /\ Whole(v) /\ v \in Obj
  BY Kinds, Zenon DEF LvmInv
<1>3. lv[v] = None /\ src[v] # None
  BY <1>1, <1>2, Zenon DEF Whole, VolumeMade
<1>4. ctl[v] \in Making
  BY <1>1, Zenon DEF Making
<1>5. CASE ~IsThin(src[v])
  <2>1. lv' = lv /\ ctl' = [ctl EXCEPT ![v] = "idle"]
    BY <1>5, Zenon DEF CreateClone, Calls!Step
  <2>2. lv' = [lv EXCEPT ![v] = lv[v]]
    BY <1>2, <2>1, Same, Zenon
  <2>. QED  BY <1>1, <1>3, <1>4, <2>1, <2>2, CreateGood, Zenon
<1>6. CASE IsThin(src[v])
  <2>1. PICK l : l = [lv[src[v]] EXCEPT !.active = FALSE, !.from = src[v], !.tag = None]
    OBVIOUS
  <2>2. lv' = [lv EXCEPT ![v] = l] /\ ctl' = [ctl EXCEPT ![v] = "activate"]
    BY <1>6, <2>1, Zenon DEF CreateClone, Calls!Step
  <2>3. src[v] \in Obj
    BY <1>2, <1>3, Instance, Zenon DEF Types
  <2>4. lv[src[v]] \in LV
    BY <1>2, <1>6, <2>3, Zenon DEF IsThin, Types
  <2>5. l \in LV /\ l.from = src[v]
    BY <2>1, <2>3, <2>4, Zenon DEF LV
  <2>6. l # None
    BY <2>5, Kinds, Zenon
  <2>. QED  BY <1>1, <1>3, <1>4, <2>2, <2>5, <2>6, CreateGood, Zenon
<1>. QED  BY <1>5, <1>6, Zenon

\* lvextend never shrinks.
LEMMA Largest == \A a, b \in Nat : Larger(a, b) \in Nat /\ Larger(a, b) >= a /\ Larger(a, b) >= b
BY DEF Larger

\* lvchange and lvextend keep what the LV holds.
LEMMA CreateActivateGood ==
    ASSUME LvmInv, NEW v \in Vol, CreateActivate(v) \/ CreateExtend(v)
    PROVE  Good(v)
<1>1. /\ ctl[v] \in {"activate", "extend"} /\ UNCHANGED <<wanted, acked, delWanted, gone>> /\ Command
  BY Zenon DEF CreateActivate, CreateExtend, Calls!Step
<1>2. Types /\ Whole(v) /\ v \in Obj
  BY Kinds, Zenon DEF LvmInv
<1>3. lv[v] # None /\ lv[v] \in LV /\ lv[v].from = src[v]
  BY <1>1, <1>2, Zenon DEF Types, Whole, VolumeMade
<1>4. ctl[v] \in Making
  BY <1>1, Zenon DEF Making
<1>5. CASE CreateActivate(v)
  <2>1. PICK l : l = [lv[v] EXCEPT !.active = TRUE]
    BY Zenon
  <2>2. lv' = [lv EXCEPT ![v] = l] /\ ctl' = [ctl EXCEPT ![v] = "extend"]
    BY <1>5, <2>1, Zenon DEF CreateActivate, Calls!Step
  <2>3. l \in LV /\ l.from = src[v] /\ l.fs = lv[v].fs
    BY <1>3, <2>1, Zenon DEF LV
  <2>4. l # None
    BY <2>3, Kinds, Zenon
  <2>. QED  BY <1>1, <1>3, <1>4, <2>2, <2>3, <2>4, CreateGood, Zenon
<1>6. CASE CreateExtend(v)
  <2>1. PICK l : l = [lv[v] EXCEPT !.size = Larger(lv[v].size, ReqSize[v])]
    BY Zenon
  <2>2. lv' = [lv EXCEPT ![v] = l] /\ ctl' = [ctl EXCEPT ![v] = "reply"]
    BY <1>6, <2>1, Zenon DEF CreateExtend, Calls!Step
  <2>3. lv[v].size \in Nat /\ ReqSize[v] \in Nat
    BY <1>3, Instance DEF LV
  <2>4. l \in LV /\ l.from = src[v] /\ l.fs = lv[v].fs /\ l.size >= ReqSize[v]
    BY <1>3, <2>1, <2>3, Largest, Zenon DEF LV
  <2>5. l # None
    BY <2>4, Kinds, Zenon
  <2>. QED  BY <1>1, <1>3, <1>4, <2>2, <2>4, <2>5, CreateGood, Zenon
<1>. QED  BY <1>5, <1>6, Zenon

\* The response comes when the volume is whole.
LEMMA CreateReplyGood == ASSUME LvmInv, NEW v \in Vol, CreateReply(v) PROVE Good(v)
<1>1. /\ ctl[v] = "reply" /\ acked' = acked \cup {v} /\ ctl' = [ctl EXCEPT ![v] = "idle"]
      /\ UNCHANGED <<wanted, delWanted, gone>> /\ cap' = [cap EXCEPT ![v] = lv[v].size]
      /\ lv' = lv /\ src' = src /\ UNCHANGED mountVars /\ snapOf' = snapOf /\ growing' = growing
  BY Zenon DEF CreateReply, Calls!Reply, Control
<1>2. Types /\ Whole(v) /\ v \in Obj /\ v \notin Snap
  BY Kinds, Zenon DEF LvmInv
<1>3. v \in wanted \ acked /\ lv[v] # None /\ lv[v].size >= ReqSize[v] /\ lv[v].from = src[v]
  BY <1>1, <1>2, Zenon DEF Whole, Asked, VolumeMade, Making
<1>4. lv[v].size \in Nat
  BY <1>2, <1>3, Zenon DEF Types, LV
<1>5. v \notin using /\ v \notin staged /\ node[v] = "idle"
  BY <1>2, <1>3, Zenon DEF Types, Whole, OnNode
<1>6. lv' = [lv EXCEPT ![v] = lv[v]] /\ (lv[v] = None \/ lv[v] \in LV)
  BY <1>1, <1>2, Same, Zenon
<1>7. /\ Types' /\ Apart(v) /\ lv'[v] = lv[v] /\ ctl'[v] = "idle"
      /\ UNCHANGED <<node, using, staged, published>>
  BY <1>1, <1>2, <1>3, <1>4, <1>6, CallStep, Zenon
<1>8. Asked(v)'
  BY <1>1, <1>2, <1>3, <1>7, Zenon DEF Types, Whole, Asked, Making
<1>9. VolumeMade(v)'
  BY <1>1, <1>3, <1>7, Zenon DEF VolumeMade
<1>10. OnNode(v)'
  BY <1>5, <1>7, Zenon DEF OnNode
<1>11. Whole(v)'
  BY <1>2, <1>8, <1>9, <1>10, Zenon DEF Whole
<1>12. Made(v) = "ready" /\ Made(v)' = "ready"
  BY <1>1, <1>2, <1>3, <1>7, Zenon DEF Made
<1>. QED  BY <1>1, <1>3, <1>7, <1>11, <1>12, Zenon DEF Good, Shown, KeepsData

\* A deletion is asked for only of what no node uses.
LEMMA DeleteCallGood == ASSUME LvmInv, NEW n \in Obj, DeleteCall(n) PROVE Good(n)
<1>1. /\ ctl[n] = "idle" /\ n \in acked \ gone /\ n \notin using
      /\ delWanted' = delWanted \cup {n} /\ ctl' = [ctl EXCEPT ![n] = "remove"]
      /\ UNCHANGED <<wanted, acked, gone>> /\ cap' = cap
      /\ lv' = lv /\ src' = src /\ UNCHANGED mountVars /\ snapOf' = snapOf /\ growing' = growing
  BY Zenon DEF DeleteCall, Calls!Delete, Control, expansion
<1>2. Types /\ Whole(n)
  BY Zenon DEF LvmInv
<1>3. lv' = [lv EXCEPT ![n] = lv[n]] /\ (lv[n] = None \/ lv[n] \in LV)
  BY <1>1, <1>2, Same, Zenon
<1>4. /\ Types' /\ Apart(n) /\ lv'[n] = lv[n] /\ ctl'[n] = "remove"
      /\ UNCHANGED <<node, using, staged, published>>
  BY <1>1, <1>2, <1>3, CallStep, Zenon
<1>5. Asked(n)'
  BY <1>1, <1>2, <1>4, Zenon DEF Types, Whole, Asked, Making
<1>6. ASSUME n \in Vol PROVE VolumeMade(n)' /\ OnNode(n)'
  <2>1. VolumeMade(n)'
    BY <1>1, <1>2, <1>4, <1>6, Zenon DEF Whole, VolumeMade
  <2>2. OnNode(n)'
    BY <1>1, <1>2, <1>4, <1>6, Zenon DEF Types, Whole, OnNode
  <2>. QED  BY <2>1, <2>2, Zenon
<1>7. ASSUME n \in Snap PROVE SnapshotMade(n)'
  BY <1>1, <1>2, <1>4, <1>7, Zenon DEF Whole, SnapshotMade
<1>8. Whole(n)'
  BY <1>5, <1>6, <1>7, Zenon DEF Whole
<1>9. Made(n)' = Made(n)
  BY <1>1, <1>4, Zenon DEF Made
<1>. QED  BY <1>1, <1>4, <1>8, <1>9, Zenon DEF Good, Shown, KeepsData

\* lvremove is the one command that takes an object away.
LEMMA DeleteRemoveGood == ASSUME LvmInv, NEW n \in Obj, DeleteRemove(n) PROVE Good(n)
<1>1. /\ ctl[n] = "remove" /\ lv' = [lv EXCEPT ![n] = None] /\ ctl' = [ctl EXCEPT ![n] = "removed"]
      /\ UNCHANGED <<wanted, acked, delWanted, gone>> /\ Command
  BY Zenon DEF DeleteRemove, Calls!Step
<1>2. /\ Types /\ Whole(n) /\ Types' /\ Apart(n) /\ lv'[n] = None /\ ctl'[n] = "removed"
      /\ UNCHANGED <<src, snapOf, cap, growing, node, using, staged, wanted, acked, delWanted, gone>>
  BY <1>1, Works, Zenon
<1>3. n \in delWanted
  BY <1>1, <1>2, Zenon DEF Whole, Asked
<1>4. Asked(n)'
  BY <1>2, <1>3, Zenon DEF Asked, Making
<1>5. ASSUME n \in Vol PROVE VolumeMade(n)' /\ OnNode(n)'
  <2>1. VolumeMade(n)'
    BY <1>2, <1>3, Zenon DEF VolumeMade
  <2>2. OnNode(n)'
    BY <1>2, <1>3, <1>5, Zenon DEF Types, Whole, OnNode
  <2>. QED  BY <2>1, <2>2, Zenon
<1>6. ASSUME n \in Snap PROVE SnapshotMade(n)'
  BY <1>2, <1>3, Zenon DEF SnapshotMade
<1>7. Whole(n)'
  BY <1>4, <1>5, <1>6, Zenon DEF Whole
<1>8. Made(n)' = "absent"
  BY <1>2, Zenon DEF Made
<1>. QED  BY <1>2, <1>3, <1>7, <1>8, Zenon DEF Good, Shown, KeepsData

\* The response of a delete comes when nothing is left.
LEMMA DeleteReplyGood == ASSUME LvmInv, NEW n \in Obj, DeleteReply(n) PROVE Good(n)
<1>1. /\ ctl[n] = "removed" /\ gone' = gone \cup {n} /\ ctl' = [ctl EXCEPT ![n] = "idle"]
      /\ UNCHANGED <<wanted, acked, delWanted>> /\ cap' = cap
      /\ lv' = lv /\ src' = src /\ UNCHANGED mountVars /\ snapOf' = snapOf /\ growing' = growing
  BY Zenon DEF DeleteReply, Calls!DeleteReply, Control, expansion
<1>2. Types /\ Whole(n)
  BY Zenon DEF LvmInv
<1>3. n \in delWanted /\ lv[n] = None
  BY <1>1, <1>2, Zenon DEF Whole, Asked
<1>4. lv' = [lv EXCEPT ![n] = lv[n]] /\ (lv[n] = None \/ lv[n] \in LV)
  BY <1>1, <1>2, Same, Zenon
<1>5. /\ Types' /\ Apart(n) /\ lv'[n] = lv[n] /\ ctl'[n] = "idle"
      /\ UNCHANGED <<node, using, staged, published>>
  BY <1>1, <1>2, <1>3, <1>4, CallStep, Zenon
<1>6. Asked(n)'
  BY <1>3, <1>5, Zenon DEF Asked, Making
<1>7. ASSUME n \in Vol PROVE VolumeMade(n)' /\ OnNode(n)'
  <2>1. VolumeMade(n)'
    BY <1>1, <1>3, <1>5, Zenon DEF VolumeMade
  <2>2. OnNode(n)'
    BY <1>1, <1>2, <1>3, <1>5, <1>7, Zenon DEF Types, Whole, OnNode
  <2>. QED  BY <2>1, <2>2, Zenon
<1>8. ASSUME n \in Snap PROVE SnapshotMade(n)'
  BY <1>1, <1>3, <1>5, Zenon DEF SnapshotMade
<1>9. Whole(n)'
  BY <1>6, <1>7, <1>8, Zenon DEF Whole
<1>10. Made(n)' = "absent"
  BY <1>3, <1>5, Zenon DEF Made
<1>. QED  BY <1>1, <1>3, <1>5, <1>9, <1>10, Zenon DEF Good, Shown, KeepsData

\* An expansion is asked of a volume that is held, and held while it runs.
LEMMA ExpandCallGood == ASSUME LvmInv, NEW v \in Vol, ExpandCall(v) PROVE Good(v)
<1>1. /\ ctl[v] = "idle" /\ v \in acked \ delWanted /\ lv' = lv
      /\ ctl' = [ctl EXCEPT ![v] = "grow"]
      /\ UNCHANGED <<wanted, acked, delWanted, gone>> /\ Command
  BY Zenon DEF ExpandCall, Calls!Step, Calls!Held, Control, Command
<1>2. v \in Obj /\ v \notin Snap /\ Types
  BY Kinds, Zenon DEF LvmInv
<1>3. lv' = [lv EXCEPT ![v] = lv[v]] /\ (lv[v] = None \/ lv[v] \in LV)
  BY <1>1, <1>2, Same, Zenon
<1>4. /\ Types /\ Whole(v) /\ Types' /\ Apart(v) /\ lv'[v] = lv[v] /\ ctl'[v] = "grow"
      /\ UNCHANGED <<src, snapOf, cap, growing, node, using, staged, wanted, acked, delWanted, gone>>
  BY <1>1, <1>2, <1>3, Works, Zenon
<1>5. Asked(v)'
  BY <1>1, <1>4, Zenon DEF Whole, Asked, Making
<1>6. VolumeMade(v)'
  BY <1>1, <1>2, <1>4, Zenon DEF Whole, VolumeMade
<1>7. OnNode(v)'
  BY <1>4, Zenon DEF Whole, OnNode, Filled
<1>8. Whole(v)'
  BY <1>2, <1>5, <1>6, <1>7, Zenon DEF Whole
<1>9. Made(v)' = Made(v)
  BY <1>4, Zenon DEF Made
<1>. QED  BY <1>4, <1>8, <1>9, Zenon DEF Good, Shown, KeepsData

\* Once the LV is larger than what the caller was told, its filesystem owes nothing.
LEMMA ExpandGrowGood == ASSUME LvmInv, NEW v \in Vol, ExpandGrow(v) PROVE Good(v)
<1>1. PICK l : l = [lv[v] EXCEPT !.size = Larger(lv[v].size, cap[v] + 1)]
  BY Zenon
<1>2. /\ ctl[v] = "grow" /\ lv' = [lv EXCEPT ![v] = l] /\ ctl' = [ctl EXCEPT ![v] = "grown"]
      /\ UNCHANGED <<wanted, acked, delWanted, gone>> /\ Command
  BY <1>1, Zenon DEF ExpandGrow, Calls!Step
<1>3. v \in Obj /\ v \notin Snap /\ Types /\ Whole(v)
  BY Kinds, Zenon DEF LvmInv
<1>4. v \in acked \ delWanted
  BY <1>2, <1>3, Zenon DEF Whole, Asked
<1>5. lv[v] # None /\ lv[v] \in LV /\ lv[v].size >= ReqSize[v] /\ lv[v].from = src[v]
  BY <1>3, <1>4, Zenon DEF Types, Whole, VolumeMade
<1>6. lv[v].size \in Nat /\ cap[v] \in Nat /\ cap[v] + 1 \in Nat /\ ReqSize[v] \in Nat
  BY <1>3, <1>5, Instance DEF Types, LV
<1>7. l \in LV /\ l.from = lv[v].from /\ l.fs = lv[v].fs /\ l.size = Larger(lv[v].size, cap[v] + 1)
  BY <1>1, <1>5, <1>6, Largest, Zenon DEF LV
<1>8. l.size >= ReqSize[v] /\ l.size # cap[v]
  BY <1>5, <1>6, <1>7, Largest
<1>9. l # None
  BY <1>7, Kinds, Zenon
<1>10. /\ Types' /\ Apart(v) /\ lv'[v] = l /\ ctl'[v] = "grown"
       /\ UNCHANGED <<src, snapOf, cap, growing, node, using, staged, wanted, acked, delWanted, gone>>
  BY <1>2, <1>3, <1>7, Works, ZenonT(30)
<1>11. Asked(v)'
  BY <1>3, <1>4, <1>5, <1>9, <1>10, Zenon DEF Types, Whole, Asked, Making
<1>12. VolumeMade(v)'
  BY <1>5, <1>7, <1>8, <1>9, <1>10, Zenon DEF VolumeMade
<1>13. OnNode(v)'
  BY <1>3, <1>7, <1>8, <1>10, Zenon DEF Whole, OnNode, Filled
<1>14. Whole(v)'
  BY <1>3, <1>11, <1>12, <1>13, Zenon DEF Whole
<1>15. Made(v) = "ready" /\ Made(v)' = "ready"
  BY <1>5, <1>7, <1>8, <1>9, <1>10, Zenon DEF Made
<1>. QED  BY <1>7, <1>10, <1>14, <1>15, Zenon DEF Good, Shown, KeepsData

\* The response makes the node step due.
LEMMA ExpandReplyGood == ASSUME LvmInv, NEW v \in Vol, ExpandReply(v) PROVE Good(v)
<1>1. /\ ctl[v] = "grown" /\ ctl' = [ctl EXCEPT ![v] = "idle"]
      /\ UNCHANGED <<wanted, acked, delWanted, gone>> /\ cap' = [cap EXCEPT ![v] = lv[v].size]
      /\ growing' = growing \cup {v}
      /\ lv' = lv /\ src' = src /\ UNCHANGED mountVars /\ snapOf' = snapOf
  BY Zenon DEF ExpandReply, Calls!Step, Control
<1>2. Types /\ Whole(v) /\ v \in Obj /\ v \notin Snap
  BY Kinds, Zenon DEF LvmInv
<1>3. v \in acked \ delWanted
  BY <1>1, <1>2, Zenon DEF Whole, Asked
<1>4. lv[v] # None /\ lv[v] \in LV
  BY <1>2, <1>3, Zenon DEF Types, Whole, VolumeMade
<1>5. lv' = [lv EXCEPT ![v] = lv[v]] /\ lv[v].size \in Nat
  BY <1>1, <1>2, <1>4, Same, Zenon DEF LV
<1>6. /\ Types' /\ Apart(v) /\ lv'[v] = lv[v] /\ ctl'[v] = "idle"
      /\ UNCHANGED <<node, using, staged, published>>
  BY <1>1, <1>2, <1>4, <1>5, CallStep, Zenon
<1>7. Asked(v)'
  BY <1>1, <1>2, <1>4, <1>6, Zenon DEF Whole, Asked, Making
<1>8. VolumeMade(v)'
  BY <1>1, <1>2, <1>3, <1>6, Zenon DEF Whole, VolumeMade
<1>9. OnNode(v)'
  BY <1>1, <1>2, <1>6, Zenon DEF Whole, OnNode, Filled
<1>10. Whole(v)'
  BY <1>2, <1>7, <1>8, <1>9, Zenon DEF Whole
<1>11. Made(v)' = Made(v)
  BY <1>1, <1>6, Zenon DEF Made
<1>. QED  BY <1>1, <1>6, <1>10, <1>11, Zenon DEF Good, Shown, KeepsData

\* A retry may name another source: what an earlier attempt left is then not of it.
LEMMA SnapCallGood == ASSUME LvmInv, NEW s \in Snap, NEW v \in Vol, SnapCall(s, v) PROVE Good(s)
<1>1. /\ ctl[s] = "idle" /\ s \notin acked /\ wanted' = wanted \cup {s}
      /\ ctl' = [ctl EXCEPT ![s] = "check"] /\ UNCHANGED <<acked, delWanted, gone>>
      /\ src' = src /\ lv' = lv /\ UNCHANGED mountVars /\ snapOf' = [snapOf EXCEPT ![s] = v]
      /\ cap' = cap /\ growing' = growing
  BY Zenon DEF SnapCall, Calls!Create, Control, expansion
<1>2. Types /\ Whole(s) /\ s \in Obj /\ s \notin Vol
  BY Kinds, Zenon DEF LvmInv
<1>3. lv' = [lv EXCEPT ![s] = lv[s]] /\ (lv[s] = None \/ lv[s] \in LV)
  BY <1>1, <1>2, Same, Zenon
<1>4. /\ Types' /\ Apart(s) /\ lv'[s] = lv[s] /\ ctl'[s] = "check"
      /\ UNCHANGED <<node, using, staged, published>>
  BY <1>1, <1>2, <1>3, CallStep, Zenon
<1>5. snapOf'[s] = v
  BY <1>1, <1>2, Zenon DEF Types, On
<1>6. Asked(s)'
  BY <1>1, <1>2, <1>4, Zenon DEF Types, Whole, Asked, Making
<1>7. SnapshotMade(s)'
  BY <1>1, <1>2, <1>4, <1>5, Zenon DEF Types, Whole, SnapshotMade
<1>8. Whole(s)'
  BY <1>2, <1>6, <1>7, Zenon DEF Whole
<1>9. CASE s \in wanted
  <2>1. wanted' = wanted
    BY <1>1, <1>9, Zenon
  <2>. QED  BY <1>1, <1>4, <1>8, <1>9, <2>1, Zenon DEF Good, Shown, KeepsData
<1>10. CASE s \notin wanted
  <2>1. lv[s] = None
    BY <1>2, <1>10, Zenon DEF Whole, Asked
  <2>2. Made(s)' = Made(s)
    BY <1>4, <2>1, Zenon DEF Made
  <2>. QED  BY <1>1, <1>4, <1>8, <2>2, Zenon DEF Good, Shown, KeepsData
<1>. QED  BY <1>9, <1>10, Zenon

\* CreateSnapshot's own steps.
LEMMA SnapGood ==
    ASSUME LvmInv, NEW s \in Snap, NEW l, NEW to, l = None \/ l \in LV,
           lv' = [lv EXCEPT ![s] = l], ctl' = [ctl EXCEPT ![s] = to],
           UNCHANGED <<wanted, acked, delWanted, gone>>, Command,
           ctl[s] \in {"check", "snap"}, to \in {"idle", "snap", "reply"},
           l # None => l.from \in Vol /\ l.tag = l.from,
           to = "snap" => l = None \/ l.from = snapOf[s],
           to = "reply" => l # None /\ l.from = snapOf[s],
           lv[s] = None \/ l = lv[s]
    PROVE  Good(s)
<1>1. s \in Obj /\ s \notin Vol
  BY Kinds, Zenon
<1>2. /\ Types /\ Whole(s) /\ Types' /\ Apart(s) /\ lv'[s] = l /\ ctl'[s] = to
      /\ UNCHANGED <<src, snapOf, cap, growing, node, using, staged, wanted, acked, delWanted, gone>>
  BY <1>1, Works, Zenon
<1>3. /\ s \in wanted \ acked /\ s \notin delWanted /\ s \notin gone /\ snapOf[s] \in Vol
  BY <1>2, Zenon DEF Types, Whole, Asked, SnapshotMade, Making
<1>4. Asked(s)'
  BY <1>2, <1>3, Zenon DEF Asked, Making
<1>5. SnapshotMade(s)'
  BY <1>2, <1>3, Zenon DEF SnapshotMade
<1>6. Whole(s)'
  BY <1>1, <1>4, <1>5, Zenon DEF Whole
<1>7. KeepsData(s)
  BY <1>2, Zenon DEF KeepsData
<1>. QED  BY <1>2, <1>3, <1>6, <1>7, Zenon DEF Good, Shown

\* A snapshot of this name is gone on with only if it is of the same source.
LEMMA SnapCheckGood == ASSUME LvmInv, NEW s \in Snap, SnapCheck(s) PROVE Good(s)
<1>1. PICK to : to = IF IsThin(snapOf[s]) /\ (lv[s] = None \/ Origin(s) = snapOf[s])
                     THEN "snap" ELSE "idle"
  OBVIOUS
<1>2. /\ ctl[s] = "check" /\ ctl' = [ctl EXCEPT ![s] = to]
      /\ UNCHANGED <<wanted, acked, delWanted, gone>> /\ Command /\ lv' = lv
  BY <1>1, Zenon DEF SnapCheck, Calls!Step, Control, Command
<1>3. Types /\ Whole(s) /\ s \in Obj
  BY Kinds, Zenon DEF LvmInv
<1>4. lv' = [lv EXCEPT ![s] = lv[s]] /\ (lv[s] = None \/ lv[s] \in LV)
  BY <1>2, <1>3, Same, Zenon
<1>5. snapOf[s] \in Vol /\ snapOf[s] # None
  BY <1>2, <1>3, Kinds, Zenon DEF Whole, SnapshotMade
<1>6. to = "snap" => lv[s] = None \/ lv[s].from = snapOf[s]
  BY <1>1, <1>5, Zenon DEF Origin
<1>7. lv[s] # None => lv[s].from \in Vol /\ lv[s].tag = lv[s].from
  BY <1>3, Zenon DEF Whole, SnapshotMade
<1>8. to \in {"idle", "snap"}
  BY <1>1, Zenon
<1>. QED  BY <1>2, <1>4, <1>6, <1>7, <1>8, SnapGood, Zenon

\* lvcreate -s --addtag, once.
LEMMA SnapCreateGood == ASSUME LvmInv, NEW s \in Snap, SnapCreate(s) PROVE Good(s)
<1>1. ctl[s] = "snap" /\ UNCHANGED <<wanted, acked, delWanted, gone>> /\ Command
  BY Zenon DEF SnapCreate, Calls!Step
<1>2. Types /\ Whole(s) /\ s \in Obj
  BY Kinds, Zenon DEF LvmInv
<1>3. /\ snapOf[s] \in Vol /\ snapOf[s] \in Obj
      /\ lv[s] # None => lv[s].from \in Vol /\ lv[s].tag = lv[s].from /\ lv[s].from = snapOf[s]
  BY <1>1, <1>2, Kinds, Zenon DEF Whole, SnapshotMade
<1>4. CASE lv[s] # None
  <2>1. lv' = lv /\ ctl' = [ctl EXCEPT ![s] = "reply"]
    BY <1>4, Zenon DEF SnapCreate, Calls!Step
  <2>2. lv' = [lv EXCEPT ![s] = lv[s]] /\ (lv[s] = None \/ lv[s] \in LV)
    BY <1>2, <2>1, Same, Zenon
  <2>. QED  BY <1>1, <1>3, <1>4, <2>1, <2>2, SnapGood, Zenon
<1>5. CASE lv[s] = None /\ lv[snapOf[s]] = None
  <2>1. lv' = lv /\ ctl' = [ctl EXCEPT ![s] = "idle"]
    BY <1>5, Zenon DEF SnapCreate, Calls!Step
  <2>2. lv' = [lv EXCEPT ![s] = lv[s]] /\ (lv[s] = None \/ lv[s] \in LV)
    BY <1>2, <2>1, Same, Zenon
  <2>. QED  BY <1>1, <1>5, <2>1, <2>2, SnapGood, Zenon
<1>6. CASE lv[s] = None /\ lv[snapOf[s]] # None
  <2>1. PICK l : l = [lv[snapOf[s]] EXCEPT !.active = FALSE, !.from = snapOf[s], !.tag = snapOf[s]]
    OBVIOUS
  <2>2. lv' = [lv EXCEPT ![s] = l] /\ ctl' = [ctl EXCEPT ![s] = "reply"]
    BY <1>6, <2>1, Zenon DEF SnapCreate, Calls!Step
  <2>3. lv[snapOf[s]] \in LV
    BY <1>2, <1>3, <1>6, Zenon DEF Types
  <2>4. l \in LV /\ l.from = snapOf[s] /\ l.tag = snapOf[s]
    BY <1>3, <2>1, <2>3, Zenon DEF LV
  <2>5. l # None
    BY <2>4, Kinds, Zenon
  <2>. QED  BY <1>1, <1>3, <1>6, <2>2, <2>4, <2>5, SnapGood, Zenon
<1>. QED  BY <1>4, <1>5, <1>6, Zenon

\* The response comes when the snapshot is one of its source.
LEMMA SnapReplyGood == ASSUME LvmInv, NEW s \in Snap, SnapReply(s) PROVE Good(s)
<1>1. /\ ctl[s] = "reply" /\ acked' = acked \cup {s} /\ ctl' = [ctl EXCEPT ![s] = "idle"]
      /\ UNCHANGED <<wanted, delWanted, gone>> /\ cap' = cap
      /\ lv' = lv /\ src' = src /\ UNCHANGED mountVars /\ snapOf' = snapOf /\ growing' = growing
  BY Zenon DEF SnapReply, Calls!Reply, Control, expansion
<1>2. Types /\ Whole(s) /\ s \in Obj /\ s \notin Vol
  BY Kinds, Zenon DEF LvmInv
<1>3. s \in wanted \ acked /\ lv[s] # None /\ lv[s].from = snapOf[s]
  BY <1>1, <1>2, Zenon DEF Whole, Asked, SnapshotMade, Making
<1>4. lv' = [lv EXCEPT ![s] = lv[s]] /\ (lv[s] = None \/ lv[s] \in LV)
  BY <1>1, <1>2, Same, Zenon
<1>5. /\ Types' /\ Apart(s) /\ lv'[s] = lv[s] /\ ctl'[s] = "idle"
      /\ UNCHANGED <<node, using, staged, published>>
  BY <1>1, <1>2, <1>3, <1>4, CallStep, Zenon
<1>6. Asked(s)'
  BY <1>1, <1>2, <1>3, <1>5, Zenon DEF Types, Whole, Asked, Making
<1>7. SnapshotMade(s)'
  BY <1>1, <1>2, <1>3, <1>5, Zenon DEF Whole, SnapshotMade
<1>8. Whole(s)'
  BY <1>2, <1>6, <1>7, Zenon DEF Whole
<1>9. Made(s) = "ready" /\ Made(s)' = "ready"
  BY <1>1, <1>2, <1>3, <1>5, Zenon DEF Made
<1>. QED  BY <1>1, <1>3, <1>5, <1>8, <1>9, Zenon DEF Good, Shown, KeepsData

\* A handler that dies leaves the LV as its last command did.
LEMMA InterruptGood ==
    ASSUME LvmInv, NEW n \in Obj, Calls!Interrupt(n), UNCHANGED mountVars,
           UNCHANGED <<src, lv, snapOf, expansion>>
    PROVE  Good(n)
<1>1. /\ ctl' = [ctl EXCEPT ![n] = "idle"] /\ UNCHANGED <<wanted, acked, delWanted, gone>>
      /\ cap' = cap /\ growing' = growing
  BY Zenon DEF Calls!Interrupt, expansion
<1>2. Types /\ Whole(n)
  BY Zenon DEF LvmInv
<1>3. lv' = [lv EXCEPT ![n] = lv[n]] /\ (lv[n] = None \/ lv[n] \in LV)
  BY <1>2, Same, Zenon
<1>4. /\ Types' /\ Apart(n) /\ lv'[n] = lv[n] /\ ctl'[n] = "idle"
      /\ UNCHANGED <<node, using, staged, published>>
  BY <1>1, <1>2, <1>3, CallStep, Zenon
<1>5. Asked(n)'
  BY <1>1, <1>2, <1>4, Zenon DEF Whole, Asked, Making
<1>6. ASSUME n \in Vol PROVE VolumeMade(n)' /\ OnNode(n)'
  <2>1. VolumeMade(n)'
    BY <1>1, <1>2, <1>4, <1>6, Zenon DEF Whole, VolumeMade
  <2>2. OnNode(n)'
    BY <1>1, <1>2, <1>4, <1>6, Zenon DEF Whole, OnNode, Filled
  <2>. QED  BY <2>1, <2>2, Zenon
<1>7. ASSUME n \in Snap PROVE SnapshotMade(n)'
  BY <1>1, <1>2, <1>4, <1>7, Zenon DEF Whole, SnapshotMade
<1>8. Whole(n)'
  BY <1>5, <1>6, <1>7, Zenon DEF Whole
<1>9. Made(n)' = Made(n)
  BY <1>4, Zenon DEF Made
<1>. QED  BY <1>1, <1>4, <1>8, <1>9, Zenon DEF Good, Shown, KeepsData

-----------------------------------------------------------------------------
(* The node *)

\* The controller has no part in it.
Aside == UNCHANGED <<src, snapOf, callVars>>

\* A node's step on v may format the LV or grow its filesystem, no more.
LEMMA NodeGood ==
    ASSUME LvmInv, NEW v \in Vol, NEW l, NEW to,
           lv' = [lv EXCEPT ![v] = l], node' = [node EXCEPT ![v] = to], Aside, cap' = cap,
           l = lv[v] \/ /\ lv[v] # None /\ l \in LV /\ l.size = lv[v].size /\ l.from = lv[v].from
                        /\ lv[v].fs # 0 /\ faults' = faults => l.fs = lv[v].fs,
           growing' \in {growing, growing \ {v}},
           using' \in {using, using \cup {v}, using \ {v}},
           staged' \in {staged, staged \cup {v}, staged \ {v}}, staged' \subseteq using',
           published' \subseteq using',
           v \in using' => v \in acked \ delWanted,
           to # "idle" => v \in using',
           v \in staged' \/ to \in {"mount", "fill", "staged"} => l.fs # 0,
           v \in staged' \/ to = "staged" =>
              (v \notin growing' /\ cap[v] = l.size => l.fsSize = l.size)
    PROVE  Good(v)
<1>0. v \in Obj /\ v \notin Snap /\ Types /\ Whole(v)
  BY Kinds, Zenon DEF LvmInv
<1>1. src' = src /\ snapOf' = snapOf /\ ctl' = ctl /\ UNCHANGED <<wanted, acked, delWanted, gone>>
  BY Zenon DEF Aside, callVars
<1>2. l = None \/ l \in LV
  BY <1>0, Zenon DEF Types
<1>3. l = lv[v] \/ (lv[v] # None /\ l # None)
  BY Kinds, Zenon
<1>4. /\ On(Obj, lv)' /\ lv'[v] = l /\ On(Vol, node)' /\ node'[v] = to
      /\ \A m \in Obj \ {v} : lv'[m] = lv[m]
      /\ \A w \in Vol \ {v} : node'[w] = node[w]
  BY <1>0, Zenon DEF Types, On
<1>5. \A m \in Obj : lv'[m] # None => lv'[m] \in LV
  BY <1>0, <1>2, <1>4, Zenon DEF Types
<1>6. using' \subseteq Vol
  BY <1>0, Zenon DEF Types
<1>7. Types'
  BY <1>0, <1>1, <1>4, <1>5, <1>6, ZenonT(30) DEF Types, On
<1>8. Apart(v)
  <2>1. \A w \in Vol \ {v} : /\ w \in growing' <=> w \in growing
                             /\ w \in using' <=> w \in using
                             /\ w \in staged' <=> w \in staged
    OBVIOUS
  <2>. QED  BY <1>1, <1>4, <2>1, Zenon DEF Apart
<1>9. Asked(v)'
  BY <1>0, <1>1, <1>3, <1>4, Zenon DEF Whole, Asked
<1>10. VolumeMade(v)'
  BY <1>0, <1>1, <1>3, <1>4, Zenon DEF Whole, VolumeMade
<1>11. OnNode(v)'
  BY <1>1, <1>4, Zenon DEF OnNode, Filled
<1>12. Whole(v)'
  BY <1>0, <1>9, <1>10, <1>11, Zenon DEF Whole
<1>13. Made(v)' = Made(v)
  BY <1>1, <1>3, <1>4, Zenon DEF Made
<1>14. KeepsData(v)
  BY <1>3, <1>4, Zenon DEF KeepsData
<1>. QED  BY <1>1, <1>7, <1>8, <1>12, <1>13, <1>14, Zenon DEF Good, Shown

\* mkfs runs on a device blkid named no filesystem of; NodeStage ends with
\* growFilesystem.
LEMMA StageFormatGood ==
    ASSUME LvmInv, NEW v \in Vol,
           StageFill(v) \/ \E fails \in BOOLEAN : StageFormat(v, fails)
    PROVE  Good(v)
<1>1. /\ node[v] \in {"format", "fill"} /\ Aside /\ cap' = cap /\ growing' = growing
      /\ using' = using /\ staged' = staged /\ published' = published
  BY Zenon DEF StageFormat, Mkfs, Probed, StageFill, NodeGoto, expansion, NodeOnly, Aside
<1>2. v \in Obj /\ Types /\ Whole(v)
  BY Kinds, Zenon DEF LvmInv
<1>3. v \in using /\ v \in acked \ delWanted /\ staged \subseteq using /\ published \subseteq using
  BY <1>1, <1>2, Zenon DEF Types, Whole, OnNode
<1>4. lv[v] # None /\ lv[v] \in LV
  BY <1>2, <1>3, Zenon DEF Types, Whole, VolumeMade
<1>5. /\ v \in staged \/ node[v] = "fill" => lv[v].fs # 0
      /\ v \in staged => (v \notin growing /\ cap[v] = lv[v].size => lv[v].fsSize = lv[v].size)
  BY <1>2, Zenon DEF Whole, OnNode, Filled
<1>6. ASSUME NEW to \in {"mount", "idle"}, lv' = lv, node' = [node EXCEPT ![v] = to],
             to = "mount" => lv[v].fs # 0
      PROVE  Good(v)
  <2>1. lv' = [lv EXCEPT ![v] = lv[v]]
    BY <1>2, <1>6, Same, Zenon
  <2>2. to # "staged" /\ to # "fill"
    BY <1>6, Zenon
  <2>. QED  BY <1>1, <1>3, <1>5, <1>6, <2>1, <2>2, NodeGood, Zenon
<1>7. ASSUME NEW fails \in BOOLEAN, StageFormat(v, fails) PROVE Good(v)
  <2>1. CASE lv[v].active /\ lv[v].fs # 0 /\ ~fails
    <3>1. lv' = lv /\ node' = [node EXCEPT ![v] = "mount"]
      BY <1>7, <2>1, Zenon DEF StageFormat, NodeGoto
    <3>. QED  BY <1>6, <2>1, <3>1, Zenon
  <2>2. CASE ~(lv[v].active /\ lv[v].fs # 0 /\ ~fails) /\ ~(lv[v].active /\ v \notin mnt)
    <3>1. lv' = lv /\ node' = [node EXCEPT ![v] = "idle"]
      BY <1>7, <2>2, Zenon DEF StageFormat, Mkfs, NodeGoto
    <3>. QED  BY <1>6, <3>1, Zenon
  <2>3. CASE ~(lv[v].active /\ lv[v].fs # 0 /\ ~fails) /\ lv[v].active /\ v \notin mnt
    <3>1. PICK l : l = [lv[v] EXCEPT !.fs = @ + 1, !.fsSize = lv[v].size]
      OBVIOUS
    <3>2. lv' = [lv EXCEPT ![v] = l] /\ node' = [node EXCEPT ![v] = "mount"]
      BY <1>7, <2>3, <3>1, Zenon DEF StageFormat, Mkfs, NodeGoto
    <3>3. lv[v].fs \in Nat
      BY <1>4, Zenon DEF LV
    <3>4. lv[v].fs + 1 \in Nat /\ lv[v].fs + 1 # 0
      BY <3>3
    <3>5. l \in LV /\ l.size = lv[v].size /\ l.from = lv[v].from /\ l.fs # 0 /\ l.fsSize = l.size
      BY <1>4, <3>1, <3>4, Zenon DEF LV
    <3>6. lv[v].fs = 0 \/ faults' # faults
      <4>1. CASE fails
        <5>1. faults' = faults + 1
          BY <1>7, <4>1, Zenon DEF StageFormat, Probed
        <5>2. faults \in Nat
          BY Zenon DEF LvmInv
        <5>. QED  BY <5>1, <5>2
      <4>. QED  BY <2>3, <4>1, Zenon
    <3>. QED  BY <1>1, <1>3, <1>4, <3>2, <3>5, <3>6, NodeGood, Zenon
  <2>. QED  BY <2>1, <2>2, <2>3, Zenon
<1>8. CASE StageFill(v)
  <2>1. PICK l : l = [lv[v] EXCEPT !.fsSize = lv[v].size]
    BY Zenon
  <2>2. lv' = [lv EXCEPT ![v] = l] /\ node' = [node EXCEPT ![v] = "staged"] /\ node[v] = "fill"
    BY <1>8, <2>1, Zenon DEF StageFill, NodeGoto
  <2>3. l \in LV /\ l.size = lv[v].size /\ l.from = lv[v].from /\ l.fs = lv[v].fs /\ l.fsSize = l.size
    BY <1>4, <2>1, Zenon DEF LV
  <2>. QED  BY <1>1, <1>3, <1>4, <1>5, <2>2, <2>3, NodeGood, Zenon
<1>. QED  BY <1>7, <1>8, Zenon

\* NodeExpand pays what an expansion owes.
LEMMA NodeExpandGood == ASSUME LvmInv, NEW v \in Vol, NodeExpand(v) PROVE Good(v)
<1>1. PICK l : l = [lv[v] EXCEPT !.fsSize = lv[v].size]
  BY Zenon
<1>2. /\ node[v] = "idle" /\ lv' = [lv EXCEPT ![v] = l] /\ growing' = growing \ {v} /\ Aside
      /\ cap' = cap /\ node' = node /\ using' = using /\ staged' = staged /\ v \in published
      /\ published' = published
  BY <1>1, Zenon DEF NodeExpand, mountVars, NodeOnly, Aside
<1>3. v \in Obj /\ Types /\ Whole(v)
  BY Kinds, Zenon DEF LvmInv
<1>4. node' = [node EXCEPT ![v] = "idle"]
  BY <1>2, <1>3, Zenon DEF Types, On
<1>5. v \in using /\ published' \subseteq using'
  BY <1>2, <1>3, Zenon DEF Types
<1>6. v \in acked \ delWanted /\ staged \subseteq using /\ (v \in staged => lv[v].fs # 0)
  BY <1>3, <1>5, Zenon DEF Types, Whole, OnNode
<1>7. lv[v] # None /\ lv[v] \in LV
  BY <1>3, <1>6, Zenon DEF Types, Whole, VolumeMade
<1>8. l \in LV /\ l.size = lv[v].size /\ l.from = lv[v].from /\ l.fs = lv[v].fs /\ l.fsSize = l.size
  BY <1>1, <1>7, Zenon DEF LV
<1>. QED  BY <1>2, <1>4, <1>5, <1>6, <1>7, <1>8, NodeGood, Zenon

\* The mount calls leave the volume group alone.
LEMMA MountGood ==
    ASSUME LvmInv, NEW v \in Vol, Aside, UNCHANGED <<lv, expansion>>,
           \/ Mounts!StageCall(v, "format") /\ v \in Calls!Held
           \/ Mounts!Mount(v, "fill") \/ Mounts!StageReply(v) \/ Mounts!Unstage(v)
           \/ Mounts!PublishCall(v) \/ Mounts!Bind(v) \/ Mounts!Remount(v) \/ Mounts!Unpublish(v)
           \/ Mounts!Interrupt(v)
    PROVE  Good(v)
<1>1. v \in Obj /\ Types /\ Whole(v) /\ OnNode(v) /\ cap' = cap /\ growing' = growing /\ lv' = lv
  BY Kinds, Zenon DEF LvmInv, Whole, expansion
<1>2. lv' = [lv EXCEPT ![v] = lv[v]] /\ staged \subseteq using /\ published \subseteq using
  BY <1>1, Same, Zenon DEF Types
<1>3. node = [node EXCEPT ![v] = node[v]]
  BY <1>1, Zenon DEF Types, On
<1>4. /\ v \in using => v \in acked \ delWanted
      /\ node[v] # "idle" => v \in using
      /\ v \in staged \/ node[v] \in {"mount", "fill", "staged"} => lv[v].fs # 0
      /\ v \in staged \/ node[v] = "staged" =>
              (v \notin growing /\ cap[v] = lv[v].size => lv[v].fsSize = lv[v].size)
  BY <1>1, Zenon DEF OnNode, Filled
<1>5. CASE Mounts!StageCall(v, "format") /\ v \in Calls!Held
  <2>1. /\ node' = [node EXCEPT ![v] = "format"] /\ using' = using \cup {v} /\ staged' = staged
        /\ published' = published /\ v \notin staged /\ v \in acked \ delWanted
    BY <1>5, Zenon DEF Mounts!StageCall, Mounts!Goto, Calls!Held
  <2>. QED  BY <1>1, <1>2, <1>4, <2>1, NodeGood, Zenon
<1>6. CASE Mounts!Mount(v, "fill")
  <2>1. /\ node[v] = "mount" /\ node' = [node EXCEPT ![v] = "fill"] /\ using' = using
        /\ staged' = staged /\ published' = published
    BY <1>6, Zenon DEF Mounts!Mount, Mounts!Goto
  <2>. QED  BY <1>1, <1>2, <1>4, <2>1, NodeGood, Zenon
<1>7. CASE Mounts!StageReply(v)
  <2>1. /\ node[v] = "staged" /\ node' = [node EXCEPT ![v] = "idle"] /\ using' = using
        /\ staged' = staged \cup {v} /\ published' = published
    BY <1>7, Zenon DEF Mounts!StageReply, Mounts!Goto
  <2>. QED  BY <1>1, <1>2, <1>4, <2>1, NodeGood, Zenon
<1>8. CASE Mounts!Unstage(v)
  <2>1. /\ node[v] = "idle" /\ node' = node /\ using' = using \ {v} /\ staged' = staged \ {v}
        /\ v \notin published /\ published' = published
    BY <1>8, Zenon DEF Mounts!Unstage
  <2>2. /\ staged' \subseteq using' /\ published' \subseteq using'
        /\ v \notin using' /\ v \notin staged'
    BY <1>2, <2>1, Zenon
  <2>. QED  BY <1>1, <1>2, <1>3, <2>1, <2>2, NodeGood, Zenon
<1>9. ASSUME Mounts!PublishCall(v) \/ Mounts!Bind(v) \/ Mounts!Remount(v) \/ Mounts!Unpublish(v)
             \/ Mounts!Interrupt(v)
      PROVE  Good(v)
  <2>1. using' = using /\ staged' = staged
    BY <1>9, Zenon DEF Mounts!PublishCall, Mounts!Bind, Mounts!Remount, Mounts!Unpublish,
        Mounts!Interrupt
  <2>2. \/ node' = [node EXCEPT ![v] = "idle"] \/ node' = node
        \/ node' = [node EXCEPT ![v] = "bind"] /\ v \in staged
        \/ node' = [node EXCEPT ![v] = "remount"] /\ node[v] = "bind"
    BY <1>9, Zenon DEF Mounts!PublishCall, Mounts!Bind, Mounts!Remount, Mounts!Unpublish,
        Mounts!Interrupt, Mounts!Goto
  <2>3. \/ published' = published \/ published' = published \ {v}
        \/ published' = published \cup {v} /\ node[v] \in {"bind", "remount"}
    BY <1>9, Zenon DEF Mounts!PublishCall, Mounts!Bind, Mounts!Remount, Mounts!Unpublish,
        Mounts!Interrupt, Mounts!Goto
  <2>4. published' \subseteq using'
    BY <1>2, <1>4, <2>1, <2>3, Zenon
  <2>5. PICK to : /\ node' = [node EXCEPT ![v] = to] /\ to \in {node[v], "idle", "bind", "remount"}
                  /\ to \in {"bind", "remount"} => v \in using
    BY <1>2, <1>3, <1>4, <2>2, Zenon
  <2>. QED  BY <1>1, <1>2, <1>4, <2>1, <2>4, <2>5, NodeGood, Zenon
<1>. QED  BY <1>5, <1>6, <1>7, <1>8, <1>9, Zenon

-----------------------------------------------------------------------------
(* The theorems *)

\* Every step is a good one on some object.
LEMMA NextGood == ASSUME LvmInv, Next PROVE \E n \in Obj : Good(n)
<1>1. ASSUME NEW v \in Vol,
             \/ CreateCall(v) \/ CreateLookup(v) \/ CreatePlain(v) \/ CreateClone(v)
             \/ CreateActivate(v) \/ CreateExtend(v) \/ CreateReply(v)
             \/ ExpandCall(v) \/ ExpandGrow(v) \/ ExpandReply(v)
      PROVE  Good(v)
  BY <1>1, CreateCallGood, CreateLookupGood, CreatePlainGood, CreateCloneGood,
     CreateActivateGood, CreateReplyGood, ExpandCallGood, ExpandGrowGood, ExpandReplyGood, Zenon
<1>2. ASSUME NEW v \in Vol,
             \/ StageCall(v) \/ StageMount(v) \/ StageFill(v)
             \/ NodeUnstage(v) \/ NodePublish(v) \/ NodeUnpublish(v) \/ NodeExpand(v)
             \/ \E fails \in BOOLEAN : StageFormat(v, fails)
      PROVE  Good(v)
  <2>1. CASE StageCall(v) \/ StageMount(v) \/ NodeUnstage(v) \/ NodePublish(v) \/ NodeUnpublish(v)
    <3>1. Aside /\ UNCHANGED <<lv, expansion>>
      BY <2>1, Zenon DEF StageCall, StageMount, NodeUnstage, NodePublish, NodeUnpublish, NodeOnly, Aside
    <3>. QED  BY <2>1, <3>1, MountGood, Zenon DEF StageCall, StageMount, NodeUnstage, NodePublish,
               NodeUnpublish
  <2>. QED  BY <1>2, <2>1, StageFormatGood, NodeExpandGood, Zenon
<1>3. ASSUME NEW s \in Snap, \/ \E v \in Vol : SnapCall(s, v)
                             \/ SnapCheck(s) \/ SnapCreate(s) \/ SnapReply(s)
      PROVE  Good(s)
  BY <1>3, SnapCallGood, SnapCheckGood, SnapCreateGood, SnapReplyGood, Zenon
<1>4. ASSUME NEW n \in Obj, Interrupt(n) PROVE Good(n)
  <2>1. CASE Calls!Interrupt(n) /\ UNCHANGED mountVars
    BY <1>4, <2>1, InterruptGood, Zenon DEF Interrupt
  <2>2. ASSUME n \in Vol, Mounts!Interrupt(n), UNCHANGED callVars PROVE Good(n)
    <3>1. Aside /\ UNCHANGED <<lv, expansion>>
      BY <1>4, <2>2, Zenon DEF Interrupt, Aside
    <3>. QED  BY <2>2, <3>1, MountGood, Zenon
  <2>. QED  BY <1>4, <2>1, <2>2, Zenon DEF Interrupt
<1>5. ASSUME NEW n \in Obj, DeleteCall(n) \/ DeleteRemove(n) \/ DeleteReply(n) PROVE Good(n)
  BY <1>5, DeleteCallGood, DeleteRemoveGood, DeleteReplyGood, Zenon
<1>6. Vol \subseteq Obj /\ Snap \subseteq Obj
  BY Zenon DEF Obj
<1>. QED  BY <1>1, <1>2, <1>3, <1>4, <1>5, <1>6, Zenon DEF Next

\* LvmInv is inductive, and every step is one of the service or invisible to it.
LEMMA LvmStart == Init => LvmInv /\ Service!Init
<1>. SUFFICES ASSUME Init PROVE LvmInv /\ Service!Init
  OBVIOUS
<1>1. /\ src \in Sources /\ lv = [n \in Obj |-> None] /\ snapOf = [s \in Snap |-> None]
      /\ cap = [v \in Vol |-> 0] /\ growing = {} /\ ctl = [o \in Obj |-> "idle"]
      /\ wanted = {} /\ acked = {} /\ delWanted = {} /\ gone = {}
      /\ node = [v \in Vol |-> "idle"] /\ using = {} /\ staged = {} /\ published = {}
  BY Zenon DEF Init, Calls!Init, Mounts!Init
<1>2. Types
  BY <1>1, Zenon DEF Types, On
<1>3. ASSUME NEW n \in Obj PROVE Whole(n)
  <2>1. lv[n] = None /\ ctl[n] = "idle"
    BY <1>1, Zenon
  <2>2. Asked(n)
    BY <1>1, <2>1, Zenon DEF Asked, Making
  <2>3. VolumeMade(n)
    BY <1>1, <2>1, Zenon DEF VolumeMade
  <2>4. SnapshotMade(n)
    BY <1>1, <2>1, Zenon DEF SnapshotMade
  <2>5. n \in Vol => OnNode(n)
    BY <1>1, <2>1, Zenon DEF OnNode
  <2>. QED  BY <2>2, <2>3, <2>4, <2>5, Zenon DEF Whole
<1>4. \A n \in Obj : Made(n) = "absent"
  BY <1>1, Zenon DEF Made
<1>5. Service!Init
  BY <1>1, <1>4, Zenon DEF Service!Init
<1>6. faults \in Nat
  BY DEF Init
<1>. QED  BY <1>2, <1>3, <1>5, <1>6, Zenon DEF LvmInv

\* Interrupted handlers and failed probes are counted.
LEMMA FaultsCount == ASSUME LvmInv, [Next]_vars PROVE faults' \in Nat
<1>1. ASSUME NEW v \in Vol,
             \/ CreateCall(v) \/ CreateLookup(v) \/ CreatePlain(v) \/ CreateClone(v)
             \/ CreateActivate(v) \/ CreateExtend(v) \/ CreateReply(v)
             \/ ExpandCall(v) \/ ExpandGrow(v) \/ ExpandReply(v)
             \/ StageCall(v) \/ StageMount(v) \/ StageFill(v)
             \/ NodeUnstage(v) \/ NodePublish(v) \/ NodeUnpublish(v) \/ NodeExpand(v)
      PROVE  faults' = faults
  BY <1>1, Zenon DEF CreateCall, CreateLookup, CreatePlain, CreateClone, CreateActivate,
     CreateExtend, CreateReply, ExpandCall, ExpandGrow, ExpandReply, StageCall, StageMount,
     StageFill, NodeUnstage, NodePublish, NodeUnpublish, NodeExpand, Control, Command, NodeOnly
<1>2. ASSUME NEW s \in Snap, \/ \E v \in Vol : SnapCall(s, v)
                             \/ SnapCheck(s) \/ SnapCreate(s) \/ SnapReply(s)
      PROVE  faults' = faults
  BY <1>2, Zenon DEF SnapCall, SnapCheck, SnapCreate, SnapReply, Control, Command
<1>3. ASSUME NEW n \in Obj, DeleteCall(n) \/ DeleteRemove(n) \/ DeleteReply(n)
      PROVE  faults' = faults
  BY <1>3, Zenon DEF DeleteCall, DeleteRemove, DeleteReply, Control, Command
<1>4. ASSUME \/ \E v \in Vol, fails \in BOOLEAN : StageFormat(v, fails)
             \/ \E n \in Obj : Interrupt(n)
      PROVE  faults' = faults \/ faults' = faults + 1
  BY <1>4, Zenon DEF StageFormat, Probed, Interrupt
<1>5. faults' = faults \/ faults' = faults + 1
  BY <1>1, <1>2, <1>3, <1>4, ZenonT(30) DEF Next, vars
<1>. QED  BY <1>5 DEF LvmInv

LEMMA LvmStep ==
    ASSUME LvmInv, [Next]_vars
    PROVE  /\ LvmInv' /\ ServesStep
           /\ \A n \in Obj : vars' # vars => KeepsData(n)
<1>1. CASE Next
  BY <1>1, NextGood, FaultsCount, OneStep, Zenon
<1>2. CASE UNCHANGED vars
  <2>1. /\ UNCHANGED <<src, lv, snapOf, cap, growing>>
        /\ UNCHANGED <<ctl, wanted, acked, delWanted, gone>>
        /\ UNCHANGED <<node, using, staged, published>>
    BY <1>2, Zenon DEF vars, expansion, callVars, mountVars
  <2>2. Types'
    BY <2>1, Zenon DEF LvmInv, Types, On
  <2>3. ASSUME NEW n \in Obj PROVE Whole(n)'
    BY <2>1, Zenon DEF LvmInv, Whole, Asked, VolumeMade, SnapshotMade, OnNode, Filled
  <2>4. \A n \in Obj : Made(n)' = Made(n)
    BY <2>1, Zenon DEF Made
  <2>5. UNCHANGED Service!vars
    BY <2>1, <2>4, Zenon DEF Service!vars
  <2>. QED  BY <1>2, <2>2, <2>3, <2>5, FaultsCount, Zenon DEF LvmInv, ServesStep
<1>. QED  BY <1>1, <1>2, Zenon

\* CreateVolume, DeleteVolume, CreateSnapshot, DeleteSnapshot and ExpandVolume (lvmplugin.go)
\* keep what a CSI caller may rely on, for any volumes, sources, sizes and faults.
THEOREM LvmServes == Spec => Served
<1>1. LvmInv /\ [Next]_vars => LvmInv' /\ [Service!Next]_(Service!vars)
  BY LvmStep, Zenon DEF ServesStep
<1>. QED  BY <1>1, LvmStart, PTL DEF Spec, Served, Service!Spec

\* ListSnapshots names the volume an acknowledged snapshot was taken of, whether the
\* source is still there or its tag has to say.
THEOREM LvmListsSnapshots == Spec => []SnapshotsListed
<1>1. ASSUME LvmInv, NEW s \in Snap \cap Calls!Held PROVE <<s, snapOf[s]>> \in ListSnapshots
  <2>1. s \in Obj /\ s \in acked \ delWanted
    BY Kinds, Zenon DEF Calls!Held
  <2>2. /\ lv[s] # None /\ lv[s].from = snapOf[s] /\ lv[s].tag = snapOf[s] /\ snapOf[s] \in Vol
    BY <1>1, <2>1, Zenon DEF LvmInv, Whole, SnapshotMade
  <2>3. snapOf[s] # None
    BY <2>2, Kinds, Zenon
  <2>4. SourceOf(s) = snapOf[s]
    BY <2>2, <2>3, Zenon DEF SourceOf, Origin
  <2>. QED  BY <2>2, <2>3, <2>4, Zenon DEF ListSnapshots
<1>2. LvmInv => SnapshotsListed
  BY <1>1, Zenon DEF SnapshotsListed
<1>3. LvmInv /\ [Next]_vars => LvmInv'
  BY LvmStep, Zenon
<1>. QED  BY <1>2, <1>3, LvmStart, PTL DEF Spec

\* NodeStage and NodeExpand (lvmplugin.go): a volume the kubelet was told is staged carries a
\* filesystem as large as its device, but for an expansion whose node step is due.
THEOREM LvmStagedFills == Spec => []StagedFills
<1>1. ASSUME LvmInv, NEW v \in staged
      PROVE  /\ lv[v].fs # 0
             /\ v \notin growing /\ cap[v] = lv[v].size => lv[v].fsSize = lv[v].size
  <2>1. v \in Vol /\ v \in Obj
    BY <1>1, Kinds, Zenon DEF LvmInv, Types
  <2>2. OnNode(v)
    BY <1>1, <2>1, Zenon DEF LvmInv, Whole
  <2>. QED  BY <2>2, Zenon DEF OnNode, Filled
<1>2. LvmInv => StagedFills
  BY <1>1, Zenon DEF StagedFills
<1>3. LvmInv /\ [Next]_vars => LvmInv'
  BY LvmStep, Zenon
<1>. QED  BY <1>2, <1>3, LvmStart, PTL DEF Spec

\* ensureFormatted, lvcreate and lvextend (lvmplugin.go): no step takes the filesystem of an
\* LV away or replaces it, but lvremove with the LV and a mkfs whose blkid failed.
THEOREM LvmKeepsData == Spec => DataSurvives
<1>1. LvmInv /\ [Next]_vars =>
        [\A n \in Obj : lv[n] # None /\ lv'[n] # None /\ lv[n].fs # 0 /\ faults' = faults
                            => lv'[n].fs = lv[n].fs]_vars
  BY LvmStep, Zenon DEF KeepsData
<1>2. LvmInv /\ [Next]_vars => LvmInv'
  BY LvmStep, Zenon
<1>. QED  BY <1>1, <1>2, LvmStart, PTL DEF Spec, DataSurvives

=============================================================================
