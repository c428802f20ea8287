------------------------- MODULE CephFsVolumesProofs -------------------------
(***************************************************************************)
(* The CephFS plugin, for every set of volumes and snapshots, every plan    *)
(* and every number of faults: it implements ObjectService, a volume that   *)
(* is staged has its key, and no key outlives its volume.                   *)
(*                                                                          *)
(* Every step but a restart works on one object, at the controller or at    *)
(* the node.  The lemmas named ...Good show of each operation what it       *)
(* leaves of that object and that no other object notices; OneStep draws    *)
(* the conclusion.  What ties two objects, a copy or a snapshot and the     *)
(* subvolume it is taken of, is Rooted.                                     *)
(***************************************************************************)
EXTENDS CephFsVolumes, TLAPS

\* Functions by their values.
On(S, f) == f = [x \in S |-> f[x]]

Types ==
    /\ plan \in Plans
    /\ On(Vol, sub) /\ On(Vol, cap) /\ On(Vol, node) /\ On(Snap, snapOf) /\ On(Obj, ctl)
    /\ \A v \in Vol : /\ sub[v] # None => sub[v] \in Subvolume
                      /\ cap[v] \in Nat
    /\ key \subseteq Vol
    /\ wanted \subseteq Obj /\ acked \subseteq wanted /\ delWanted \subseteq acked
    /\ gone \subseteq delWanted

\* A snapshot, temporary or not, is of the subvolume of a volume that was served, and one
\* that is about to be taken is of a volume that was served.  A shallow volume was asked of a
\* snapshot that was served.
Rooted ==
    /\ \A w, n : <<w, n>> \in snaps => w \in Vol /\ w \in acked /\ sub[w] # None /\ n \in wanted
    /\ \A v \in Vol : ctl[v] = "tmpSnap" => Src(v) \in Vol /\ Src(v) \in acked
    /\ \A s \in Snap : ctl[s] = "snap" => snapOf[s] \in Vol /\ snapOf[s] \in acked
    /\ \A v \in Vol : v \in plan.shallow /\ v \in wanted => Src(v) \in acked

\* What a handler does before a create is acknowledged, and after a delete was asked for.
Making == {"path", "create", "tmpSnap", "clone", "wait", "dropTmp", "resize", "record",
           "export", "snap", "reply"}
Removing == {"unexport", "dropKey", "reap", "remove", "unsnap", "removed"}

Asked(n) ==
    /\ ctl[n] \in {"idle"} \cup Making \cup Removing
    /\ ctl[n] \in Making => n \in wanted \ acked
    /\ ctl[n] \in Removing => n \in delWanted \ gone

\* How far a create has come: the content is there, the size, the KMS id.
Copied(x) == x # None /\ x.state = "complete"
Sized(v, x) == Copied(x) /\ x.size >= ReqSize[v]
Noted(v, x) == Sized(v, x) /\ (v \in plan.encrypted => x.kmsID)

\* What a subvolume x of v is when the handler of v is at a step.
Fits(v, x, at) ==
    /\ at \notin {"snap", "unsnap"}
    /\ at \in {"tmpSnap", "clone", "wait", "dropTmp", "resize"} => Src(v) # None
    /\ at = "create" => Src(v) = None
    /\ at = "path" => v \in plan.shallow
    /\ v \in plan.shallow => at \in {"idle", "path", "reply", "removed"}
    /\ x # None => /\ v \in wanted \ gone /\ v \notin plan.shallow
                   /\ x.from = Src(v)
                   /\ Src(v) = None => Sized(v, x)
                   /\ v \in acked => Noted(v, x)
    /\ at = "wait" => x # None
    /\ at \in {"dropTmp", "resize"} => Copied(x)
    /\ at = "record" => Sized(v, x)
    /\ at = "export" => Noted(v, x)
    /\ at = "reply" \/ v \in acked \ delWanted => v \in plan.shallow \/ Noted(v, x)
    /\ at = "removed" => x = None

VolumeMade(v) ==
    /\ Fits(v, sub[v], ctl[v])
    /\ plan.nfs /\ (ctl[v] = "reply" \/ v \in acked \ delWanted) => v \in export
    /\ v \in acked => cap[v] >= ReqSize[v]

SnapshotMade(s) ==
    /\ ctl[s] \in {"idle", "snap", "reply", "unsnap", "removed"}
    /\ ctl[s] = "reply" \/ s \in acked \ delWanted => <<snapOf[s], s>> \in snaps
    /\ ctl[s] = "removed" \/ s \in gone => <<snapOf[s], s>> \notin snaps

\* What the node was told and has, and why a deletion finds the key: the volume is not in
\* use, its subvolume is still there, and so is the id.
Keyed(v) ==
    /\ v \in staged \/ node[v] \in {"mount", "key", "staged"} => v \in using
    /\ node[v] = "key" => v \in plan.encrypted
    /\ (v \in staged \/ node[v] = "staged") /\ v \in plan.encrypted => v \in keyring /\ v \in key
    /\ v \in using => v \in acked \ delWanted
    /\ v \in key => /\ v \in plan.encrypted /\ v \in acked /\ sub[v] # None
                    /\ ctl[v] \notin {"reap", "remove", "removed"}

Whole(n) ==
    /\ Asked(n)
    /\ n \in Vol => VolumeMade(n) /\ Keyed(n)
    /\ n \in Snap => SnapshotMade(n)

CephFsInv == Types /\ Rooted /\ \A n \in Obj : Whole(n)

-----------------------------------------------------------------------------
(* A step on one object *)

\* What the others see of a step on n: nothing.
Apart(n) ==
    /\ plan' = plan
    /\ \A m \in Obj \ {n} :
          /\ ctl'[m] = ctl[m]
          /\ m \in wanted' <=> m \in wanted
          /\ m \in acked' <=> m \in acked
          /\ m \in delWanted' <=> m \in delWanted
          /\ m \in gone' <=> m \in gone
    /\ \A s \in Snap \ {n} :
          snapOf'[s] = snapOf[s] /\ \A w : <<w, s>> \in snaps' <=> <<w, s>> \in snaps
    /\ \A v \in Vol \ {n} :
          /\ sub'[v] = sub[v] /\ cap'[v] = cap[v] /\ node'[v] = node[v]
          /\ v \in export' <=> v \in export
          /\ v \in using' <=> v \in using
          /\ v \in staged' <=> v \in staged
          /\ v \in key' <=> v \in key
          /\ v \in keyring' <=> v \in keyring

\* What there is of a volume, seen from the volume alone: the snapshot of a shallow one is
\* where it should be (MadeIs).
Standing(v) ==
    IF v \in plan.shallow
    THEN IF v \in acked \ gone \/ ctl[v] = "reply" THEN "ready" ELSE "absent"
    ELSE IF sub[v] = None THEN "absent"
    ELSE IF /\ sub[v].state = "complete" /\ sub[v].from = Src(v)
            /\ sub[v].size >= ReqSize[v]
            /\ plan.nfs => v \in export
            /\ v \in plan.encrypted => sub[v].kmsID
    THEN "ready" ELSE "partial"

Made(n) == IF n \in Vol THEN Standing(n) ELSE MadeSnapshot(n)

\* What the caller sees of n.
Shown(n) ==
    \/ Made(n)' = Made(n) /\ UNCHANGED <<wanted, acked, delWanted, gone>>
    \/ n \in wanted \ acked /\ UNCHANGED <<wanted, acked, delWanted, gone>>
    \/ Made(n)' = Made(n) /\ wanted' = wanted \cup {n} /\ UNCHANGED <<acked, delWanted, gone>>
    \/ /\ Made(n)' = Made(n) /\ Made(n) = "ready" /\ n \in wanted
       /\ acked' = acked \cup {n} /\ UNCHANGED <<wanted, delWanted, gone>>
    \/ /\ Made(n)' = Made(n) /\ n \in acked
       /\ delWanted' = delWanted \cup {n} /\ UNCHANGED <<wanted, acked, gone>>
    \/ /\ Made(n) = "ready" /\ Made(n)' = "partial" /\ n \in delWanted
       /\ UNCHANGED <<wanted, acked, delWanted, gone>>
    \/ /\ Made(n)' = "absent" /\ n \in delWanted
       /\ gone' \in {gone, gone \cup {n}} /\ UNCHANGED <<wanted, acked, delWanted>>

\* All that a step on n has to show.
Good(n) == Types' /\ Rooted' /\ Whole(n)' /\ Apart(n) /\ Shown(n)

ServesStep == Service!Next \/ UNCHANGED Service!vars

\* Volumes, snapshots and subvolumes are told apart, and from None.
LEMMA Kinds == /\ \A v \in Vol : v \in Obj /\ v \notin Snap /\ v # None
               /\ \A s \in Snap : s \in Obj /\ s \notin Vol /\ s # None
               /\ None \notin Subvolume
BY Instance, Zenon DEF Obj

\* What a plan may ask for.
LEMMA Planned ==
    ASSUME Types, NEW v \in Vol
    PROVE  /\ Src(v) \in Obj \cup {None} /\ ReqSize[v] \in Nat
           /\ v \in plan.shallow => Src(v) \in Snap
           /\ v \in plan.encrypted => Src(v) = None
           /\ plan.nfs => v \notin plan.shallow /\ v \notin plan.encrypted
<1>1. plan \in Plans
  BY Zenon DEF Types
<1>2. /\ plan.src \in [Vol -> Obj \cup {None}]
      /\ plan.shallow \subseteq {w \in Vol : plan.src[w] \in Snap}
      /\ plan.encrypted \subseteq {w \in Vol : plan.src[w] = None}
      /\ plan.nfs => plan.shallow \cup plan.encrypted = {}
  BY <1>1, Instance, Zenon
<1>3. ReqSize[v] \in Nat
  BY Instance, SMT
<1>4. Src(v) \in Obj \cup {None}
  BY <1>2, SMT DEF Src
<1>. QED  BY <1>2, <1>3, <1>4, Zenon DEF Src

\* A shallow volume that is served shows a snapshot that is there, or whose deletion was
\* asked for.
LEMMA MadeIs ==
    CephFsInv => [n \in Obj |-> IF n \in Vol THEN MadeVolume(n) ELSE MadeSnapshot(n)]
                 = [n \in Obj |-> Made(n)]
<1>. SUFFICES ASSUME CephFsInv, NEW v \in Vol PROVE MadeVolume(v) = Standing(v)
  BY Zenon DEF Made
<1>1. CASE v \notin plan.shallow
  BY <1>1, Zenon DEF MadeVolume, Standing
<1>2. CASE v \in plan.shallow
  <2>1. Types /\ Asked(v) /\ v \in Obj
    BY Kinds, Zenon DEF CephFsInv, Whole
  <2>2. PICK s : s = Src(v)
    BY Zenon
  <2>3. s \in Snap /\ s \in Obj
    BY <1>2, <2>1, <2>2, Planned, Kinds, Zenon
  <2>4. ASSUME v \in acked \/ ctl[v] = "reply"
        PROVE  s \in delWanted \/ MadeSnapshot(s) = "ready"
    <3>1. v \in wanted
      BY <2>1, <2>4, Zenon DEF Types, Asked, Making
    <3>2. s \in acked /\ SnapshotMade(s)
      BY <1>2, <2>2, <2>3, <3>1, Zenon DEF CephFsInv, Rooted, Whole
    <3>. QED  BY <3>2, Zenon DEF SnapshotMade, MadeSnapshot
  <2>5. ctl[v] = "reply" => v \notin gone
    BY <2>1, Zenon DEF Types, Asked, Making
  <2>. QED  BY <1>2, <2>2, <2>4, <2>5, Zenon DEF MadeVolume, Standing
<1>. QED  BY <1>1, <1>2, Zenon

LEMMA MadeNext ==
    (CephFsInv => [n \in Obj |-> IF n \in Vol THEN MadeVolume(n) ELSE MadeSnapshot(n)]
                  = [n \in Obj |-> Made(n)])'
BY MadeIs, PTL

\* The service sees nothing of the objects a step is not about,
LEMMA OthersMade ==
    ASSUME NEW n \in Obj, Apart(n), NEW m \in Obj \ {n}
    PROVE  Made(m)' = Made(m)
<1>1. /\ plan' = plan /\ ctl'[m] = ctl[m]
      /\ m \in acked' <=> m \in acked
      /\ m \in gone' <=> m \in gone
  BY Zenon DEF Apart
<1>2. ASSUME m \in Vol PROVE Made(m)' = Made(m)
  <2>1. sub'[m] = sub[m] /\ (m \in export' <=> m \in export)
    BY <1>2, Zenon DEF Apart
  <2>2. m \in acked' \ gone' <=> m \in acked \ gone
    BY <1>1, Zenon
  <2>3. Standing(m)' = Standing(m)
    BY <1>1, <2>1, <2>2, Zenon DEF Standing, Src
  <2>. QED  BY <1>2, <2>3, Zenon DEF Made
<1>3. ASSUME m \notin Vol PROVE Made(m)' = Made(m)
  <2>1. m \in Snap \ {n}
    BY <1>3, Zenon DEF Obj
  <2>2. snapOf'[m] = snapOf[m] /\ \A w : <<w, m>> \in snaps' <=> <<w, m>> \in snaps
    BY <2>1, Zenon DEF Apart
  <2>. QED  BY <1>3, <2>2, Zenon DEF Made, MadeSnapshot
<1>. QED  BY <1>2, <1>3, Zenon

\* and they stay as they were.
LEMMA OthersWhole ==
    ASSUME NEW n \in Obj, Apart(n), NEW m \in Obj \ {n}, Whole(m)
    PROVE  Whole(m)'
<1>1. /\ ctl'[m] = ctl[m] /\ plan' = plan
      /\ m \in wanted' <=> m \in wanted
      /\ m \in acked' <=> m \in acked
      /\ m \in delWanted' <=> m \in delWanted
      /\ m \in gone' <=> m \in gone
  BY Zenon DEF Apart
<1>2. Asked(m)'
  BY <1>1, Zenon DEF Whole, Asked
<1>3. ASSUME m \in Vol PROVE VolumeMade(m)' /\ Keyed(m)'
  <2>1. /\ sub'[m] = sub[m] /\ cap'[m] = cap[m] /\ node'[m] = node[m]
        /\ m \in export' <=> m \in export
        /\ m \in using' <=> m \in using
        /\ m \in staged' <=> m \in staged
        /\ m \in key' <=> m \in key
        /\ m \in keyring' <=> m \in keyring
    BY <1>3, Zenon DEF Apart
  <2>2. Src(m)' = Src(m) /\ VolumeMade(m) /\ Keyed(m)
    BY <1>1, <1>3, Zenon DEF Src, Whole
  <2>3. Fits(m, sub[m], ctl[m])'
    <3>1. Fits(m, sub[m], ctl[m])
      BY <2>2, Zenon DEF VolumeMade
    <3>. QED  BY <1>1, <2>1, <2>2, <3>1, Zenon DEF Fits, Noted
  <2>4. VolumeMade(m)'
    BY <1>1, <2>1, <2>2, <2>3, Zenon DEF VolumeMade
  <2>5. Keyed(m)'
    BY <1>1, <2>1, <2>2, Zenon DEF Keyed
  <2>. QED  BY <2>4, <2>5, Zenon
<1>4. ASSUME m \in Snap PROVE SnapshotMade(m)'
  <2>1. snapOf'[m] = snapOf[m] /\ \A w : <<w, m>> \in snaps' <=> <<w, m>> \in snaps
    BY <1>4, Zenon DEF Apart
  <2>. QED  BY <1>1, <1>4, <2>1, Zenon DEF Whole, SnapshotMade
<1>. QED  BY <1>2, <1>3, <1>4, Zenon DEF Whole

\* What the caller sees of n is a step of the service, or nothing.
LEMMA OneShown ==
    ASSUME CephFsInv, CephFsInv', NEW n \in Obj, Apart(n), Shown(n)
    PROVE  ServesStep
<1>. DEFINE made == [m \in Obj |-> IF m \in Vol THEN MadeVolume(m) ELSE MadeSnapshot(m)]
<1>0. made = [m \in Obj |-> Made(m)] /\ made' = [m \in Obj |-> Made(m)']
  BY MadeIs, MadeNext, Zenon
<1>1. made' = [made EXCEPT ![n] = Made(n)']
  <2>1. \A m \in Obj \ {n} : Made(m)' = Made(m)
    BY OthersMade, Zenon
  <2>2. [m \in Obj |-> Made(m)'] = [[m \in Obj |-> Made(m)] EXCEPT ![n] = Made(n)']
    BY <2>1, Zenon
  <2>. QED  BY <1>0, <2>2, Zenon
<1>2. Made(n)' = Made(n) => made' = made
  <2>1. Made(n)' = Made(n) => made' = [[m \in Obj |-> Made(m)] EXCEPT ![n] = Made(n)]
    BY <1>0, <1>1, Zenon
  <2>. QED  BY <1>0, <2>1, Zenon
<1>m. made[n] = Made(n)
  BY <1>0, Zenon
<1>. HIDE DEF made
<1>4. CASE Made(n)' = Made(n) /\ UNCHANGED <<wanted, acked, delWanted, gone>>
  BY <1>2, <1>4, Zenon DEF ServesStep, Service!vars, made
<1>5. CASE n \in wanted \ acked /\ UNCHANGED <<wanted, acked, delWanted, gone>>
  <2>1. \A m \in Obj : Made(m)' \in {"absent", "partial", "ready"}
    BY Zenon DEF Made, Standing, MadeSnapshot
  <2>2. \A m \in Obj : m \in wanted \ acked \/ Made(m)' = Made(m)
    BY <1>5, OthersMade, Zenon
  <2>3. /\ made' \in [Obj -> {"absent", "partial", "ready"}]
        /\ \A m \in Obj : m \in wanted \ acked \/ made'[m] = made[m]
    BY <1>0, <2>1, <2>2, Zenon
  <2>4. Service!Work
    BY <1>5, <2>3, Zenon DEF Service!Work, made
  <2>. QED  BY <2>4, Zenon DEF ServesStep, Service!Next
<1>6. CASE Made(n)' = Made(n) /\ wanted' = wanted \cup {n} /\ UNCHANGED <<acked, delWanted, gone>>
  BY <1>2, <1>6, Zenon DEF ServesStep, Service!Next, Service!Request, made
<1>7. CASE /\ Made(n)' = Made(n) /\ Made(n) = "ready" /\ n \in wanted
           /\ acked' = acked \cup {n} /\ UNCHANGED <<wanted, delWanted, gone>>
  <2>1. Service!Acknowledge(n)
    BY <1>2, <1>7, <1>m, Zenon DEF Service!Acknowledge, made
  <2>. QED  BY <2>1, Zenon DEF ServesStep, Service!Next
<1>8. CASE /\ Made(n)' = Made(n) /\ n \in acked
           /\ delWanted' = delWanted \cup {n} /\ UNCHANGED <<wanted, acked, gone>>
  BY <1>2, <1>8, Zenon DEF ServesStep, Service!Next, Service!RequestDelete, made
<1>9. CASE /\ Made(n) = "ready" /\ Made(n)' = "partial" /\ n \in delWanted
           /\ UNCHANGED <<wanted, acked, delWanted, gone>>
  <2>1. made' = [made EXCEPT ![n] = "partial"] /\ made[n] = "ready"
    BY <1>1, <1>9, <1>m, Zenon
  <2>2. Service!Remove(n)
    BY <1>9, <2>1, Zenon DEF Service!Remove, made
  <2>. QED  BY <2>2, Zenon DEF ServesStep, Service!Next
<1>10. CASE /\ Made(n)' = "absent" /\ n \in delWanted
            /\ gone' \in {gone, gone \cup {n}} /\ UNCHANGED <<wanted, acked, delWanted>>
  <2>1. made' = [made EXCEPT ![n] = "absent"]
    BY <1>1, <1>10, Zenon
  <2>2. CASE gone' = gone
    BY <1>10, <2>1, <2>2, Zenon DEF ServesStep, Service!Next, Service!Remove, made
  <2>3. CASE gone' = gone \cup {n}
    BY <1>10, <2>1, <2>3, Zenon DEF ServesStep, Service!Next, Service!AcknowledgeDelete, made
  <2>. QED  BY <1>10, <2>2, <2>3, Zenon
<1>. QED  BY <1>4, <1>5, <1>6, <1>7, <1>8, <1>9, <1>10, Zenon DEF Shown

\* A good step on one object is all there is to show.
LEMMA OneStep == ASSUME CephFsInv, NEW n \in Obj, Good(n) PROVE CephFsInv' /\ ServesStep
<1>1. ASSUME NEW m \in Obj PROVE Whole(m)'
  BY OthersWhole, Zenon DEF CephFsInv, Good
<1>2. CephFsInv'
  BY <1>1, Zenon DEF CephFsInv, Good
<1>. QED  BY <1>2, OneShown, Zenon DEF Good

-----------------------------------------------------------------------------
(* The controller *)

\* What a command may do to the subvolumes, and to the snapshots: one for n comes of a
\* subvolume that is there, and the other snapshots stay.
WritesSub(n) ==
    \/ sub' = sub
    \/ /\ n \in Vol /\ snaps' = snaps
       /\ \E x : /\ sub' = [sub EXCEPT ![n] = x]
                 /\ x = None => \A m : <<n, m>> \notin snaps
                 /\ x # None => x \in Subvolume

WritesSnaps(n) ==
    \/ snaps' = snaps
    \/ /\ sub' = sub
       /\ \A w, m : <<w, m>> \in snaps' =>
            <<w, m>> \in snaps \/ (w \in Vol /\ w \in acked /\ sub[w] # None /\ n \in wanted /\ m = n)
       /\ \A s \in Snap \ {n} : \A w : <<w, s>> \in snaps' <=> <<w, s>> \in snaps

Writes(n) ==
    /\ WritesSub(n) /\ WritesSnaps(n)
    /\ export' \in {export, export \cup {n}, export \ {n}}
    /\ cap' = cap \/ (n \in Vol /\ \E c \in Nat : cap' = [cap EXCEPT ![n] = c])
    /\ snapOf' = snapOf \/ (n \in Snap /\ \E v : snapOf' = [snapOf EXCEPT ![n] = v])
    /\ key' \in {key, key \ {n}}
    /\ UNCHANGED <<plan, keyring, node, using, staged>>

\* What the caller asks or is told.
Tells(n) ==
    /\ wanted' \in {wanted, wanted \cup {n}}
    /\ acked' \in {acked, acked \cup {n}} /\ (acked' = acked \/ n \in wanted)
    /\ delWanted' \in {delWanted, delWanted \cup {n}} /\ (delWanted' = delWanted \/ n \in acked)
    /\ gone' \in {gone, gone \cup {n}} /\ (gone' = gone \/ n \in delWanted)

\* A step of the handler at work on n.
LEMMA CallStep ==
    ASSUME Types, Rooted, NEW n \in Obj, NEW to, ctl' = [ctl EXCEPT ![n] = to],
           Writes(n), Tells(n),
           to = "tmpSnap" => Src(n) \in Vol /\ Src(n) \in acked,
           to = "snap" => snapOf'[n] \in Vol /\ snapOf'[n] \in acked,
           wanted' = wanted \/ (n \in Vol /\ n \in plan.shallow => Src(n) \in acked)
    PROVE  Types' /\ Rooted' /\ Apart(n) /\ ctl'[n] = to
<1>0. plan' = plan /\ UNCHANGED <<keyring, node, using, staged>>
  BY Zenon DEF Writes
<1>1. /\ On(Obj, ctl)' /\ ctl'[n] = to
      /\ \A m \in Obj \ {n} : ctl'[m] = ctl[m]
  BY Zenon DEF Types, On
<1>2. /\ On(Vol, sub)' /\ \A v \in Vol : sub'[v] # None => sub'[v] \in Subvolume
      /\ \A v \in Vol \ {n} : sub'[v] = sub[v]
      /\ \A w \in Vol : sub[w] # None /\ sub'[w] = None => snaps' = snaps /\ \A m : <<w, m>> \notin snaps
  <2>1. CASE sub' = sub
    BY <2>1, Zenon DEF Types, On
  <2>2. ASSUME n \in Vol, snaps' = snaps, NEW x, sub' = [sub EXCEPT ![n] = x],
               x = None => \A m : <<n, m>> \notin snaps, x # None => x \in Subvolume
        PROVE  /\ On(Vol, sub)' /\ \A v \in Vol : sub'[v] # None => sub'[v] \in Subvolume
               /\ \A v \in Vol \ {n} : sub'[v] = sub[v]
               /\ \A w \in Vol : sub[w] # None /\ sub'[w] = None =>
                    snaps' = snaps /\ \A m : <<w, m>> \notin snaps
    <3>1. On(Vol, sub)' /\ sub'[n] = x /\ \A v \in Vol \ {n} : sub'[v] = sub[v]
      BY <2>2, Zenon DEF Types, On
    <3>. QED  BY <2>2, <3>1, Zenon DEF Types
  <2>. QED  BY <2>1, <2>2, Zenon DEF Writes, WritesSub
<1>3. On(Snap, snapOf)' /\ \A s \in Snap \ {n} : snapOf'[s] = snapOf[s]
  BY Zenon DEF Types, On, Writes
<1>4. On(Vol, cap)' /\ (\A v \in Vol : cap'[v] \in Nat) /\ \A v \in Vol \ {n} : cap'[v] = cap[v]
  <2>1. CASE cap' = cap
    BY <2>1, Zenon DEF Types, On
  <2>2. ASSUME n \in Vol, NEW c \in Nat, cap' = [cap EXCEPT ![n] = c]
        PROVE  On(Vol, cap)' /\ (\A v \in Vol : cap'[v] \in Nat) /\ \A v \in Vol \ {n} : cap'[v] = cap[v]
    <3>1. On(Vol, cap)' /\ cap'[n] = c /\ \A v \in Vol \ {n} : cap'[v] = cap[v]
      BY <2>2, Zenon DEF Types, On
    <3>. QED  BY <2>2, <3>1, Zenon DEF Types
  <2>. QED  BY <2>1, <2>2, Zenon DEF Writes
<1>5. /\ wanted' \subseteq Obj /\ acked' \subseteq wanted' /\ delWanted' \subseteq acked'
      /\ gone' \subseteq delWanted' /\ wanted \subseteq wanted' /\ acked \subseteq acked'
  BY Zenon DEF Types, Tells
<1>6. \A m \in Obj \ {n} : /\ m \in wanted' <=> m \in wanted
                           /\ m \in acked' <=> m \in acked
                           /\ m \in delWanted' <=> m \in delWanted
                           /\ m \in gone' <=> m \in gone
  BY Zenon DEF Tells
<1>7. \A s \in Snap \ {n} : \A w : <<w, s>> \in snaps' <=> <<w, s>> \in snaps
  BY Zenon DEF Writes, WritesSnaps
<1>8. /\ key' \subseteq Vol
      /\ \A v \in Vol \ {n} : (v \in export' <=> v \in export) /\ (v \in key' <=> v \in key)
  BY Zenon DEF Writes, Types
<1>9. Types'
  BY <1>0, <1>1, <1>2, <1>3, <1>4, <1>5, <1>8, Zenon DEF Types
<1>10. Apart(n)
  BY <1>0, <1>1, <1>2, <1>3, <1>4, <1>6, <1>7, <1>8, Zenon DEF Apart
<1>11. ASSUME NEW w, NEW m, <<w, m>> \in snaps'
       PROVE  w \in Vol /\ w \in acked' /\ sub'[w] # None /\ m \in wanted'
  <2>1. CASE <<w, m>> \in snaps
    <3>1. w \in Vol /\ w \in acked /\ sub[w] # None /\ m \in wanted
      BY <2>1, Zenon DEF Rooted
    <3>2. sub'[w] # None
      BY <1>2, <2>1, <3>1, Zenon
    <3>. QED  BY <1>5, <3>1, <3>2, Zenon
  <2>2. CASE <<w, m>> \notin snaps
    <3>1. WritesSnaps(n) /\ snaps' # snaps
      BY <1>11, <2>2, Zenon DEF Writes
    <3>2. /\ sub' = sub
          /\ \A x, y : <<x, y>> \in snaps' =>
               \/ <<x, y>> \in snaps
               \/ x \in Vol /\ x \in acked /\ sub[x] # None /\ n \in wanted /\ y = n
      BY <3>1, Zenon DEF WritesSnaps
    <3>3. w \in Vol /\ w \in acked /\ sub[w] # None /\ n \in wanted /\ m = n
      BY <1>11, <2>2, <3>2, SMT
    <3>. QED  BY <1>5, <3>2, <3>3, Zenon
  <2>. QED  BY <2>1, <2>2, Zenon
<1>12. ASSUME NEW v \in Vol, ctl'[v] = "tmpSnap" PROVE Src(v) \in Vol /\ Src(v) \in acked'
  <2>1. CASE v = n
    BY <1>1, <1>5, <1>12, <2>1, Zenon
  <2>2. CASE v # n
    <3>1. ctl[v] = "tmpSnap"
      BY <1>1, <1>12, <2>2, Kinds, Zenon
    <3>. QED  BY <1>5, <3>1, Zenon DEF Rooted
  <2>. QED  BY <2>1, <2>2, Zenon
<1>13. ASSUME NEW s \in Snap, ctl'[s] = "snap" PROVE snapOf'[s] \in Vol /\ snapOf'[s] \in acked'
  <2>1. CASE s = n
    BY <1>1, <1>5, <1>13, <2>1, Zenon
  <2>2. CASE s # n
    <3>1. ctl[s] = "snap" /\ snapOf'[s] = snapOf[s]
      BY <1>1, <1>3, <1>13, <2>2, Kinds, Zenon
    <3>2. snapOf[s] \in Vol /\ snapOf[s] \in acked
      BY <3>1, Zenon DEF Rooted
    <3>. QED  BY <1>5, <3>1, <3>2, Zenon
  <2>. QED  BY <2>1, <2>2, Zenon
<1>14. ASSUME NEW v \in Vol, v \in plan.shallow, v \in wanted' PROVE Src(v) \in acked'
  <2>1. CASE v \in wanted
    BY <1>5, <1>14, <2>1, Zenon DEF Rooted
  <2>2. CASE v \notin wanted
    <3>1. v = n /\ wanted' # wanted
      BY <1>14, <2>2, Zenon DEF Tells
    <3>. QED  BY <1>5, <1>14, <3>1, Zenon
  <2>. QED  BY <2>1, <2>2, Zenon
<1>15. Rooted'
  BY <1>0, <1>11, <1>12, <1>13, <1>14, Zenon DEF Rooted, Src
<1>. QED  BY <1>1, <1>9, <1>10, <1>15, Zenon

\* What a step leaves of v's subvolume.
LEMMA SubIs ==
    ASSUME Types, NEW v \in Vol, plan' = plan, NEW x, sub' = [sub EXCEPT ![v] = x]
    PROVE  sub'[v] = x /\ Src(v)' = Src(v)
BY Zenon DEF Types, On, Src

\* A step that leaves the subvolumes alone.
LEMMA SubSame == ASSUME CephFsInv, NEW v \in Vol, sub' = sub PROVE sub' = [sub EXCEPT ![v] = sub[v]]
BY Zenon DEF CephFsInv, Types, On

\* CreateVolume's steps, and those of the clone workers: nothing is promised yet.
LEMMA MakeGood ==
    ASSUME CephFsInv, NEW v \in Vol, NEW to, NEW x,
           ctl' = [ctl EXCEPT ![v] = to], sub' = [sub EXCEPT ![v] = x],
           UNCHANGED <<plan, snapOf, cap, wanted, acked, delWanted, gone, key, keyring, node, using, staged>>,
           sub' = sub \/ snaps' = snaps, WritesSnaps(v), export' \in {export, export \cup {v}},
           v \in wanted \ acked, to \in {"idle"} \cup Making, to = "tmpSnap" => ctl[v] = "tmpSnap",
           x # None => x \in Subvolume, Fits(v, x, to),
           plan.nfs /\ to = "reply" => v \in export'
    PROVE  Good(v)
<1>1. v \in Obj /\ v \notin Snap /\ Types /\ Rooted /\ Whole(v)
  BY Kinds, Zenon DEF CephFsInv
<1>2. v \notin delWanted /\ v \notin gone
  BY <1>1, Zenon DEF Types
<1>3. \A m : <<v, m>> \notin snaps
  BY <1>1, Zenon DEF Rooted
<1>4. Writes(v) /\ Tells(v)
  BY <1>3, Zenon DEF Writes, WritesSub, Tells
<1>5. to = "tmpSnap" => Src(v) \in Vol /\ Src(v) \in acked
  BY <1>1, Zenon DEF Rooted
<1>6. to # "snap"
  BY Zenon DEF Fits
<1>7. Types' /\ Rooted' /\ Apart(v) /\ ctl'[v] = to
  BY <1>1, <1>4, <1>5, <1>6, CallStep, Zenon
<1>8. sub'[v] = x /\ Src(v)' = Src(v)
  BY <1>1, SubIs, Zenon
<1>9. Asked(v)'
  BY <1>7, Zenon DEF Asked, Making, Removing
<1>10. Fits(v, sub[v], ctl[v])'
  BY <1>7, <1>8, Zenon DEF Fits, Noted
<1>11. VolumeMade(v)'
  BY <1>7, <1>10, Zenon DEF VolumeMade
<1>12. Keyed(v)'
  BY <1>1, Zenon DEF Whole, Keyed
<1>. QED  BY <1>1, <1>7, <1>9, <1>11, <1>12, Zenon DEF Good, Shown, Whole

\* What the steps of CreateVolume start from.
LEMMA Begun ==
    ASSUME CephFsInv, NEW v \in Vol, ctl[v] \in Making
    PROVE  /\ v \in Obj /\ v \in wanted \ acked /\ v \notin gone /\ Fits(v, sub[v], ctl[v])
           /\ Types /\ (sub[v] # None => sub[v] \in Subvolume)
<1>1. v \in Obj /\ Types /\ Whole(v)
  BY Kinds, Zenon DEF CephFsInv
<1>2. v \in wanted \ acked
  BY <1>1, Zenon DEF Whole, Asked
<1>. QED  BY <1>1, <1>2, Zenon DEF Types, Whole, VolumeMade

\* The call itself promises nothing.
LEMMA CreateCallGood == ASSUME CephFsInv, NEW v \in Vol, CreateCall(v) PROVE Good(v)
<1>0. PICK to : to = IF v \in plan.shallow THEN "path"
                     ELSE IF Src(v) = None THEN "create"
                     ELSE IF Src(v) \in Snap THEN "clone" ELSE "tmpSnap"
  BY Zenon
<1>t. /\ to \in {"path", "create", "clone", "tmpSnap"}
      /\ to = "create" => Src(v) = None
      /\ to \in {"clone", "tmpSnap"} => Src(v) # None
      /\ to = "path" <=> v \in plan.shallow
  BY <1>0, Zenon
<1>1. /\ ctl[v] = "idle" /\ v \notin acked /\ wanted' = wanted \cup {v}
      /\ ctl' = [ctl EXCEPT ![v] = to] /\ UNCHANGED <<acked, delWanted, gone>>
      /\ UNCHANGED <<plan, snapOf, cap, sub, snaps, export, key, keyring, node, using, staged>>
      /\ Src(v) # None => Src(v) \in acked
  BY <1>0, Zenon DEF CreateCall, Calls!Create, Calls!Held, Control, asked, cluster, secret, mountVars
<1>2. Types /\ Rooted /\ Whole(v) /\ v \in Obj /\ v \notin Snap
  BY Kinds, Zenon DEF CephFsInv
<1>3. Writes(v) /\ Tells(v)
  BY <1>1, Zenon DEF Writes, WritesSub, WritesSnaps, Tells
<1>4. to = "tmpSnap" => Src(v) \in Vol /\ Src(v) \in acked
  BY <1>0, <1>1, <1>2, Planned, Zenon DEF Obj
<1>5. Types' /\ Rooted' /\ Apart(v) /\ ctl'[v] = to
  <2>1. to # "snap"
    BY <1>0, Zenon
  <2>2. v \in plan.shallow => Src(v) \in acked
    BY <1>1, <1>2, Planned, Kinds, Zenon
  <2>. QED  BY <1>1, <1>2, <1>3, <1>4, <2>1, <2>2, CallStep, Zenon
<1>6. v \notin delWanted /\ v \notin gone
  BY <1>1, <1>2, Zenon DEF Types
<1>7. Asked(v)'
  BY <1>t, <1>1, <1>5, Zenon DEF Asked, Making, Removing
<1>8. Fits(v, sub[v], ctl[v])'
  <2>1. Fits(v, sub[v], "idle")
    BY <1>1, <1>2, Zenon DEF Whole, VolumeMade
  <2>2. Src(v)' = Src(v)
    BY <1>1, Zenon DEF Src
  <2>. QED  BY <1>t, <1>1, <1>5, <1>6, <2>1, <2>2, Zenon DEF Fits, Noted
<1>9. VolumeMade(v)'
  <2>1. to # "reply"
    BY <1>0, Zenon
  <2>. QED  BY <1>1, <1>5, <1>8, <2>1, Zenon DEF VolumeMade
<1>10. Keyed(v)'
  BY <1>1, <1>2, Zenon DEF Whole, Keyed
<1>11. Made(v)' = Made(v)
  <2>1. ctl'[v] # "reply" /\ ctl[v] # "reply" /\ Src(v)' = Src(v)
    BY <1>t, <1>1, <1>5, Zenon DEF Src
  <2>. QED  BY <1>1, <2>1, Zenon DEF Made, Standing
<1>. QED  BY <1>1, <1>2, <1>5, <1>7, <1>9, <1>10, <1>11, Zenon DEF Good, Shown, Whole

LEMMA CreateShallowGood == ASSUME CephFsInv, NEW v \in Vol, CreateShallow(v) PROVE Good(v)
<1>0. PICK to : to = IF sub[snapOf[Src(v)]] # None THEN "reply" ELSE "idle"
  BY Zenon
<1>1. /\ ctl[v] = "path" /\ ctl' = [ctl EXCEPT ![v] = to]
      /\ UNCHANGED <<plan, snapOf, cap, wanted, acked, delWanted, gone, key, keyring, node, using, staged>>
      /\ UNCHANGED <<sub, snaps, export>>
  BY <1>0, Zenon DEF CreateShallow, Calls!Step, Control, asked, cluster, secret, mountVars
<1>2. sub' = [sub EXCEPT ![v] = sub[v]] /\ WritesSnaps(v)
  BY <1>1, SubSame, Zenon DEF WritesSnaps
<1>3. /\ v \in Obj /\ v \in wanted \ acked /\ Fits(v, sub[v], ctl[v])
      /\ sub[v] # None => sub[v] \in Subvolume
  BY <1>1, Begun, Zenon DEF Making
<1>4. to \in {"idle", "reply"} /\ v \in plan.shallow /\ ~plan.nfs
  BY <1>0, <1>1, <1>3, Begun, Planned, Zenon DEF Fits, Making
<1>5. Fits(v, sub[v], to)
  BY <1>1, <1>3, <1>4, Zenon DEF Fits
<1>6. to \in {"idle"} \cup Making /\ to # "tmpSnap"
  BY <1>4, Zenon DEF Making
<1>. QED  BY <1>1, <1>2, <1>3, <1>4, <1>5, <1>6, MakeGood, Zenon

\* The fields of a subvolume.
LEMMA Resized ==
    ASSUME NEW x \in Subvolume, NEW e \in Nat, NEW y, y = [x EXCEPT !.size = e]
    PROVE  /\ y \in Subvolume /\ y.size = e
           /\ y.state = x.state /\ y.from = x.from /\ y.kmsID = x.kmsID
BY SMT DEF Subvolume

LEMMA Ended ==
    ASSUME NEW x \in Subvolume, NEW e \in {"complete", "failed"}, NEW y, y = [x EXCEPT !.state = e]
    PROVE  y \in Subvolume /\ y.from = x.from
BY SMT DEF Subvolume

LEMMA Labelled ==
    ASSUME NEW x \in Subvolume, NEW e \in BOOLEAN, NEW y, y = [x EXCEPT !.kmsID = e]
    PROVE  /\ y \in Subvolume /\ (e = TRUE => y.kmsID)
           /\ y.size = x.size /\ y.state = x.state /\ y.from = x.from
BY SMT DEF Subvolume

\* An existing subvolume is from an earlier try.
LEMMA CreateFreshGood == ASSUME CephFsInv, NEW v \in Vol, CreateFresh(v) PROVE Good(v)
<1>0. PICK x : x = IF sub[v] # None THEN sub[v] ELSE
                     [state |-> "complete", size |-> ReqSize[v], from |-> None, kmsID |-> FALSE]
  BY Zenon
<1>1. /\ ctl[v] = "create" /\ ctl' = [ctl EXCEPT ![v] = "record"]
      /\ UNCHANGED <<plan, snapOf, cap, wanted, acked, delWanted, gone, key, keyring, node, using, staged>>
      /\ UNCHANGED <<snaps, export>>
  BY Zenon DEF CreateFresh, Calls!Step, Command, asked, secret, mountVars
<1>2. /\ v \in Obj /\ v \in wanted \ acked /\ v \notin gone /\ Fits(v, sub[v], ctl[v])
      /\ Types /\ (sub[v] # None => sub[v] \in Subvolume)
  BY <1>1, Begun, Zenon DEF Making
<1>3. sub' = [sub EXCEPT ![v] = x]
  BY <1>0, <1>2, Zenon DEF CreateFresh, Types, On
<1>4. Src(v) = None /\ v \notin plan.shallow /\ v \notin acked
  BY <1>1, <1>2, Zenon DEF Fits
<1>5. x \in Subvolume /\ x.from = None /\ Sized(v, x)
  <2>1. CASE sub[v] # None
    BY <1>0, <1>2, <1>4, <2>1, Zenon DEF Fits
  <2>2. CASE sub[v] = None
    <3>1. x = [state |-> "complete", size |-> ReqSize[v], from |-> None, kmsID |-> FALSE]
      BY <1>0, <2>2, Zenon
    <3>2. ReqSize[v] \in Nat
      BY <1>2, Planned, Zenon
    <3>3. x \in Subvolume /\ x.from = None /\ x.state = "complete" /\ x.size >= ReqSize[v]
      BY <3>1, <3>2, SMT DEF Subvolume
    <3>. QED  BY <3>3, Kinds, Zenon DEF Sized, Copied
  <2>. QED  BY <2>1, <2>2, Zenon
<1>6. Fits(v, x, "record")
  BY <1>2, <1>4, <1>5, Zenon DEF Fits, Sized, Copied
<1>7. WritesSnaps(v) /\ "record" \in {"idle"} \cup Making
  BY <1>1, Zenon DEF WritesSnaps, Making
<1>. QED  BY <1>1, <1>2, <1>3, <1>5, <1>6, <1>7, MakeGood, Zenon

\* The temporary snapshot is of a subvolume that is there.
LEMMA CloneTmpSnapGood == ASSUME CephFsInv, NEW v \in Vol, CloneTmpSnap(v) PROVE Good(v)
<1>0. PICK to : to = IF sub[Src(v)] # None THEN "clone" ELSE "idle"
  BY Zenon
<1>1. /\ ctl[v] = "tmpSnap" /\ ctl' = [ctl EXCEPT ![v] = to]
      /\ UNCHANGED <<plan, snapOf, cap, wanted, acked, delWanted, gone, key, keyring, node, using, staged>>
      /\ UNCHANGED <<sub, export>>
      /\ snaps' = IF sub[Src(v)] # None THEN snaps \cup {<<Src(v), v>>} ELSE snaps
  BY <1>0, Zenon DEF CloneTmpSnap, Calls!Step, Command, asked, secret, mountVars
<1>2. /\ v \in Obj /\ v \in wanted \ acked /\ v \notin gone /\ Fits(v, sub[v], ctl[v])
      /\ sub[v] # None => sub[v] \in Subvolume
  BY <1>1, Begun, Zenon DEF Making
<1>3. sub' = [sub EXCEPT ![v] = sub[v]]
  BY <1>1, SubSame, Zenon
<1>4. WritesSnaps(v)
  <2>1. CASE sub[Src(v)] = None
    BY <1>1, <2>1, Zenon DEF WritesSnaps
  <2>2. CASE sub[Src(v)] # None
    <3>1. snaps' = snaps \cup {<<Src(v), v>>}
      BY <1>1, <2>2, Zenon
    <3>2. Src(v) \in Vol /\ Src(v) \in acked /\ v \in wanted /\ v \notin Snap
      BY <1>1, <1>2, Kinds, Zenon DEF CephFsInv, Rooted
    <3>3. ASSUME NEW w, NEW m, <<w, m>> \in snaps', <<w, m>> \notin snaps
          PROVE  w = Src(v) /\ m = v
      BY <3>1, <3>3, SMT
    <3>4. ASSUME NEW s \in Snap \ {v}, NEW w PROVE <<w, s>> \in snaps' <=> <<w, s>> \in snaps
      BY <3>1, <3>2, <3>3, Zenon
    <3>. QED  BY <1>1, <2>2, <3>2, <3>3, <3>4, Zenon DEF WritesSnaps
  <2>. QED  BY <2>1, <2>2, Zenon
<1>5. to \in {"idle", "clone"}
  BY <1>0, Zenon
<1>6. Fits(v, sub[v], to)
  BY <1>1, <1>2, <1>5, Zenon DEF Fits
<1>7. to \in {"idle"} \cup Making /\ to # "tmpSnap" /\ to # "reply"
  BY <1>5, Zenon DEF Making
<1>. QED  BY <1>1, <1>2, <1>3, <1>4, <1>6, <1>7, MakeGood, Zenon

\* A target that is there already is v's own, from an earlier try.
LEMMA CloneStartGood == ASSUME CephFsInv, NEW v \in Vol, CloneStart(v) PROVE Good(v)
<1>0. PICK ok : ok = (sub[v] # None \/ Vehicle(v) \in snaps)
  BY Zenon
<1>1. PICK to : to = IF ok THEN "wait" ELSE "idle"
  BY Zenon
<1>2. PICK x : x = IF ok /\ sub[v] = None
                   THEN [state |-> "pending", from |-> Src(v),
                         size |-> sub[Vehicle(v)[1]].size, kmsID |-> FALSE]
                   ELSE sub[v]
  BY Zenon
<1>3. /\ ctl[v] = "clone" /\ ctl' = [ctl EXCEPT ![v] = to]
      /\ UNCHANGED <<plan, snapOf, cap, wanted, acked, delWanted, gone, key, keyring, node, using, staged>>
      /\ UNCHANGED <<snaps, export>>
  BY <1>0, <1>1, Zenon DEF CloneStart, Calls!Step, Command, asked, secret, mountVars
<1>4. /\ v \in Obj /\ v \in wanted \ acked /\ v \notin gone /\ Fits(v, sub[v], ctl[v])
      /\ Types /\ (sub[v] # None => sub[v] \in Subvolume)
  BY <1>3, Begun, Zenon DEF Making
<1>5. sub' = [sub EXCEPT ![v] = x]
  BY <1>0, <1>2, <1>4, Zenon DEF CloneStart, Types, On
<1>6. Src(v) # None /\ v \notin plan.shallow /\ v \notin acked /\ Src(v) \in Obj \cup {None}
  BY <1>3, <1>4, Planned, Zenon DEF Fits
<1>7. IF ok THEN x \in Subvolume /\ x.from = Src(v) ELSE x = None
  <2>1. CASE ~ok
    BY <1>0, <1>2, <2>1, Zenon
  <2>2. CASE sub[v] # None
    <3>1. ok /\ x = sub[v]
      BY <1>0, <1>2, <2>2, Zenon
    <3>. QED  BY <1>4, <2>2, <3>1, Zenon DEF Fits
  <2>3. CASE ok /\ sub[v] = None
    <3>1. PICK p : p = Vehicle(v)[1]
      BY Zenon
    <3>2. Vehicle(v) = <<p, Vehicle(v)[2]>>
      BY <3>1, SMT DEF Vehicle
    <3>3. p \in Vol /\ sub[p] # None
      BY <1>0, <2>3, <3>2, Zenon DEF CephFsInv, Rooted
    <3>4. sub[p] \in Subvolume
      BY <1>4, <3>3, Zenon DEF Types
    <3>5. x = [state |-> "pending", from |-> Src(v), size |-> sub[p].size, kmsID |-> FALSE]
      BY <1>2, <2>3, <3>1, Zenon
    <3>6. x \in Subvolume /\ x.from = Src(v)
      BY <1>6, <3>4, <3>5, SMT DEF Subvolume
    <3>. QED  BY <2>3, <3>6, Zenon
  <2>. QED  BY <2>1, <2>2, <2>3, Zenon
<1>8. /\ to \in {"idle", "wait"} /\ (to = "wait" => x # None)
      /\ x # None => x \in Subvolume /\ x.from = Src(v)
  <2>1. CASE ok
    BY <1>1, <1>7, <2>1, Kinds, Zenon
  <2>2. CASE ~ok
    BY <1>1, <1>7, <2>2, Zenon
  <2>. QED  BY <2>1, <2>2, Zenon
<1>9. Fits(v, x, to)
  BY <1>4, <1>6, <1>8, Zenon DEF Fits
<1>10. to \in {"idle"} \cup Making /\ to # "tmpSnap" /\ to # "reply" /\ WritesSnaps(v)
  BY <1>3, <1>8, Zenon DEF Making, WritesSnaps
<1>. QED  BY <1>3, <1>4, <1>5, <1>8, <1>9, <1>10, MakeGood, Zenon

\* A failed target goes; the volume was served to nobody, so nothing is taken of it.
LEMMA CloneWaitGood == ASSUME CephFsInv, NEW v \in Vol, CloneWait(v) PROVE Good(v)
<1>0. PICK done : done = (sub[v] # None /\ sub[v].state = "complete")
  BY Zenon
<1>1. PICK to : to = IF ~done THEN "idle" ELSE IF Src(v) \in Snap THEN "resize" ELSE "dropTmp"
  BY Zenon
<1>2. PICK x : x = IF done THEN sub[v] ELSE None
  BY Zenon
<1>3. /\ ctl[v] = "wait" /\ ctl' = [ctl EXCEPT ![v] = to]
      /\ UNCHANGED <<plan, snapOf, cap, wanted, acked, delWanted, gone, key, keyring, node, using, staged>>
      /\ UNCHANGED <<snaps, export>>
      /\ sub' = IF done THEN sub ELSE [sub EXCEPT ![v] = None]
  BY <1>0, <1>1, Zenon DEF CloneWait, Calls!Step, Command, asked, secret, mountVars
<1>4. /\ v \in Obj /\ v \in wanted \ acked /\ v \notin gone /\ Fits(v, sub[v], ctl[v])
      /\ Types /\ (sub[v] # None => sub[v] \in Subvolume)
  BY <1>3, Begun, Zenon DEF Making
<1>5. sub' = [sub EXCEPT ![v] = x]
  BY <1>2, <1>3, <1>4, Zenon DEF Types, On
<1>6. Src(v) # None /\ v \notin plan.shallow
  BY <1>3, <1>4, Zenon DEF Fits
<1>7. /\ to \in {"idle", "resize", "dropTmp"} /\ (to # "idle" => Copied(x))
      /\ x # None => x = sub[v]
  BY <1>0, <1>1, <1>2, Zenon DEF Copied
<1>8. Fits(v, x, to)
  BY <1>3, <1>4, <1>6, <1>7, Zenon DEF Fits
<1>9. to \in {"idle"} \cup Making /\ to # "tmpSnap" /\ to # "reply" /\ WritesSnaps(v)
  BY <1>3, <1>7, Zenon DEF Making, WritesSnaps
<1>. QED  BY <1>3, <1>4, <1>5, <1>7, <1>8, <1>9, MakeGood, Zenon

\* The snapshot that is dropped is no object of the caller's.
LEMMA CloneDropTmpGood == ASSUME CephFsInv, NEW v \in Vol, CloneDropTmp(v) PROVE Good(v)
<1>1. /\ ctl[v] = "dropTmp" /\ ctl' = [ctl EXCEPT ![v] = "resize"]
      /\ UNCHANGED <<plan, snapOf, cap, wanted, acked, delWanted, gone, key, keyring, node, using, staged>>
      /\ UNCHANGED <<sub, export>> /\ (snaps' = snaps \/ snaps' = snaps \ {<<Src(v), v>>})
  BY Zenon DEF CloneDropTmp, Calls!Step, asked, secret, mountVars
<1>2. /\ v \in Obj /\ v \in wanted \ acked /\ v \notin gone /\ Fits(v, sub[v], ctl[v])
      /\ sub[v] # None => sub[v] \in Subvolume
  BY <1>1, Begun, Zenon DEF Making
<1>3. sub' = [sub EXCEPT ![v] = sub[v]]
  BY <1>1, SubSame, Zenon
<1>4. WritesSnaps(v)
  <2>1. CASE snaps' = snaps
    BY <2>1, Zenon DEF WritesSnaps
  <2>2. CASE snaps' = snaps \ {<<Src(v), v>>}
    <3>1. ASSUME NEW s \in Snap \ {v}, NEW w PROVE <<w, s>> # <<Src(v), v>>
      BY <3>1, SMT
    <3>2. ASSUME NEW s \in Snap \ {v}, NEW w PROVE <<w, s>> \in snaps' <=> <<w, s>> \in snaps
      BY <2>2, <3>1, Zenon
    <3>3. \A w, m : <<w, m>> \in snaps' => <<w, m>> \in snaps
      BY <2>2, Zenon
    <3>. QED  BY <1>1, <3>2, <3>3, Zenon DEF WritesSnaps
  <2>. QED  BY <1>1, <2>1, <2>2, Zenon
<1>5. Fits(v, sub[v], "resize")
  BY <1>1, <1>2, Zenon DEF Fits
<1>6. "resize" \in {"idle"} \cup Making
  BY Zenon DEF Making
<1>. QED  BY <1>1, <1>2, <1>3, <1>4, <1>5, <1>6, MakeGood, Zenon

LEMMA CloneResizeGood == ASSUME CephFsInv, NEW v \in Vol, CloneResize(v) PROVE Good(v)
<1>0. PICK e : e = Larger(sub[v].size, ReqSize[v])
  BY Zenon
<1>1. PICK x : x = [sub[v] EXCEPT !.size = e]
  BY Zenon
<1>2. /\ ctl[v] = "resize" /\ ctl' = [ctl EXCEPT ![v] = "record"]
      /\ UNCHANGED <<plan, snapOf, cap, wanted, acked, delWanted, gone, key, keyring, node, using, staged>>
      /\ UNCHANGED <<snaps, export>>
      /\ sub' = [sub EXCEPT ![v].size = Larger(@, ReqSize[v])]
  BY Zenon DEF CloneResize, Calls!Step, Command, asked, secret, mountVars
<1>3. /\ v \in Obj /\ v \in wanted \ acked /\ v \notin gone /\ Fits(v, sub[v], ctl[v])
      /\ Types /\ (sub[v] # None => sub[v] \in Subvolume)
  BY <1>2, Begun, Zenon DEF Making
<1>4. sub' = [sub EXCEPT ![v] = x]
  BY <1>0, <1>1, <1>2, Zenon
<1>5. Copied(sub[v]) /\ sub[v] \in Subvolume /\ ReqSize[v] \in Nat
  BY <1>2, <1>3, Planned, Zenon DEF Fits, Copied
<1>6. e \in Nat /\ e >= ReqSize[v]
  BY <1>0, <1>5, SMT DEF Larger, Subvolume
<1>7. x \in Subvolume /\ x.size = e /\ x.state = sub[v].state /\ x.from = sub[v].from
  BY <1>1, <1>5, <1>6, Resized, SMT
<1>8. Sized(v, x) /\ Src(v) # None /\ x.from = Src(v) /\ v \notin plan.shallow
  BY <1>2, <1>3, <1>5, <1>6, <1>7, Kinds, Zenon DEF Sized, Copied, Fits
<1>9. Fits(v, x, "record")
  BY <1>3, <1>8, Zenon DEF Fits
<1>10. "record" \in {"idle"} \cup Making /\ WritesSnaps(v)
  BY <1>2, Zenon DEF Making, WritesSnaps
<1>. QED  BY <1>2, <1>3, <1>4, <1>7, <1>9, <1>10, MakeGood, Zenon

LEMMA CreateRecordGood == ASSUME CephFsInv, NEW v \in Vol, CreateRecord(v) PROVE Good(v)
<1>0. PICK to : to = IF plan.nfs THEN "export" ELSE "reply"
  BY Zenon
<1>1. PICK x : x = [sub[v] EXCEPT !.kmsID = v \in plan.encrypted]
  BY Zenon
<1>2. /\ ctl[v] = "record" /\ ctl' = [ctl EXCEPT ![v] = to]
      /\ UNCHANGED <<plan, snapOf, cap, wanted, acked, delWanted, gone, key, keyring, node, using, staged>>
      /\ UNCHANGED <<snaps, export>>
      /\ sub' = [sub EXCEPT ![v].kmsID = v \in plan.encrypted]
  BY <1>0, Zenon DEF CreateRecord, Calls!Step, Command, asked, secret, mountVars
<1>3. /\ v \in Obj /\ v \in wanted \ acked /\ v \notin gone /\ Fits(v, sub[v], ctl[v])
      /\ Types /\ (sub[v] # None => sub[v] \in Subvolume)
  BY <1>2, Begun, Zenon DEF Making
<1>4. sub' = [sub EXCEPT ![v] = x]
  BY <1>1, <1>2, Zenon
<1>5. Sized(v, sub[v]) /\ sub[v] # None /\ sub[v] \in Subvolume
  BY <1>2, <1>3, Zenon DEF Fits, Sized, Copied
<1>6. /\ x \in Subvolume /\ (v \in plan.encrypted => x.kmsID)
      /\ x.size = sub[v].size /\ x.state = sub[v].state /\ x.from = sub[v].from
  <2>1. CASE v \in plan.encrypted
    <3>1. x = [sub[v] EXCEPT !.kmsID = TRUE]
      BY <1>1, <2>1, Zenon
    <3>. QED  BY <1>5, <3>1, Labelled, Zenon
  <2>2. CASE v \notin plan.encrypted
    <3>1. (v \in plan.encrypted) = FALSE
      BY <2>2, SMT
    <3>2. x = [sub[v] EXCEPT !.kmsID = FALSE]
      BY <1>1, <3>1, Zenon
    <3>. QED  BY <1>5, <2>2, <3>2, Labelled, Zenon
  <2>. QED  BY <2>1, <2>2, Zenon
<1>7. Sized(v, x) /\ x.from = Src(v) /\ v \notin plan.shallow
  BY <1>2, <1>3, <1>5, <1>6, Kinds, Zenon DEF Sized, Copied, Fits
<1>8. Noted(v, x)
  BY <1>6, <1>7, Zenon DEF Noted
<1>9. to \in {"export", "reply"} /\ (to = "reply" => ~plan.nfs)
  BY <1>0, Zenon
<1>10. Fits(v, x, to)
  BY <1>3, <1>7, <1>8, <1>9, Zenon DEF Fits
<1>11. to \in {"idle"} \cup Making /\ to # "tmpSnap" /\ WritesSnaps(v)
  BY <1>2, <1>9, Zenon DEF Making, WritesSnaps
<1>. QED  BY <1>2, <1>3, <1>4, <1>6, <1>9, <1>10, <1>11, MakeGood, Zenon

LEMMA CreateExportGood == ASSUME CephFsInv, NEW v \in Vol, CreateExport(v) PROVE Good(v)
<1>1. /\ ctl[v] = "export" /\ ctl' = [ctl EXCEPT ![v] = "reply"]
      /\ UNCHANGED <<plan, snapOf, cap, wanted, acked, delWanted, gone, key, keyring, node, using, staged>>
      /\ UNCHANGED <<sub, snaps>> /\ export' = export \cup {v}
  BY Zenon DEF CreateExport, Calls!Step, Command, asked, secret, mountVars
<1>2. /\ v \in Obj /\ v \in wanted \ acked /\ v \notin gone /\ Fits(v, sub[v], ctl[v])
      /\ sub[v] # None => sub[v] \in Subvolume
  BY <1>1, Begun, Zenon DEF Making
<1>3. sub' = [sub EXCEPT ![v] = sub[v]]
  BY <1>1, SubSame, Zenon
<1>4. Fits(v, sub[v], "reply")
  BY <1>1, <1>2, Zenon DEF Fits
<1>5. "reply" \in {"idle"} \cup Making /\ WritesSnaps(v) /\ v \in export'
  BY <1>1, Zenon DEF Making, WritesSnaps
<1>. QED  BY <1>1, <1>2, <1>3, <1>4, <1>5, MakeGood, Zenon

\* Only a volume that is not served yet is still being copied.
LEMMA CloneEndsGood == ASSUME CephFsInv, NEW v \in Vol, CloneEnds(v) PROVE Good(v)
<1>1. PICK e \in {"complete", "failed"} : sub' = [sub EXCEPT ![v].state = e]
  BY Zenon DEF CloneEnds
<1>2. PICK x : x = [sub[v] EXCEPT !.state = e]
  BY Zenon
<1>3. /\ sub[v] # None /\ sub[v].state = "pending"
      /\ UNCHANGED <<plan, snapOf, cap, ctl, wanted, acked, delWanted, gone, key, keyring, node, using, staged>>
      /\ UNCHANGED <<snaps, export>>
  BY Zenon DEF CloneEnds, asked, secret, callVars, mountVars
<1>4. /\ Types /\ Whole(v) /\ v \in Obj /\ Fits(v, sub[v], ctl[v]) /\ sub[v] \in Subvolume
  BY <1>3, Kinds, Zenon DEF CephFsInv, Whole, VolumeMade, Types
<1>5. ctl' = [ctl EXCEPT ![v] = ctl[v]] /\ sub' = [sub EXCEPT ![v] = x]
  BY <1>1, <1>2, <1>3, <1>4, Zenon DEF Types, On
<1>6. x \in Subvolume /\ x.from = sub[v].from
  BY <1>2, <1>4, Ended, Zenon
<1>7. ~Copied(sub[v])
  BY <1>3, Zenon DEF Copied
<1>8. ~Sized(v, sub[v]) /\ ~Noted(v, sub[v])
  BY <1>7, Zenon DEF Sized, Noted
<1>9. v \in wanted \ acked /\ Src(v) # None /\ v \notin plan.shallow
  BY <1>3, <1>4, <1>8, Zenon DEF Fits
<1>10. /\ ctl[v] \notin {"dropTmp", "resize", "record", "export", "reply"}
       /\ ctl[v] \in {"idle"} \cup Making
  BY <1>4, <1>7, <1>8, <1>9, Zenon DEF Fits, Whole, Asked, Types
<1>11. Fits(v, x, ctl[v])
  BY <1>3, <1>4, <1>6, <1>9, <1>10, Kinds, Zenon DEF Fits
<1>12. WritesSnaps(v)
  BY <1>3, Zenon DEF WritesSnaps
<1>. QED  BY <1>3, <1>5, <1>6, <1>9, <1>10, <1>11, <1>12, MakeGood, Zenon

\* The response: the volume is all that was asked for.
LEMMA CreateReplyGood == ASSUME CephFsInv, NEW v \in Vol, CreateReply(v) PROVE Good(v)
<1>1. /\ ctl[v] = "reply" /\ ctl' = [ctl EXCEPT ![v] = "idle"] /\ acked' = acked \cup {v}
      /\ cap' = [cap EXCEPT ![v] = ReqSize[v]]
      /\ UNCHANGED <<plan, snapOf, sub, snaps, export, wanted, delWanted, gone, key, keyring, node, using, staged>>
  BY Zenon DEF CreateReply, Calls!Reply, Control, cluster, secret, mountVars
<1>2. /\ v \in Obj /\ v \in wanted \ acked /\ v \notin gone /\ Fits(v, sub[v], ctl[v])
      /\ Types /\ (sub[v] # None => sub[v] \in Subvolume)
  BY <1>1, Begun, Zenon DEF Making
<1>3. v \notin Snap /\ v \notin delWanted /\ ReqSize[v] \in Nat /\ Rooted /\ Whole(v)
  BY <1>2, Kinds, Planned, Zenon DEF CephFsInv, Types
<1>4. Writes(v) /\ Tells(v)
  BY <1>1, <1>2, <1>3, Zenon DEF Writes, WritesSub, WritesSnaps, Tells
<1>5. Types' /\ Rooted' /\ Apart(v) /\ ctl'[v] = "idle"
  BY <1>1, <1>2, <1>3, <1>4, CallStep, Zenon
<1>6. cap'[v] >= ReqSize[v] /\ Src(v)' = Src(v)
  <2>1. cap'[v] = ReqSize[v]
    BY <1>1, <1>2, Zenon DEF Types, On
  <2>2. cap'[v] >= ReqSize[v]
    BY <1>3, <2>1, SMT
  <2>. QED  BY <1>1, <2>2, Zenon DEF Src
<1>7. v \in plan.shallow \/ (Noted(v, sub[v]) /\ (plan.nfs => v \in export))
  BY <1>1, <1>2, <1>3, Zenon DEF Fits, Whole, VolumeMade
<1>8. Noted(v, sub[v])' <=> Noted(v, sub[v])
  BY <1>1, Zenon DEF Noted
<1>9. sub[v] # None => v \notin plan.shallow /\ sub[v].from = Src(v)
  BY <1>2, Zenon DEF Fits
<1>10. Fits(v, sub[v], ctl[v])'
  <2>1. sub[v] # None => Noted(v, sub[v])
    BY <1>7, <1>9, Zenon
  <2>. QED  BY <1>1, <1>2, <1>3, <1>5, <1>6, <1>7, <1>8, <2>1, Zenon DEF Fits
<1>11. VolumeMade(v)'
  <2>1. plan.nfs => v \in export
    BY <1>2, <1>7, Planned, Zenon
  <2>. QED  BY <1>1, <1>5, <1>6, <1>10, <2>1, Zenon DEF VolumeMade
<1>12. Asked(v)'
  BY <1>5, Zenon DEF Asked, Making, Removing
<1>13. Keyed(v)'
  BY <1>1, <1>2, <1>3, Zenon DEF Whole, Keyed
<1>14. Made(v) = "ready" /\ Made(v)' = "ready"
  <2>1. CASE v \in plan.shallow
    <3>1. v \in acked' \ gone'
      BY <1>1, <1>2, Zenon
    <3>. QED  BY <1>1, <2>1, <3>1, Zenon DEF Made, Standing
  <2>2. CASE v \notin plan.shallow
    <3>1. sub[v] # None /\ sub[v].state = "complete" /\ sub[v].size >= ReqSize[v]
      BY <1>7, <2>2, Zenon DEF Noted, Sized, Copied
    <3>2. (plan.nfs => v \in export) /\ (v \in plan.encrypted => sub[v].kmsID)
      BY <1>7, <2>2, Zenon DEF Noted
    <3>. QED  BY <1>1, <1>6, <1>9, <2>2, <3>1, <3>2, Zenon DEF Made, Standing
  <2>. QED  BY <2>1, <2>2, Zenon
<1>. QED  BY <1>1, <1>2, <1>3, <1>5, <1>11, <1>12, <1>13, <1>14, Zenon DEF Good, Shown, Whole

\* What the caller sees of a volume it was given and that has its own subvolume.
LEMMA ServedMade ==
    ASSUME NEW v \in Vol, v \notin plan.shallow, Noted(v, sub[v]), sub[v].from = Src(v)
    PROVE  Made(v) = IF plan.nfs => v \in export THEN "ready" ELSE "partial"
<1>1. sub[v] # None /\ sub[v].state = "complete" /\ sub[v].size >= ReqSize[v]
  BY Zenon DEF Noted, Sized, Copied
<1>2. v \in plan.encrypted => sub[v].kmsID
  BY Zenon DEF Noted
<1>. QED  BY <1>1, <1>2, Zenon DEF Made, Standing

\* The steps of DeleteVolume.
LEMMA DropGood ==
    ASSUME CephFsInv, NEW v \in Vol, NEW to, NEW x,
           ctl' = [ctl EXCEPT ![v] = to], sub' = [sub EXCEPT ![v] = x],
           UNCHANGED <<plan, snapOf, cap, wanted, acked, delWanted, gone, keyring, node, using, staged>>,
           sub' = sub \/ snaps' = snaps, WritesSnaps(v),
           export' \in {export, export \ {v}}, key' \in {key, key \ {v}},
           x = sub[v] \/ (x = None /\ \A m : <<v, m>> \notin snaps),
           ctl[v] \in {"unexport", "dropKey", "reap", "remove"},
           to \in {"idle", "dropKey", "reap", "remove", "removed"},
           to = "removed" => x = None,
           v \in key' => x # None /\ to \notin {"reap", "remove", "removed"}
    PROVE  Good(v)
<1>1. v \in Obj /\ v \notin Snap /\ Types /\ Rooted /\ Whole(v)
  BY Kinds, Zenon DEF CephFsInv
<1>2. v \in delWanted /\ v \notin gone /\ v \in acked /\ v \in wanted
  BY <1>1, Zenon DEF Types, Whole, Asked, Removing
<1>3. Fits(v, sub[v], ctl[v]) /\ v \notin plan.shallow /\ (sub[v] # None => sub[v] \in Subvolume)
  BY <1>1, Zenon DEF Whole, VolumeMade, Fits, Types
<1>4. Writes(v) /\ Tells(v)
  <2>1. x = sub[v] => sub' = sub
    BY <1>1, Zenon DEF Types, On
  <2>2. WritesSub(v)
    BY <2>1, Zenon DEF WritesSub
  <2>. QED  BY <2>2, Zenon DEF Writes, Tells
<1>5. Types' /\ Rooted' /\ Apart(v) /\ ctl'[v] = to
  <2>1. to # "tmpSnap" /\ to # "snap"
    BY Zenon
  <2>. QED  BY <1>1, <1>4, <2>1, CallStep, Zenon
<1>6. sub'[v] = x /\ Src(v)' = Src(v)
  BY <1>1, SubIs, Zenon
<1>7. Asked(v)'
  BY <1>2, <1>5, Zenon DEF Asked, Making, Removing
<1>8. x # None => sub[v] # None /\ x = sub[v] /\ x.from = Src(v) /\ Noted(v, x) /\ Sized(v, x)
  BY <1>2, <1>3, Zenon DEF Fits, Noted
<1>9. Fits(v, sub[v], ctl[v])'
  <2>1. x # None => Noted(v, x)'
    BY <1>8, Zenon DEF Noted
  <2>2. v \notin (acked \ delWanted)'
    BY <1>2, Zenon
  <2>. QED  BY <1>2, <1>3, <1>5, <1>6, <1>8, <2>1, <2>2, Zenon DEF Fits
<1>10. VolumeMade(v)'
  BY <1>1, <1>2, <1>5, <1>9, Zenon DEF VolumeMade, Whole
<1>11. Keyed(v)'
  <2>1. Keyed(v) /\ v \notin using /\ (v \in key' => v \in key)
    BY <1>1, <1>2, Zenon DEF Whole, Keyed
  <2>. QED  BY <1>2, <1>5, <1>6, <2>1, Zenon DEF Keyed
<1>12. Shown(v)
  <2>1. CASE x = None
    <3>1. Made(v)' = "absent"
      BY <1>3, <1>6, <2>1, Zenon DEF Made, Standing
    <3>. QED  BY <1>2, <3>1, Zenon DEF Shown
  <2>2. CASE x # None
    <3>1. Made(v) = IF plan.nfs => v \in export THEN "ready" ELSE "partial"
      BY <1>3, <1>8, <2>2, ServedMade, Zenon
    <3>2. Made(v)' = IF plan.nfs => v \in export' THEN "ready" ELSE "partial"
      <4>1. sub'[v] = sub[v] /\ Noted(v, sub[v]) /\ sub[v].from = Src(v)
        BY <1>6, <1>8, <2>2, Zenon
      <4>2. sub[v] # None /\ sub[v].state = "complete" /\ sub[v].size >= ReqSize[v]
        BY <4>1, Zenon DEF Noted, Sized, Copied
      <4>3. v \in plan.encrypted => sub[v].kmsID
        BY <4>1, Zenon DEF Noted
      <4>. QED  BY <1>3, <1>6, <4>1, <4>2, <4>3, Zenon DEF Made, Standing
    <3>3. v \in export' => v \in export
      BY Zenon
    <3>4. Made(v)' = Made(v) \/ (Made(v) = "ready" /\ Made(v)' = "partial")
      BY <3>1, <3>2, <3>3, Zenon
    <3>. QED  BY <1>2, <3>4, Zenon DEF Shown
  <2>. QED  BY <2>1, <2>2, Zenon
<1>. QED  BY <1>1, <1>5, <1>7, <1>10, <1>11, <1>12, Zenon DEF Good, Whole

\* The deletion is asked for when the volume is not in use.
LEMMA DeleteCallGood == ASSUME CephFsInv, NEW v \in Vol, DeleteCall(v) PROVE Good(v)
<1>0. PICK to : to = IF v \in plan.shallow THEN "removed" ELSE IF plan.nfs THEN "unexport" ELSE "dropKey"
  BY Zenon
<1>t. to \in {"removed", "unexport", "dropKey"} /\ (to = "removed" <=> v \in plan.shallow)
  BY <1>0, Zenon
<1>1. /\ ctl[v] = "idle" /\ v \in acked \ gone /\ v \notin using
      /\ ctl' = [ctl EXCEPT ![v] = to] /\ delWanted' = delWanted \cup {v}
      /\ UNCHANGED <<plan, snapOf, cap, sub, snaps, export, wanted, acked, gone, key, keyring, node, using, staged>>
  BY <1>0, Zenon DEF DeleteCall, Calls!Delete, Control, asked, cluster, secret, mountVars
<1>2. v \in Obj /\ v \notin Snap /\ Types /\ Rooted /\ Whole(v)
  BY Kinds, Zenon DEF CephFsInv
<1>3. Writes(v) /\ Tells(v)
  BY <1>1, Zenon DEF Writes, WritesSub, WritesSnaps, Tells
<1>4. Types' /\ Rooted' /\ Apart(v) /\ ctl'[v] = to
  <2>1. to # "tmpSnap" /\ to # "snap"
    BY <1>t, Zenon
  <2>. QED  BY <1>1, <1>2, <1>3, <2>1, CallStep, Zenon
<1>5. Asked(v)'
  BY <1>t, <1>1, <1>4, Zenon DEF Asked, Making, Removing
<1>6. Fits(v, sub[v], "idle") /\ Src(v)' = Src(v)
  BY <1>1, <1>2, Zenon DEF Whole, VolumeMade, Src
<1>7. Fits(v, sub[v], ctl[v])'
  <2>1. Noted(v, sub[v])' <=> Noted(v, sub[v])
    BY <1>1, Zenon DEF Noted
  <2>2. v \notin (acked \ delWanted)'
    BY <1>1, Zenon
  <2>. QED  BY <1>t, <1>1, <1>4, <1>6, <2>1, <2>2, Zenon DEF Fits
<1>8. VolumeMade(v)'
  <2>1. to # "reply"
    BY <1>t, Zenon
  <2>. QED  BY <1>1, <1>2, <1>4, <1>7, <2>1, Zenon DEF VolumeMade, Whole
<1>9. Keyed(v)'
  <2>1. v \in plan.shallow => v \notin plan.encrypted
    BY <1>2, Planned, Kinds, Zenon
  <2>. QED  BY <1>t, <1>1, <1>2, <1>4, <2>1, Zenon DEF Whole, Keyed
<1>10. Made(v)' = Made(v)
  <2>1. ctl'[v] # "reply" /\ ctl[v] # "reply"
    BY <1>t, <1>1, <1>4, Zenon
  <2>. QED  BY <1>1, <1>6, <2>1, Zenon DEF Made, Standing
<1>. QED  BY <1>1, <1>2, <1>4, <1>5, <1>8, <1>9, <1>10, Zenon DEF Good, Shown, Whole

LEMMA DeleteExportGood == ASSUME CephFsInv, NEW v \in Vol, DeleteExport(v) PROVE Good(v)
<1>1. /\ ctl[v] = "unexport" /\ ctl' = [ctl EXCEPT ![v] = "dropKey"] /\ export' = export \ {v}
      /\ UNCHANGED <<plan, snapOf, cap, wanted, acked, delWanted, gone, keyring, node, using, staged>>
      /\ UNCHANGED <<sub, snaps, key>>
  BY Zenon DEF DeleteExport, Calls!Step, Command, asked, secret, mountVars
<1>2. sub' = [sub EXCEPT ![v] = sub[v]] /\ WritesSnaps(v)
  BY <1>1, SubSame, Zenon DEF WritesSnaps
<1>3. v \in key' => sub[v] # None
  BY <1>1, Kinds, Zenon DEF CephFsInv, Whole, Keyed
<1>. QED  BY <1>1, <1>2, <1>3, DropGood, Zenon

\* The key of a volume that has one is found: the subvolume is there, with its id.
LEMMA DeleteKeyGood == ASSUME CephFsInv, NEW v \in Vol, DeleteKey(v) PROVE Good(v)
<1>1. /\ ctl[v] = "dropKey" /\ ctl' = [ctl EXCEPT ![v] = "reap"]
      /\ UNCHANGED <<plan, snapOf, cap, wanted, acked, delWanted, gone, keyring, node, using, staged>>
      /\ UNCHANGED <<sub, snaps, export>>
      /\ key' = IF sub[v] # None /\ sub[v].kmsID THEN key \ {v} ELSE key
  BY Zenon DEF DeleteKey, Calls!Step, asked, cluster, mountVars
<1>2. sub' = [sub EXCEPT ![v] = sub[v]] /\ WritesSnaps(v)
  BY <1>1, SubSame, Zenon DEF WritesSnaps
<1>3. v \in key => sub[v] # None /\ sub[v].kmsID
  <2>1. Keyed(v) /\ Fits(v, sub[v], ctl[v])
    BY Kinds, Zenon DEF CephFsInv, Whole, VolumeMade
  <2>2. v \in key => v \in plan.encrypted /\ v \in acked /\ sub[v] # None
    BY <2>1, Zenon DEF Keyed
  <2>. QED  BY <2>1, <2>2, Zenon DEF Fits, Noted
<1>4. v \notin key' /\ key' \in {key, key \ {v}}
  BY <1>1, <1>3, Zenon
<1>. QED  BY <1>1, <1>2, <1>4, DropGood, Zenon

\* What is reaped are temporary snapshots.
LEMMA DeleteReapGood == ASSUME CephFsInv, NEW v \in Vol, DeleteReap(v) PROVE Good(v)
<1>1. /\ ctl[v] = "reap" /\ ctl' = [ctl EXCEPT ![v] = "remove"]
      /\ UNCHANGED <<plan, snapOf, cap, wanted, acked, delWanted, gone, keyring, node, using, staged>>
      /\ UNCHANGED <<sub, key, export>>
      /\ snaps' = {p \in snaps : p[1] = v => p[2] \in Snap}
  BY Zenon DEF DeleteReap, Calls!Step, Command, asked, secret, mountVars
<1>2. sub' = [sub EXCEPT ![v] = sub[v]]
  BY <1>1, SubSame, Zenon
<1>3. WritesSnaps(v)
  <2>1. ASSUME NEW s \in Snap \ {v}, NEW w PROVE <<w, s>> \in snaps' <=> <<w, s>> \in snaps
    BY <1>1, SMT
  <2>2. \A w, m : <<w, m>> \in snaps' => <<w, m>> \in snaps
    BY <1>1, Zenon
  <2>. QED  BY <1>1, <2>1, <2>2, Zenon DEF WritesSnaps
<1>4. v \notin key'
  BY <1>1, Kinds, Zenon DEF CephFsInv, Whole, Keyed
<1>. QED  BY <1>1, <1>2, <1>3, <1>4, DropGood, Zenon

\* A subvolume that has snapshots stays.
LEMMA DeleteRemoveGood == ASSUME CephFsInv, NEW v \in Vol, DeleteRemove(v) PROVE Good(v)
<1>0. PICK ok : ok = (SnapsOf(v) = {})
  BY Zenon
<1>1. PICK to : to = IF ok THEN "removed" ELSE "idle"
  BY Zenon
<1>2. PICK x : x = IF ok THEN None ELSE sub[v]
  BY Zenon
<1>3. /\ ctl[v] = "remove" /\ ctl' = [ctl EXCEPT ![v] = to]
      /\ UNCHANGED <<plan, snapOf, cap, wanted, acked, delWanted, gone, keyring, node, using, staged>>
      /\ UNCHANGED <<snaps, key, export>>
      /\ sub' = IF ok THEN [sub EXCEPT ![v] = None] ELSE sub
  BY <1>0, <1>1, Zenon DEF DeleteRemove, Calls!Step, Command, asked, secret, mountVars
<1>4. sub' = [sub EXCEPT ![v] = x]
  BY <1>2, <1>3, SubSame, Zenon
<1>5. x = sub[v] \/ (x = None /\ \A m : <<v, m>> \notin snaps)
  <2>1. ASSUME ok, NEW m, <<v, m>> \in snaps PROVE FALSE
    <3>1. SnapsOf(v) = {}
      BY <1>0, <2>1, Zenon
    <3>2. <<v, m>> \in SnapsOf(v)
      BY <2>1, SMT DEF SnapsOf
    <3>. QED  BY <3>1, <3>2, Zenon
  <2>. QED  BY <1>2, <2>1, Zenon
<1>6. to \in {"idle", "removed"} /\ (to = "removed" => x = None)
  BY <1>1, <1>2, Zenon
<1>7. v \notin key' /\ WritesSnaps(v)
  BY <1>3, Kinds, Zenon DEF CephFsInv, Whole, Keyed, WritesSnaps
<1>. QED  BY <1>3, <1>4, <1>5, <1>6, <1>7, DropGood, Zenon

\* A volume that was served stays as large as the request, whatever it grows to.
LEMMA ExpandGood == ASSUME CephFsInv, NEW v \in Vol, Expand(v) PROVE Good(v)
<1>0. PICK e : e = cap[v] + 1
  BY Zenon
<1>1. PICK x : x = [sub[v] EXCEPT !.size = e]
  BY Zenon
<1>2. /\ v \in acked \ delWanted /\ v \notin plan.shallow /\ ctl[v] = "idle"
      /\ sub' = [sub EXCEPT ![v].size = cap[v] + 1] /\ cap' = [cap EXCEPT ![v] = e]
      /\ UNCHANGED <<plan, snapOf, snaps, export, ctl, wanted, acked, delWanted, gone, key, keyring, node, using, staged>>
  BY <1>0, Zenon DEF Expand, Calls!Held, secret, callVars, mountVars
<1>3. v \in Obj /\ v \notin Snap /\ Types /\ Rooted /\ Whole(v) /\ Fits(v, sub[v], "idle")
  BY <1>2, Kinds, Zenon DEF CephFsInv, Whole, VolumeMade
<1>4. Noted(v, sub[v])
  BY <1>2, <1>3, Zenon DEF Fits
<1>5. sub[v] # None /\ sub[v] \in Subvolume /\ sub[v].from = Src(v)
  BY <1>3, <1>4, Zenon DEF Noted, Sized, Copied, Fits, Types
<1>6. cap[v] \in Nat /\ cap[v] >= ReqSize[v] /\ ReqSize[v] \in Nat
  BY <1>2, <1>3, Planned, Zenon DEF Types, Whole, VolumeMade
<1>7. e \in Nat /\ e >= ReqSize[v]
  BY <1>0, <1>6, SMT
<1>8. /\ x \in Subvolume /\ x.size = e
      /\ x.state = sub[v].state /\ x.from = sub[v].from /\ x.kmsID = sub[v].kmsID
  BY <1>1, <1>5, <1>7, Resized, SMT
<1>9. sub' = [sub EXCEPT ![v] = x]
  BY <1>0, <1>1, <1>2, Zenon
<1>10. ctl' = [ctl EXCEPT ![v] = "idle"]
  BY <1>2, <1>3, Zenon DEF Types, On
<1>11. Writes(v) /\ Tells(v)
  BY <1>2, <1>7, <1>8, <1>9, Kinds, Zenon DEF Writes, WritesSub, WritesSnaps, Tells
<1>12. Types' /\ Rooted' /\ Apart(v) /\ ctl'[v] = "idle"
  BY <1>2, <1>3, <1>10, <1>11, CallStep, Zenon
<1>13. sub'[v] = x /\ Src(v)' = Src(v)
  BY <1>2, <1>3, <1>9, SubIs, Zenon
<1>14. Noted(v, x) /\ x # None
  BY <1>4, <1>7, <1>8, Kinds, Zenon DEF Noted, Sized, Copied
<1>15. Noted(v, sub[v])'
  BY <1>2, <1>13, <1>14, Zenon DEF Noted
<1>16. Fits(v, sub[v], ctl[v])'
  <2>1. Sized(v, sub[v])'
    BY <1>15, Zenon DEF Noted
  <2>2. v \in (wanted \ gone)'
    BY <1>2, <1>3, Zenon DEF Types
  <2>. QED  BY <1>2, <1>5, <1>8, <1>12, <1>13, <1>15, <2>1, <2>2, Zenon DEF Fits
<1>17. VolumeMade(v)'
  <2>1. cap'[v] = e
    BY <1>2, <1>3, Zenon DEF Types, On
  <2>2. plan.nfs => v \in export
    BY <1>2, <1>3, Zenon DEF Whole, VolumeMade
  <2>. QED  BY <1>2, <1>7, <1>16, <2>1, <2>2, Zenon DEF VolumeMade
<1>18. Asked(v)' /\ Keyed(v)'
  BY <1>2, <1>3, <1>12, <1>13, <1>14, Zenon DEF Whole, Asked, Keyed
<1>19. Made(v)' = Made(v)
  <2>1. Made(v) = IF plan.nfs => v \in export THEN "ready" ELSE "partial"
    BY <1>2, <1>4, <1>5, ServedMade, Zenon
  <2>2. /\ sub'[v] # None /\ sub'[v].state = "complete" /\ sub'[v].size >= ReqSize[v]
        /\ v \in plan.encrypted => sub'[v].kmsID
    BY <1>13, <1>14, Zenon DEF Noted, Sized, Copied
  <2>3. Made(v)' = IF plan.nfs => v \in export THEN "ready" ELSE "partial"
    BY <1>2, <1>5, <1>8, <1>13, <2>2, Zenon DEF Made, Standing
  <2>. QED  BY <2>1, <2>3, Zenon
<1>. QED  BY <1>2, <1>3, <1>12, <1>17, <1>18, <1>19, Zenon DEF Good, Shown, Whole

-----------------------------------------------------------------------------
(* Snapshots, and the responses *)

\* A snapshot's own entries among the snapshots.
LEMMA SnapsAdd ==
    ASSUME NEW s \in Snap, NEW w, snaps' = snaps \cup {<<w, s>>} \/ snaps' = snaps \ {<<w, s>>}
    PROVE  /\ \A x, m : <<x, m>> \in snaps' => <<x, m>> \in snaps \/ (x = w /\ m = s)
           /\ \A t \in Snap \ {s} : \A x : <<x, t>> \in snaps' <=> <<x, t>> \in snaps
<1>1. ASSUME NEW x, NEW m, <<x, m>> = <<w, s>> PROVE x = w /\ m = s
  BY <1>1, SMT
<1>2. ASSUME NEW x, NEW m, <<x, m>> \in snaps' PROVE <<x, m>> \in snaps \/ <<x, m>> = <<w, s>>
  BY <1>2, Zenon
<1>3. ASSUME NEW t \in Snap \ {s}, NEW x PROVE <<x, t>> \in snaps' <=> <<x, t>> \in snaps
  <2>1. <<x, t>> # <<w, s>>
    BY <1>1, <1>3, Zenon
  <2>. QED  BY <2>1, Zenon
<1>. QED  BY <1>1, <1>2, <1>3, Zenon

\* A call that is not answered promises nothing: a name that was used for another source
\* may be asked for again.
LEMMA SnapCallGood ==
    ASSUME CephFsInv, NEW s \in Snap, NEW v \in Vol, SnapCall(s, v) PROVE Good(s)
<1>1. /\ ctl[s] = "idle" /\ s \notin acked /\ v \in acked
      /\ wanted' = wanted \cup {s} /\ ctl' = [ctl EXCEPT ![s] = "snap"]
      /\ snapOf' = [snapOf EXCEPT ![s] = v]
      /\ UNCHANGED <<plan, cap, sub, snaps, export, acked, delWanted, gone, key, keyring, node, using, staged>>
  BY Zenon DEF SnapCall, Calls!Create, Calls!Held, cluster, secret, mountVars
<1>2. s \in Obj /\ s \notin Vol /\ Types /\ Rooted /\ Whole(s)
  BY Kinds, Zenon DEF CephFsInv
<1>3. Writes(s) /\ Tells(s)
  BY <1>1, Zenon DEF Writes, WritesSub, WritesSnaps, Tells
<1>4. snapOf'[s] = v
  BY <1>1, <1>2, Zenon DEF Types, On
<1>5. Types' /\ Rooted' /\ Apart(s) /\ ctl'[s] = "snap"
  BY <1>1, <1>2, <1>3, <1>4, CallStep, Zenon
<1>6. s \notin delWanted /\ s \notin gone
  BY <1>1, <1>2, Zenon DEF Types
<1>7. Asked(s)' /\ SnapshotMade(s)'
  BY <1>1, <1>5, <1>6, Zenon DEF Asked, Making, Removing, SnapshotMade
<1>8. Shown(s)
  <2>1. CASE s \in wanted
    <3>1. wanted' = wanted
      BY <1>1, <2>1, Zenon
    <3>. QED  BY <1>1, <2>1, <3>1, Zenon DEF Shown
  <2>2. CASE s \notin wanted
    <3>1. \A w : <<w, s>> \notin snaps
      BY <1>2, <2>2, Zenon DEF Rooted
    <3>2. <<snapOf[s], s>> \notin snaps /\ <<snapOf'[s], s>> \notin snaps'
      <4>1. snaps' = snaps
        BY <1>1, Zenon
      <4>2. \A w : <<w, s>> \notin snaps'
        BY <3>1, <4>1, Zenon
      <4>. QED  BY <3>1, <4>2, Zenon
    <3>3. Made(s)' = Made(s)
      BY <1>2, <3>2, Zenon DEF Made, MadeSnapshot
    <3>. QED  BY <1>1, <3>3, Zenon DEF Shown
  <2>. QED  BY <2>1, <2>2, Zenon
<1>. QED  BY <1>2, <1>5, <1>7, <1>8, Zenon DEF Good, Whole

LEMMA SnapCreateGood == ASSUME CephFsInv, NEW s \in Snap, SnapCreate(s) PROVE Good(s)
<1>0. PICK v : v = snapOf[s]
  BY Zenon
<1>1. PICK to : to = IF sub[v] # None THEN "reply" ELSE "idle"
  BY Zenon
<1>2. /\ ctl[s] = "snap" /\ ctl' = [ctl EXCEPT ![s] = to]
      /\ snaps' = IF sub[v] # None THEN snaps \cup {<<v, s>>} ELSE snaps
      /\ UNCHANGED <<plan, snapOf, cap, sub, export, wanted, acked, delWanted, gone, key, keyring, node, using, staged>>
  BY <1>0, <1>1, Zenon DEF SnapCreate, Calls!Step, Command, asked, secret, mountVars
<1>3. s \in Obj /\ s \notin Vol /\ Types /\ Rooted /\ Whole(s)
  BY Kinds, Zenon DEF CephFsInv
<1>4. v \in Vol /\ v \in acked /\ s \in wanted \ acked /\ s \notin delWanted /\ s \notin gone
  BY <1>0, <1>2, <1>3, Zenon DEF Rooted, Whole, Asked, Making, Types
<1>5. WritesSnaps(s)
  <2>1. CASE sub[v] = None
    BY <1>2, <2>1, Zenon DEF WritesSnaps
  <2>2. CASE sub[v] # None
    <3>1. snaps' = snaps \cup {<<v, s>>}
      BY <1>2, <2>2, Zenon
    <3>2. /\ \A x, m : <<x, m>> \in snaps' => <<x, m>> \in snaps \/ (x = v /\ m = s)
          /\ \A t \in Snap \ {s} : \A x : <<x, t>> \in snaps' <=> <<x, t>> \in snaps
      BY <3>1, SnapsAdd, Zenon
    <3>3. ASSUME NEW x, NEW m, <<x, m>> \in snaps', <<x, m>> \notin snaps
          PROVE  x \in Vol /\ x \in acked /\ sub[x] # None /\ s \in wanted /\ m = s
      BY <1>4, <2>2, <3>2, <3>3, SMT
    <3>. QED  BY <1>2, <3>2, <3>3, Zenon DEF WritesSnaps
  <2>. QED  BY <2>1, <2>2, Zenon
<1>6. Writes(s) /\ Tells(s)
  BY <1>2, <1>5, Zenon DEF Writes, WritesSub, Tells
<1>7. to \in {"idle", "reply"} /\ (to = "reply" => <<v, s>> \in snaps')
  BY <1>1, <1>2, Zenon
<1>8. Types' /\ Rooted' /\ Apart(s) /\ ctl'[s] = to
  <2>1. to # "tmpSnap" /\ to # "snap"
    BY <1>7, Zenon
  <2>. QED  BY <1>2, <1>3, <1>6, <2>1, CallStep, Zenon
<1>9. Asked(s)' /\ SnapshotMade(s)'
  BY <1>0, <1>2, <1>4, <1>7, <1>8, Zenon DEF Asked, Making, Removing, SnapshotMade
<1>10. Shown(s)
  BY <1>2, <1>4, Zenon DEF Shown
<1>. QED  BY <1>3, <1>8, <1>9, <1>10, Zenon DEF Good, Whole

LEMMA UnsnapCallGood == ASSUME CephFsInv, NEW s \in Snap, UnsnapCall(s) PROVE Good(s)
<1>1. /\ ctl[s] = "idle" /\ s \in acked \ gone
      /\ ctl' = [ctl EXCEPT ![s] = "unsnap"] /\ delWanted' = delWanted \cup {s}
      /\ UNCHANGED <<plan, snapOf, cap, sub, snaps, export, wanted, acked, gone, key, keyring, node, using, staged>>
  BY Zenon DEF UnsnapCall, Calls!Delete, Control, asked, cluster, secret, mountVars
<1>2. s \in Obj /\ s \notin Vol /\ Types /\ Rooted /\ Whole(s)
  BY Kinds, Zenon DEF CephFsInv
<1>3. Writes(s) /\ Tells(s)
  BY <1>1, Zenon DEF Writes, WritesSub, WritesSnaps, Tells
<1>4. Types' /\ Rooted' /\ Apart(s) /\ ctl'[s] = "unsnap"
  BY <1>1, <1>2, <1>3, CallStep, Zenon
<1>5. Asked(s)' /\ SnapshotMade(s)'
  BY <1>1, <1>4, Zenon DEF Asked, Making, Removing, SnapshotMade
<1>6. Made(s)' = Made(s)
  BY <1>1, <1>2, Zenon DEF Made, MadeSnapshot
<1>. QED  BY <1>1, <1>2, <1>4, <1>5, <1>6, Zenon DEF Good, Shown, Whole

LEMMA UnsnapRemoveGood == ASSUME CephFsInv, NEW s \in Snap, UnsnapRemove(s) PROVE Good(s)
<1>1. /\ ctl[s] = "unsnap" /\ ctl' = [ctl EXCEPT ![s] = "removed"]
      /\ snaps' = snaps \ {<<snapOf[s], s>>}
      /\ UNCHANGED <<plan, snapOf, cap, sub, export, wanted, acked, delWanted, gone, key, keyring, node, using, staged>>
  BY Zenon DEF UnsnapRemove, Calls!Step, asked, secret, mountVars
<1>2. s \in Obj /\ s \notin Vol /\ Types /\ Rooted /\ Whole(s)
  BY Kinds, Zenon DEF CephFsInv
<1>3. s \in delWanted \ gone /\ s \in acked
  BY <1>1, <1>2, Zenon DEF Whole, Asked, Removing, Types
<1>4. WritesSnaps(s)
  <2>1. \A t \in Snap \ {s} : \A x : <<x, t>> \in snaps' <=> <<x, t>> \in snaps
    BY <1>1, SnapsAdd, Zenon
  <2>2. \A x, m : <<x, m>> \in snaps' => <<x, m>> \in snaps
    BY <1>1, Zenon
  <2>. QED  BY <1>1, <2>1, <2>2, Zenon DEF WritesSnaps
<1>5. Writes(s) /\ Tells(s)
  BY <1>1, <1>4, Zenon DEF Writes, WritesSub, Tells
<1>6. Types' /\ Rooted' /\ Apart(s) /\ ctl'[s] = "removed"
  BY <1>1, <1>2, <1>5, CallStep, Zenon
<1>7. <<snapOf[s], s>> \notin snaps'
  BY <1>1, Zenon
<1>8. Asked(s)' /\ SnapshotMade(s)'
  BY <1>1, <1>3, <1>6, <1>7, Zenon DEF Asked, Making, Removing, SnapshotMade
<1>9. Made(s)' = "absent"
  BY <1>1, <1>2, <1>7, Zenon DEF Made, MadeSnapshot
<1>. QED  BY <1>1, <1>2, <1>3, <1>6, <1>8, <1>9, Zenon DEF Good, Shown, Whole

\* The answered calls.
LEMMA RespondGood == ASSUME CephFsInv, NEW n \in Obj, Respond(n) PROVE Good(n)
<1>1. /\ ctl' = [ctl EXCEPT ![n] = "idle"]
      /\ UNCHANGED <<plan, snapOf, cap, sub, snaps, export, wanted, delWanted, key, keyring, node, using, staged>>
  BY Zenon DEF Respond, Calls!Reply, Calls!DeleteReply, Control, asked, cluster, secret, mountVars
<1>2. Types /\ Rooted /\ Whole(n)
  BY Zenon DEF CephFsInv
<1>3. Writes(n)
  BY <1>1, Zenon DEF Writes, WritesSub, WritesSnaps
<1>4. ASSUME n \in Snap, Calls!Reply(n) PROVE Good(n)
  <2>1. ctl[n] = "reply" /\ acked' = acked \cup {n} /\ gone' = gone
    BY <1>4, Zenon DEF Calls!Reply
  <2>2. n \in wanted \ acked /\ n \notin delWanted /\ n \notin gone /\ n \notin Vol /\ SnapshotMade(n)
    BY <1>2, <1>4, <2>1, Kinds, Zenon DEF Whole, Asked, Making, Types
  <2>3. Tells(n)
    BY <1>1, <2>1, <2>2, Zenon DEF Tells
  <2>4. Types' /\ Rooted' /\ Apart(n) /\ ctl'[n] = "idle"
    BY <1>1, <1>2, <1>3, <2>3, CallStep, Zenon
  <2>5. <<snapOf[n], n>> \in snaps
    BY <2>1, <2>2, Zenon DEF SnapshotMade
  <2>6. Asked(n)' /\ SnapshotMade(n)'
    BY <1>1, <2>1, <2>2, <2>4, <2>5, Zenon DEF Asked, Making, Removing, SnapshotMade
  <2>7. Made(n) = "ready" /\ Made(n)' = "ready"
    BY <1>1, <2>2, <2>5, Zenon DEF Made, MadeSnapshot
  <2>. QED  BY <1>1, <2>1, <2>2, <2>4, <2>6, <2>7, Zenon DEF Good, Shown, Whole
<1>5. ASSUME Calls!DeleteReply(n) PROVE Good(n)
  <2>1. ctl[n] = "removed" /\ gone' = gone \cup {n} /\ acked' = acked
    BY <1>5, Zenon DEF Calls!DeleteReply
  <2>2. n \in delWanted \ gone /\ n \in acked /\ n \in wanted
    BY <1>2, <2>1, Zenon DEF Whole, Asked, Removing, Types
  <2>3. Tells(n)
    BY <1>1, <2>1, <2>2, Zenon DEF Tells
  <2>4. Types' /\ Rooted' /\ Apart(n) /\ ctl'[n] = "idle"
    BY <1>1, <1>2, <1>3, <2>3, CallStep, Zenon
  <2>5. Asked(n)'
    BY <2>4, Zenon DEF Asked, Making, Removing
  <2>6. ASSUME n \in Vol PROVE VolumeMade(n)' /\ Keyed(n)' /\ Made(n)' = "absent"
    <3>1. VolumeMade(n) /\ Keyed(n) /\ Fits(n, sub[n], "removed")
      BY <1>2, <2>1, <2>6, Zenon DEF Whole, VolumeMade
    <3>2. sub[n] = None /\ sub'[n] = None /\ Src(n)' = Src(n)
      BY <1>1, <3>1, Zenon DEF Fits, Src
    <3>3. n \notin (acked \ delWanted)' /\ n \notin (acked \ gone)'
      BY <1>1, <2>1, <2>2, Zenon
    <3>4. Fits(n, sub[n], ctl[n])'
      BY <1>1, <2>4, <3>2, <3>3, Zenon DEF Fits
    <3>5. VolumeMade(n)'
      BY <1>1, <2>1, <2>4, <3>1, <3>3, <3>4, Zenon DEF VolumeMade
    <3>6. Keyed(n)'
      BY <1>1, <2>1, <2>4, <3>1, <3>2, Zenon DEF Keyed
    <3>7. Made(n)' = "absent"
      BY <2>4, <2>6, <3>2, <3>3, Zenon DEF Made, Standing
    <3>. QED  BY <3>5, <3>6, <3>7, Zenon
  <2>7. ASSUME n \in Snap PROVE SnapshotMade(n)' /\ Made(n)' = "absent"
    <3>1. <<snapOf[n], n>> \notin snaps /\ n \notin Vol
      BY <1>2, <2>1, <2>7, Kinds, Zenon DEF Whole, SnapshotMade
    <3>. QED  BY <1>1, <2>1, <2>2, <2>4, <3>1, Zenon DEF SnapshotMade, Made, MadeSnapshot
  <2>8. n \in Vol \/ n \in Snap
    BY Zenon DEF Obj
  <2>. QED  BY <1>1, <2>1, <2>2, <2>4, <2>5, <2>6, <2>7, <2>8, Zenon DEF Good, Shown, Whole
<1>. QED  BY <1>4, <1>5, Zenon DEF Respond

\* A controller handler that dies promised nothing it had not told.
LEMMA LeftIdle ==
    ASSUME CephFsInv, NEW n \in Obj, ctl'[n] = "idle",
           UNCHANGED <<plan, snapOf, cap, sub, snaps, export, key, keyring, node, using, staged,
                       wanted, acked, delWanted, gone>>
    PROVE  Whole(n)' /\ (Made(n)' = Made(n) \/ n \in wanted \ acked)
<1>1. Whole(n) /\ Src(n)' = Src(n)
  BY Zenon DEF CephFsInv, Src
<1>2. Asked(n)'
  BY Zenon DEF Asked, Making, Removing
<1>3. ASSUME n \in Vol PROVE VolumeMade(n)' /\ Keyed(n)' /\ (Made(n)' = Made(n) \/ n \in wanted \ acked)
  <2>1. VolumeMade(n) /\ Keyed(n) /\ (Noted(n, sub[n])' <=> Noted(n, sub[n]))
    BY <1>1, <1>3, Zenon DEF Whole, Noted
  <2>2. Fits(n, sub[n], ctl[n])'
    BY <1>1, <2>1, Zenon DEF VolumeMade, Fits
  <2>3. VolumeMade(n)' /\ Keyed(n)'
    BY <2>1, <2>2, Zenon DEF VolumeMade, Keyed
  <2>4. CASE ctl[n] = "reply"
    BY <1>1, <2>3, <2>4, Zenon DEF Whole, Asked, Making
  <2>5. CASE ctl[n] # "reply"
    <3>1. CASE n \in plan.shallow
      BY <1>3, <2>3, <2>5, <3>1, Zenon DEF Made, Standing
    <3>2. CASE n \notin plan.shallow
      BY <1>1, <1>3, <2>3, <3>2, Zenon DEF Made, Standing
    <3>. QED  BY <3>1, <3>2, Zenon
  <2>. QED  BY <2>4, <2>5, Zenon
<1>4. ASSUME n \in Snap PROVE SnapshotMade(n)' /\ Made(n)' = Made(n)
  <2>1. n \notin Vol /\ SnapshotMade(n)
    BY <1>1, <1>4, Kinds, Zenon DEF Whole
  <2>. QED  BY <2>1, Zenon DEF SnapshotMade, Made, MadeSnapshot
<1>5. (n \in Vol \/ n \in Snap) /\ (n \in Snap => n \notin Vol)
  BY Kinds, Zenon DEF Obj
<1>. QED  BY <1>2, <1>3, <1>4, <1>5, Zenon DEF Whole

LEMMA CallsInterruptGood ==
    ASSUME CephFsInv, NEW n \in Obj, Calls!Interrupt(n),
           UNCHANGED <<plan, snapOf, cap, sub, snaps, export, key, keyring, node, using, staged>>
    PROVE  Good(n)
<1>1. ctl' = [ctl EXCEPT ![n] = "idle"] /\ UNCHANGED <<wanted, acked, delWanted, gone>>
  BY Zenon DEF Calls!Interrupt
<1>2. Types /\ Rooted
  BY Zenon DEF CephFsInv
<1>3. Writes(n) /\ Tells(n)
  BY <1>1, Zenon DEF Writes, WritesSub, WritesSnaps, Tells
<1>4. Types' /\ Rooted' /\ Apart(n) /\ ctl'[n] = "idle"
  BY <1>1, <1>2, <1>3, CallStep, Zenon
<1>. QED  BY <1>1, <1>4, LeftIdle, Zenon DEF Good, Shown

-----------------------------------------------------------------------------
(* The node *)

\* What a step of the node leaves alone.
AtNode(v) ==
    /\ UNCHANGED <<plan, snapOf, cap, sub, snaps, export, ctl, wanted, acked, delWanted, gone>>
    /\ node' = node \/ \E pc : node' = [node EXCEPT ![v] = pc]
    /\ using' \in {using, using \cup {v}, using \ {v}}
    /\ staged' \in {staged, staged \cup {v}, staged \ {v}}
    /\ key' \in {key, key \cup {v}}
    /\ keyring' \in {keyring, keyring \cup {v}, keyring \ {v}}

\* The caller of the controller sees nothing of it.
LEMMA NodeGood == ASSUME CephFsInv, NEW v \in Vol, AtNode(v), Keyed(v)' PROVE Good(v)
<1>1. v \in Obj /\ v \notin Snap /\ Types /\ Rooted /\ Whole(v)
  BY Kinds, Zenon DEF CephFsInv
<1>2. UNCHANGED <<plan, snapOf, cap, sub, snaps, export, ctl, wanted, acked, delWanted, gone>>
  BY Zenon DEF AtNode
<1>3. On(Vol, node)' /\ \A w \in Vol \ {v} : node'[w] = node[w]
  BY <1>1, Zenon DEF AtNode, Types, On
<1>4. \A w \in Vol \ {v} : /\ w \in using' <=> w \in using
                           /\ w \in staged' <=> w \in staged
                           /\ w \in key' <=> w \in key
                           /\ w \in keyring' <=> w \in keyring
  BY Zenon DEF AtNode
<1>5. Types'
  <2>1. key' \subseteq Vol
    BY <1>1, Zenon DEF AtNode, Types
  <2>. QED  BY <1>1, <1>2, <1>3, <2>1, Zenon DEF Types, On
<1>6. Rooted' /\ Src(v)' = Src(v)
  BY <1>1, <1>2, Zenon DEF Rooted, Src
<1>7. Apart(v)
  BY <1>2, <1>3, <1>4, Zenon DEF Apart
<1>8. Asked(v)' /\ VolumeMade(v)'
  <2>1. Fits(v, sub[v], ctl[v])'
    BY <1>1, <1>2, <1>6, Zenon DEF Whole, VolumeMade, Fits, Noted
  <2>. QED  BY <1>1, <1>2, <2>1, Zenon DEF Whole, VolumeMade, Asked
<1>9. Made(v)' = Made(v)
  BY <1>2, <1>6, Zenon DEF Made, Standing
<1>. QED  BY <1>1, <1>2, <1>5, <1>6, <1>7, <1>8, <1>9, Zenon DEF Good, Shown, Whole

\* What a step of the node does to v's handler there.
LEMMA NodeIs ==
    ASSUME CephFsInv, NEW v \in Vol, NEW pc, node' = [node EXCEPT ![v] = pc]
    PROVE  node'[v] = pc
BY Zenon DEF CephFsInv, Types, On

LEMMA StageCallGood == ASSUME CephFsInv, NEW v \in Vol, StageCall(v) PROVE Good(v)
<1>1. /\ v \in acked \ delWanted /\ node[v] = "idle" /\ v \notin staged
      /\ using' = using \cup {v} /\ node' = [node EXCEPT ![v] = "mount"]
      /\ UNCHANGED <<staged, key, keyring>>
      /\ UNCHANGED <<plan, snapOf, cap, sub, snaps, export, ctl, wanted, acked, delWanted, gone>>
  BY Zenon DEF StageCall, Mounts!StageCall, Mounts!Goto, Calls!Held, NodeOnly, asked, cluster, secret, callVars
<1>2. node'[v] = "mount" /\ Keyed(v)
  BY <1>1, NodeIs, Kinds, Zenon DEF CephFsInv, Whole
<1>3. Keyed(v)'
  BY <1>1, <1>2, Zenon DEF Keyed
<1>4. AtNode(v)
  BY <1>1, Zenon DEF AtNode
<1>. QED  BY <1>3, <1>4, NodeGood, Zenon

LEMMA StageMountGood == ASSUME CephFsInv, NEW v \in Vol, StageMount(v) PROVE Good(v)
<1>0. PICK to : to = IF v \in plan.encrypted THEN "key" ELSE "staged"
  BY Zenon
<1>1. /\ node[v] = "mount" /\ node' = [node EXCEPT ![v] = to]
      /\ UNCHANGED <<using, staged, key, keyring>>
      /\ UNCHANGED <<plan, snapOf, cap, sub, snaps, export, ctl, wanted, acked, delWanted, gone>>
  BY <1>0, Zenon DEF StageMount, Mounts!Mount, Mounts!Goto, NodeOnly, asked, cluster, secret, callVars
<1>2. node'[v] = to /\ Keyed(v)
  BY <1>1, NodeIs, Kinds, Zenon DEF CephFsInv, Whole
<1>3. (to = "key" => v \in plan.encrypted) /\ (to = "staged" => v \notin plan.encrypted)
  BY <1>0, Zenon
<1>4. Keyed(v)'
  BY <1>1, <1>2, <1>3, Zenon DEF Keyed
<1>5. AtNode(v)
  BY <1>1, Zenon DEF AtNode
<1>. QED  BY <1>4, <1>5, NodeGood, Zenon

\* The volume whose key is stored is in use, so it is there and not being deleted.
LEMMA StageKeyGood == ASSUME CephFsInv, NEW v \in Vol, StageKey(v) PROVE Good(v)
<1>1. /\ node[v] = "key" /\ node' = [node EXCEPT ![v] = "staged"]
      /\ key' = key \cup {v} /\ keyring' = keyring \cup {v}
      /\ UNCHANGED <<using, staged>>
      /\ UNCHANGED <<plan, snapOf, cap, sub, snaps, export, ctl, wanted, acked, delWanted, gone>>
  BY Zenon DEF StageKey, NodeOnly, asked, cluster, callVars
<1>2. node'[v] = "staged" /\ Keyed(v) /\ Types /\ Whole(v)
  BY <1>1, NodeIs, Kinds, Zenon DEF CephFsInv, Whole
<1>3. v \in using /\ v \in plan.encrypted /\ v \in acked \ delWanted
  BY <1>1, <1>2, Zenon DEF Keyed
<1>4. v \notin plan.shallow
  BY <1>2, <1>3, Planned, Kinds, Zenon
<1>5. sub[v] # None
  <2>1. Fits(v, sub[v], ctl[v])
    BY <1>2, Zenon DEF Whole, VolumeMade
  <2>2. Noted(v, sub[v])
    BY <1>3, <1>4, <2>1, Zenon DEF Fits
  <2>. QED  BY <2>2, Zenon DEF Noted, Sized, Copied
<1>6. ctl[v] \notin {"reap", "remove", "removed"}
  BY <1>2, <1>3, Zenon DEF Whole, Asked, Removing
<1>7. Keyed(v)'
  BY <1>1, <1>2, <1>3, <1>5, <1>6, Zenon DEF Keyed
<1>8. AtNode(v)
  BY <1>1, Zenon DEF AtNode
<1>. QED  BY <1>7, <1>8, NodeGood, Zenon

LEMMA StageReplyGood == ASSUME CephFsInv, NEW v \in Vol, StageReply(v) PROVE Good(v)
<1>1. /\ node[v] = "staged" /\ node' = [node EXCEPT ![v] = "idle"] /\ staged' = staged \cup {v}
      /\ UNCHANGED <<using, key, keyring>>
      /\ UNCHANGED <<plan, snapOf, cap, sub, snaps, export, ctl, wanted, acked, delWanted, gone>>
  BY Zenon DEF StageReply, Mounts!StageReply, Mounts!Goto, NodeOnly, asked, cluster, secret, callVars
<1>2. node'[v] = "idle" /\ Keyed(v)
  BY <1>1, NodeIs, Kinds, Zenon DEF CephFsInv, Whole
<1>3. Keyed(v)'
  BY <1>1, <1>2, Zenon DEF Keyed
<1>4. AtNode(v)
  BY <1>1, Zenon DEF AtNode
<1>. QED  BY <1>3, <1>4, NodeGood, Zenon

LEMMA NodeUnstageGood == ASSUME CephFsInv, NEW v \in Vol, NodeUnstage(v) PROVE Good(v)
<1>1. /\ node[v] = "idle" /\ using' = using \ {v} /\ staged' = staged \ {v} /\ keyring' = keyring \ {v}
      /\ UNCHANGED <<node, key>>
      /\ UNCHANGED <<plan, snapOf, cap, sub, snaps, export, ctl, wanted, acked, delWanted, gone>>
  BY Zenon DEF NodeUnstage, Mounts!Unstage, NodeOnly, asked, cluster, callVars
<1>2. Keyed(v)
  BY Kinds, Zenon DEF CephFsInv, Whole
<1>3. Keyed(v)'
  BY <1>1, <1>2, Zenon DEF Keyed
<1>4. AtNode(v)
  BY <1>1, Zenon DEF AtNode
<1>. QED  BY <1>3, <1>4, NodeGood, Zenon

\* Publishing, its undoing and a node handler that dies leave the staging alone.
LEMMA PublishGood ==
    ASSUME CephFsInv, NEW v \in Vol,
           node' = node \/ \E pc \in {"idle", "bind", "remount"} : node' = [node EXCEPT ![v] = pc],
           UNCHANGED <<using, staged, key, keyring>>,
           UNCHANGED <<plan, snapOf, cap, sub, snaps, export, ctl, wanted, acked, delWanted, gone>>
    PROVE  Good(v)
<1>1. Keyed(v)
  BY Kinds, Zenon DEF CephFsInv, Whole
<1>2. node'[v] = node[v] \/ node'[v] \in {"idle", "bind", "remount"}
  BY NodeIs, Zenon
<1>3. Keyed(v)'
  BY <1>1, <1>2, Zenon DEF Keyed
<1>4. AtNode(v)
  BY Zenon DEF AtNode
<1>. QED  BY <1>3, <1>4, NodeGood, Zenon

-----------------------------------------------------------------------------
(* The whole *)

\* Every step but a restart is a good one on its object.
LEMMA NextGood == ASSUME CephFsInv, Next PROVE Restart \/ \E n \in Obj : Good(n)
<1>1. ASSUME NEW v \in Vol,
             \/ CreateCall(v) \/ CreateShallow(v) \/ CreateFresh(v) \/ CloneTmpSnap(v)
             \/ CloneStart(v) \/ CloneWait(v) \/ CloneDropTmp(v) \/ CloneResize(v)
             \/ CreateRecord(v) \/ CreateExport(v) \/ CreateReply(v) \/ CloneEnds(v)
      PROVE  Good(v)
  BY <1>1, CreateCallGood, CreateShallowGood, CreateFreshGood, CloneTmpSnapGood, CloneStartGood,
     CloneWaitGood, CloneDropTmpGood, CloneResizeGood, CreateRecordGood, CreateExportGood,
     CreateReplyGood, CloneEndsGood, Zenon
<1>2. ASSUME NEW v \in Vol,
             \/ DeleteCall(v) \/ DeleteExport(v) \/ DeleteKey(v) \/ DeleteReap(v)
             \/ DeleteRemove(v) \/ Expand(v)
      PROVE  Good(v)
  BY <1>2, DeleteCallGood, DeleteExportGood, DeleteKeyGood, DeleteReapGood, DeleteRemoveGood,
     ExpandGood, Zenon
<1>3. ASSUME NEW s \in Snap,
             \/ \E v \in Vol : SnapCall(s, v)
             \/ SnapCreate(s) \/ UnsnapCall(s) \/ UnsnapRemove(s)
      PROVE  Good(s)
  BY <1>3, SnapCallGood, SnapCreateGood, UnsnapCallGood, UnsnapRemoveGood, Zenon
<1>4. ASSUME NEW v \in Vol,
             \/ StageCall(v) \/ StageMount(v) \/ StageKey(v) \/ StageReply(v)
             \/ NodeUnstage(v) \/ NodePublish(v) \/ NodeUnpublish(v)
      PROVE  Good(v)
  <2>1. ASSUME NodePublish(v) \/ NodeUnpublish(v) PROVE Good(v)
    <3>1. /\ UNCHANGED <<using, staged, key, keyring>>
          /\ UNCHANGED <<plan, snapOf, cap, sub, snaps, export, ctl, wanted, acked, delWanted, gone>>
      BY <2>1, Zenon DEF NodePublish, NodeUnpublish, Mounts!PublishCall, Mounts!Bind,
         Mounts!Remount, Mounts!Unpublish, NodeOnly, asked, cluster, secret, callVars
    <3>2. node' = node \/ \E pc \in {"idle", "bind", "remount"} : node' = [node EXCEPT ![v] = pc]
      BY <2>1, Zenon DEF NodePublish, NodeUnpublish, Mounts!PublishCall, Mounts!Bind,
         Mounts!Remount, Mounts!Unpublish, Mounts!Goto
    <3>. QED  BY <3>1, <3>2, PublishGood, Zenon
  <2>. QED  BY <1>4, <2>1, StageCallGood, StageMountGood, StageKeyGood, StageReplyGood,
               NodeUnstageGood, Zenon
<1>5. ASSUME NEW n \in Obj, Interrupt(n) PROVE Good(n)
  <2>1. UNCHANGED <<plan, snapOf, cap, sub, snaps, export, key, keyring>>
    BY <1>5, Zenon DEF Interrupt, asked, cluster, secret
  <2>2. CASE Calls!Interrupt(n) /\ UNCHANGED mountVars
    <3>1. UNCHANGED <<node, using, staged>>
      BY <2>2, Zenon DEF mountVars
    <3>. QED  BY <2>1, <2>2, <3>1, CallsInterruptGood, Zenon
  <2>3. CASE n \in Vol /\ Mounts!Interrupt(n) /\ UNCHANGED callVars
    <3>1. /\ node' = [node EXCEPT ![n] = "idle"]
          /\ UNCHANGED <<using, staged, ctl, wanted, acked, delWanted, gone>>
      BY <2>3, Zenon DEF Mounts!Interrupt, Mounts!Goto, callVars
    <3>. QED  BY <2>1, <2>3, <3>1, PublishGood, Zenon
  <2>. QED  BY <1>5, <2>2, <2>3, Zenon DEF Interrupt
<1>6. ASSUME NEW n \in Obj, Handler(n) PROVE Good(n)
  BY <1>1, <1>2, <1>3, <1>6, RespondGood, Zenon DEF Handler
<1>7. Vol \subseteq Obj /\ Snap \subseteq Obj
  BY Zenon DEF Obj
<1>. QED  BY <1>1, <1>2, <1>3, <1>4, <1>5, <1>6, <1>7, Zenon DEF Next

\* A restart ends the attempts at work on any number of objects, none of them acknowledged.
LEMMA RestartGood == ASSUME CephFsInv, Restart PROVE CephFsInv' /\ ServesStep
<1>1. /\ ctl' = [n \in Obj |-> "idle"]
      /\ UNCHANGED <<plan, snapOf, cap, sub, snaps, export, key, keyring, node, using, staged,
                     wanted, acked, delWanted, gone>>
  BY Zenon DEF Restart, asked, cluster, secret, mountVars
<1>2. \A n \in Obj : ctl'[n] = "idle"
  BY <1>1, Zenon
<1>3. \A n \in Obj : Whole(n)' /\ (Made(n)' = Made(n) \/ n \in wanted \ acked)
  BY <1>1, <1>2, LeftIdle, Zenon
<1>4. Types'
  BY <1>1, <1>2, Zenon DEF CephFsInv, Types, On
<1>5. Rooted'
  BY <1>1, <1>2, Kinds, Zenon DEF CephFsInv, Rooted, Src
<1>6. \A n \in Obj : Made(n)' \in {"absent", "partial", "ready"}
  BY Zenon DEF Made, Standing, MadeSnapshot
<1>7. CephFsInv'
  BY <1>3, <1>4, <1>5, Zenon DEF CephFsInv
<1>. DEFINE made == [m \in Obj |-> IF m \in Vol THEN MadeVolume(m) ELSE MadeSnapshot(m)]
<1>8. made = [m \in Obj |-> Made(m)] /\ made' = [m \in Obj |-> Made(m)']
  BY <1>7, MadeIs, MadeNext, Zenon
<1>. HIDE DEF made
<1>9. /\ made' \in [Obj -> {"absent", "partial", "ready"}]
      /\ \A m \in Obj : m \in wanted \ acked \/ made'[m] = made[m]
  BY <1>3, <1>6, <1>8, Zenon
<1>10. Service!Work
  BY <1>1, <1>9, Zenon DEF Service!Work, made
<1>. QED  BY <1>7, <1>10, Zenon DEF ServesStep, Service!Next

LEMMA CephFsStart == Init => CephFsInv /\ Service!Init
<1>. SUFFICES ASSUME Init PROVE CephFsInv /\ Service!Init
  BY Zenon
<1>1. /\ plan \in Plans /\ sub = [v \in Vol |-> None] /\ snaps = {} /\ export = {}
      /\ key = {} /\ keyring = {} /\ snapOf = [s \in Snap |-> None] /\ cap = [v \in Vol |-> 0]
      /\ ctl = [o \in Obj |-> "idle"]
      /\ wanted = {} /\ acked = {} /\ delWanted = {} /\ gone = {}
      /\ node = [v \in Vol |-> "idle"] /\ using = {} /\ staged = {}
  BY Zenon DEF Init, Calls!Init, Mounts!Init
<1>2. \A v \in Vol : cap[v] \in Nat
  BY <1>1, SMT
<1>3. Types
  BY <1>1, <1>2, Zenon DEF Types, On
<1>4. Rooted
  BY <1>1, Kinds, Zenon DEF Rooted
<1>5. ASSUME NEW n \in Obj PROVE Whole(n)
  <2>1. ctl[n] = "idle" /\ Asked(n)
    BY <1>1, Zenon DEF Asked, Making, Removing
  <2>2. ASSUME n \in Vol PROVE VolumeMade(n) /\ Keyed(n)
    <3>1. sub[n] = None /\ node[n] = "idle"
      BY <1>1, <2>2, Zenon
    <3>2. Fits(n, sub[n], ctl[n])
      BY <1>1, <2>1, <3>1, Zenon DEF Fits
    <3>. QED  BY <1>1, <2>1, <3>1, <3>2, Zenon DEF VolumeMade, Keyed
  <2>3. n \in Snap => SnapshotMade(n)
    BY <1>1, <2>1, Zenon DEF SnapshotMade
  <2>. QED  BY <2>1, <2>2, <2>3, Zenon DEF Whole
<1>6. ASSUME NEW n \in Obj PROVE Made(n) = "absent"
  <2>1. ASSUME n \in Vol PROVE Standing(n) = "absent"
    <3>1. sub[n] = None /\ ctl[n] # "reply"
      BY <1>1, <2>1, Zenon
    <3>. QED  BY <1>1, <3>1, Zenon DEF Standing
  <2>2. snaps = {}
    BY <1>1, Zenon
  <2>3. MadeSnapshot(n) = "absent"
    BY <2>2, Zenon DEF MadeSnapshot
  <2>. QED  BY <2>1, <2>3, Zenon DEF Made
<1>7. CephFsInv
  BY <1>3, <1>4, <1>5, Zenon DEF CephFsInv
<1>8. Service!Init
  BY <1>1, <1>6, <1>7, MadeIs, Zenon DEF Service!Init
<1>. QED  BY <1>7, <1>8, Zenon

LEMMA CephFsStep == ASSUME CephFsInv, [Next]_vars PROVE CephFsInv' /\ ServesStep
<1>1. CASE Next
  BY <1>1, NextGood, RestartGood, OneStep, Zenon
<1>2. CASE UNCHANGED vars
  <2>1. UNCHANGED <<plan, snapOf, cap, sub, snaps, export, key, keyring, node, using, staged,
                    ctl, wanted, acked, delWanted, gone>>
    BY <1>2, Zenon DEF vars, asked, cluster, secret, callVars, mountVars
  <2>2. Types'
    BY <2>1, Zenon DEF CephFsInv, Types, On
  <2>3. Rooted'
    BY <2>1, Zenon DEF CephFsInv, Rooted, Src
  <2>4. ASSUME NEW n \in Obj PROVE Whole(n)'
    BY <2>1, Zenon DEF CephFsInv, Whole, Asked, VolumeMade, Keyed, SnapshotMade, Fits, Noted, Src
  <2>5. \A n \in Obj : Made(n)' = Made(n)
    BY <2>1, Zenon DEF Made, Standing, MadeSnapshot, Src
  <2>6. CephFsInv'
    BY <2>2, <2>3, <2>4, Zenon DEF CephFsInv
  <2>7. UNCHANGED Service!vars
    BY <2>1, <2>5, <2>6, MadeIs, MadeNext, Zenon DEF Service!vars
  <2>. QED  BY <2>6, <2>7, Zenon DEF ServesStep
<1>. QED  BY <1>1, <1>2, Zenon

\* CreateVolume, DeleteVolume, ExpandVolume, CreateSnapshot and DeleteSnapshot (cephfsplugin)
\* keep what a CSI caller may rely on, for any volumes, snapshots, copies of copies, shallow
\* and encrypted volumes, exports and faults.  What a shallow volume shows is promised until
\* the deletion of its snapshot is asked for, and no longer.
THEOREM CephFsServes == Spec => Served
<1>1. CephFsInv /\ [Next]_vars => CephFsInv' /\ [Service!Next]_(Service!vars)
  BY CephFsStep, Zenon DEF ServesStep
<1>. QED  BY <1>1, CephFsStart, PTL DEF Spec, Served, Service!Spec

\* What each handler of the CephFS plugin knows at each of its commands, and what the node
\* holds of a volume.
THEOREM CephFsInductive == Spec => []CephFsInv
BY CephFsStep, CephFsStart, PTL DEF Spec

\* NodeStage answers only when the key of an encrypted volume is in the KMS and in the
\* keyring of its mount, however its earlier attempts were cut short.
THEOREM CephFsStagedKeyed == Spec => []StagedKeyed
<1>1. ASSUME CephFsInv PROVE StagedKeyed
  <2>1. plan.encrypted \subseteq Vol
    BY <1>1, Instance, Zenon DEF CephFsInv, Types
  <2>2. \A v \in Vol : Keyed(v)
    BY <1>1, Kinds, Zenon DEF CephFsInv, Whole
  <2>. QED  BY <2>1, <2>2, Zenon DEF StagedKeyed, Keyed
<1>. QED  BY <1>1, CephFsInductive, PTL

\* DeleteVolume removes the key before the subvolume that tells which KMS holds it, so a
\* deletion cut short anywhere leaves no key that nothing finds.
THEOREM CephFsNoKeyLeft == Spec => []NoKeyLeft
<1>1. ASSUME CephFsInv PROVE NoKeyLeft
  <2>1. key \subseteq Vol
    BY <1>1, Zenon DEF CephFsInv, Types
  <2>2. \A v \in Vol : Keyed(v)
    BY <1>1, Kinds, Zenon DEF CephFsInv, Whole
  <2>. QED  BY <2>1, <2>2, Zenon DEF NoKeyLeft, Keyed
<1>. QED  BY <1>1, CephFsInductive, PTL

=============================================================================
