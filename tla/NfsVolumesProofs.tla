--------------------------- MODULE NfsVolumesProofs ---------------------------
(***************************************************************************)
(* The NFS plugin, for every set of volumes and snapshots, every choice of  *)
(* sources, directories and deletion policy and every number of faults: it  *)
(* implements ObjectService, and its node handlers tell the kubelet the     *)
(* truth about every mount.                                                 *)
(*                                                                          *)
(* Every step of a controller handler works on one object.  The lemmas      *)
(* named ...Good show of each operation what it leaves of that object and   *)
(* that no other object notices; OneStep draws the conclusion.  Two volumes *)
(* may have the same directory, one after the other: Exclusive and Alone    *)
(* say why no handler ever meets the other one's data there.  Where they    *)
(* have it at the same time, Loose shows that only they notice.             *)
(***************************************************************************)
EXTENDS NfsVolumes, TLAPS

\* Functions by their values.
On(S, f) == f = [x \in S |-> f[x]]

\* The volume's directory is there, and its own.
Mine(v) == dir[DirOf(v)] # None /\ dir[DirOf(v)].owner = v

Types ==
    /\ plan \in Plans /\ On(Dirs, dir) /\ On(Snap, tar) /\ On(Snap, snapOf) /\ On(Obj, ctl)
    /\ \A d \in Dirs : dir[d] # None => dir[d] \in Directory /\ DirOf(dir[d].owner) = d
    /\ \A s \in Snap : tar[s] # None => tar[s] \in Archive
    /\ wanted \subseteq Obj /\ acked \subseteq wanted /\ delWanted \subseteq acked
    /\ gone \subseteq delWanted

\* The volumes the plugin can keep.
Keeps(v) == plan.orderly \/ Rivals(v) = {}

\* A directory of an orderly plan has one volume at a time, and for good where deletions retain it.
Exclusive ==
    \A v, w \in Vol \cap wanted : plan.orderly /\ v # w /\ DirOf(v) = DirOf(w) =>
        (v \in gone \/ w \in gone) /\ plan.onDelete # "retain"

\* What a handler does before a create is acknowledged, and after a delete was asked for.
Making == {"mkdir", "fill", "check", "tar", "label", "umount", "reply"}
Removing == {"remove", "unlabel", "untar", "umountRemoved", "removed"}

Asked(n) ==
    /\ ctl[n] \in {"idle"} \cup Making \cup Removing
    /\ ctl[n] \in Making => n \in wanted \ acked
    /\ ctl[n] \in Removing => n \in delWanted \ gone
    /\ n \in Vol => ctl[n] \notin {"check", "tar", "label", "unlabel", "untar"}

\* How far the handler of a volume has come: its directory holds the content that was
\* asked for from the last unmount on, and is not its own any more once it was removed.
VolumeMade(v) ==
    /\ Mine(v) => /\ v \in wanted /\ (v \in gone => plan.onDelete = "retain")
                  /\ Src(v) = None /\ v \notin delWanted => dir[DirOf(v)].from = None
    /\ ctl[v] = "fill" => Src(v) # None /\ Mine(v)
    /\ ctl[v] \in {"umount", "reply"} \/ v \in acked \ delWanted =>
          Mine(v) /\ dir[DirOf(v)].from = Src(v)
    /\ ctl[v] \in {"umountRemoved", "removed"} /\ plan.onDelete # "retain" => ~Mine(v)

\* The same of a snapshot and its archive.
SnapshotMade(s) ==
    /\ ctl[s] \notin {"mkdir", "fill", "remove"}
    /\ tar[s] # None => s \in wanted
    /\ ctl[s] \in {"check", "tar"} => snapOf[s] \in Vol
    /\ ctl[s] \in {"label", "umount", "reply"} \/ s \in acked \ delWanted =>
          tar[s] # None /\ tar[s].whole = TRUE /\ tar[s].of = snapOf[s]
    /\ ctl[s] \in {"umountRemoved", "removed"} \/ s \in gone => tar[s] = None

Whole(n) ==
    /\ Asked(n)
    /\ n \in Vol /\ Keeps(n) => VolumeMade(n)
    /\ n \in Snap => SnapshotMade(n)

NfsInv == Types /\ Exclusive /\ \A n \in Obj : Whole(n)

\* What the kubelet was told, and what the node's handlers have done of their work.
MountInv ==
    /\ On(Vol, node) /\ On(Vol, bind)
    /\ KubeletToldTrue
    /\ \A v \in Vol : /\ node[v] \in {"mount", "staged"} => v \in using
                      /\ node[v] = "staged" => v \in mnt
                      /\ node[v] \in {"bind", "remount"} => v \in staged
                      /\ node[v] = "remount" => bind[v] # "none"

-----------------------------------------------------------------------------
(* A step on one object *)

\* What the others see of a step on n: nothing.
Apart(n) ==
    /\ plan' = plan
    /\ \A m \in Obj \ {n} :
          /\ ctl'[m] = ctl[m]
          /\ m \in wanted' <=> m \in wanted
          /\ m \in acked' <=> m \in acked
          /\ m \in delWanted' <=> m \in delWanted
          /\ m \in gone' <=> m \in gone
    /\ \A s \in Snap \ {n} :
          tar'[s] = tar[s] /\ snapOf'[s] = snapOf[s]
    /\ \A v \in Vol \ {n} : Keeps(v) =>
          /\ Mine(v)' <=> Mine(v)
          /\ Mine(v) => dir'[DirOf(v)] = dir[DirOf(v)]

Made(n) == IF n \in Vol THEN MadeVolume(n) ELSE MadeSnapshot(n)

\* What the caller sees of n.
Shown(n) ==
    \/ Made(n)' = Made(n) /\ UNCHANGED <<wanted, acked, delWanted, gone>>
    \/ n \in wanted \ acked /\ UNCHANGED <<wanted, acked, delWanted, gone>>
    \/ Made(n)' = Made(n) /\ wanted' = wanted \cup {n} /\ UNCHANGED <<acked, delWanted, gone>>
    \/ /\ Made(n)' = Made(n) /\ Made(n) = "ready" /\ n \in wanted
       /\ acked' = acked \cup {n} /\ UNCHANGED <<wanted, delWanted, gone>>
    \/ /\ Made(n)' = Made(n) /\ n \in acked
       /\ delWanted' = delWanted \cup {n} /\ UNCHANGED <<wanted, acked, gone>>
    \/ /\ Made(n) = "ready" /\ Made(n)' = "partial" /\ n \in delWanted
       /\ UNCHANGED <<wanted, acked, delWanted, gone>>
    \/ /\ Made(n)' = "absent" /\ n \in delWanted
       /\ gone' \in {gone, gone \cup {n}} /\ UNCHANGED <<wanted, acked, delWanted>>

\* All that a step on n has to show.
Good(n) == /\ Types' /\ Exclusive' /\ Whole(n)' /\ Apart(n)
           /\ n \in Keepable => Shown(n)

ServesStep == Service!Next \/ UNCHANGED Service!vars

\* Volumes, snapshots, directories and archives are told apart, and from None.
LEMMA Kinds == /\ \A v \in Vol : v \in Obj /\ v \notin Snap /\ v # None
               /\ \A s \in Snap : s \in Obj /\ s \notin Vol /\ s # None
               /\ None \notin Directory /\ None \notin Archive
BY Instance, Zenon DEF Obj

\* What can be kept depends on the plan.
LEMMA Steady == ASSUME plan' = plan
                PROVE  Keepable' = Keepable /\ \A v \in Vol : Keeps(v)' <=> Keeps(v)
<1>1. \A v : DirOf(v)' = DirOf(v)
  BY Zenon DEF DirOf
<1>2. \A v : Rivals(v)' = Rivals(v)
  BY <1>1, Zenon DEF Rivals
<1>. QED  BY <1>2, Zenon DEF Keepable, Keeps

LEMMA Kept == /\ \A v \in Vol : v \in Keepable <=> Keeps(v)
              /\ \A s \in Snap : s \in Keepable
              /\ \A n \in Obj : n \in Keepable /\ n \in Vol => Keeps(n)
BY Kinds, Zenon DEF Keepable, Keeps

\* A plan gives every volume a directory of the export.
LEMMA Paths == ASSUME Types, NEW v \in Vol PROVE DirOf(v) \in Dirs
<1>1. plan \in Plans
  BY Zenon DEF Types
<1>2. DirOf(v) \in {plan.dir[w] : w \in Vol}
  BY Zenon DEF DirOf
<1>3. {plan.dir[w] : w \in Vol} \in {{p.dir[w] : w \in Vol} : p \in Plans}
  BY <1>1, Zenon
<1>. QED  BY <1>2, <1>3, Zenon DEF Dirs

\* A volume that is wanted, and not deleted with its data, has its directory to itself.
LEMMA Alone ==
    ASSUME NfsInv, NEW v \in Vol, Keeps(v), v \in wanted, v \notin gone,
           dir[DirOf(v)] # None
    PROVE  Mine(v)
<1>1. DirOf(v) \in Dirs
  BY Paths, Zenon DEF NfsInv
<1>2. PICK w : w = dir[DirOf(v)].owner
  BY Zenon
<1>3. dir[DirOf(v)] \in Directory /\ DirOf(w) = DirOf(v)
  BY <1>1, <1>2, Zenon DEF NfsInv, Types
<1>4. w \in Vol
  BY <1>2, <1>3, SMT DEF Directory
<1>5. w \in Obj
  BY <1>4, Kinds, Zenon
<1>6. Mine(w)
  BY <1>2, <1>3, Zenon DEF Mine
<1>7. plan.orderly => w \in wanted /\ (w \in gone => plan.onDelete = "retain")
  BY <1>4, <1>5, <1>6, Zenon DEF NfsInv, Whole, VolumeMade, Keeps
<1>8. v = w
  BY <1>3, <1>4, <1>7, Zenon DEF NfsInv, Exclusive, Keeps, Rivals
<1>. QED  BY <1>6, <1>8, Zenon

\* The service sees nothing of the objects a step is not about,
LEMMA OthersMade ==
    ASSUME NEW n \in Obj, Apart(n), NEW m \in Obj \ {n}, m \in Keepable
    PROVE  Made(m)' = Made(m)
<1>1. plan' = plan /\ (m \in gone' <=> m \in gone)
  BY Zenon DEF Apart
<1>2. ASSUME m \in Vol PROVE Made(m)' = Made(m)
  <2>1. (Mine(m)' <=> Mine(m)) /\ (Mine(m) => dir'[DirOf(m)] = dir[DirOf(m)])
    BY <1>2, Kept, Zenon DEF Apart
  <2>2. CASE Mine(m)
    BY <1>1, <1>2, <2>1, <2>2, Zenon DEF Made, MadeVolume, DirOf, Src
  <2>3. CASE ~Mine(m)
    BY <1>1, <1>2, <2>1, <2>3, Zenon DEF Made, MadeVolume, Mine
  <2>. QED  BY <2>2, <2>3, Zenon
<1>3. ASSUME m \notin Vol PROVE Made(m)' = Made(m)
  <2>1. m \in Snap \ {n}
    BY <1>3, Zenon DEF Obj
  <2>2. tar'[m] = tar[m] /\ snapOf'[m] = snapOf[m]
    BY <2>1, Zenon DEF Apart
  <2>. QED  BY <1>3, <2>2, Zenon DEF Made, MadeSnapshot
<1>. QED  BY <1>2, <1>3, Zenon

\* and they stay as they were.
LEMMA OthersWhole ==
    ASSUME NEW n \in Obj, Apart(n), NEW m \in Obj \ {n}, Whole(m)
    PROVE  Whole(m)'
<1>1. /\ ctl'[m] = ctl[m] /\ plan' = plan
      /\ m \in wanted' <=> m \in wanted
      /\ m \in acked' <=> m \in acked
      /\ m \in delWanted' <=> m \in delWanted
      /\ m \in gone' <=> m \in gone
  BY Zenon DEF Apart
<1>2. Asked(m)'
  BY <1>1, Zenon DEF Whole, Asked
<1>3. ASSUME m \in Vol, Keeps(m)' PROVE VolumeMade(m)'
  <2>0. Keeps(m)
    BY <1>1, <1>3, Steady, Zenon
  <2>1. (Mine(m)' <=> Mine(m)) /\ (Mine(m) => dir'[DirOf(m)] = dir[DirOf(m)])
    BY <1>3, <2>0, Zenon DEF Apart
  <2>2. DirOf(m)' = DirOf(m) /\ Src(m)' = Src(m) /\ VolumeMade(m)
    BY <1>1, <1>3, <2>0, Zenon DEF DirOf, Src, Whole
  <2>. QED  BY <1>1, <2>1, <2>2, Zenon DEF VolumeMade
<1>4. ASSUME m \in Snap PROVE SnapshotMade(m)'
  <2>1. tar'[m] = tar[m] /\ snapOf'[m] = snapOf[m]
    BY <1>4, Zenon DEF Apart
  <2>. QED  BY <1>1, <1>4, <2>1, Zenon DEF Whole, SnapshotMade
<1>. QED  BY <1>2, <1>3, <1>4, Zenon DEF Whole

\* A step on an object that is not kept is none of the service's,
LEMMA NotShown ==
    ASSUME Types, Types', NEW n \in Obj, Apart(n), n \notin Keepable
    PROVE  ServesStep
<1>1. plan' = plan /\ Keepable' = Keepable
  BY Steady, Zenon DEF Apart
<1>2. \A m \in Obj : m \in Keepable => Made(m)' = Made(m)
  BY OthersMade, Zenon
<1>3. \A m \in Obj : m \in Keepable =>
          /\ m \in wanted' <=> m \in wanted
          /\ m \in acked' <=> m \in acked
          /\ m \in delWanted' <=> m \in delWanted
          /\ m \in gone' <=> m \in gone
  BY Zenon DEF Apart
<1>4. /\ (wanted \cap Keepable)' = wanted \cap Keepable
      /\ (acked \cap Keepable)' = acked \cap Keepable
      /\ (delWanted \cap Keepable)' = delWanted \cap Keepable
      /\ (gone \cap Keepable)' = gone \cap Keepable
  <2>1. Keepable \subseteq Obj
    BY Zenon DEF Keepable, Obj
  <2>. QED  BY <1>1, <1>3, <2>1, Zenon
<1>5. [m \in Obj |-> IF m \notin Keepable THEN "absent" ELSE Made(m)]'
      = [m \in Obj |-> IF m \notin Keepable THEN "absent" ELSE Made(m)]
  BY <1>1, <1>2, Zenon
<1>6. UNCHANGED Service!vars
  BY <1>4, <1>5, Zenon DEF Service!vars, Made
<1>. QED  BY <1>6, Zenon DEF ServesStep

\* and what the caller sees of a kept one is a step of the service, or nothing.
LEMMA OneShown ==
    ASSUME NEW n \in Obj, n \in Keepable, Apart(n), Shown(n)
    PROVE  ServesStep
<1>. DEFINE made == [m \in Obj |-> IF m \notin Keepable THEN "absent"
                                   ELSE IF m \in Vol THEN MadeVolume(m) ELSE MadeSnapshot(m)]
<1>. DEFINE Seen(m) == IF m \notin Keepable THEN "absent" ELSE Made(m)
<1>k. plan' = plan /\ Keepable' = Keepable
  BY Steady, Zenon DEF Apart
<1>0. made = [m \in Obj |-> Seen(m)] /\ made' = [m \in Obj |-> Seen(m)']
  BY Zenon DEF Made
<1>s. Seen(n) = Made(n) /\ Seen(n)' = Made(n)' /\ \A m \in Obj \ {n} : Seen(m)' = Seen(m)
  BY <1>k, OthersMade, Zenon
<1>t. \A m \in Obj : Seen(m)' \in {"absent", "partial", "ready"}
  BY Zenon DEF Made, MadeVolume, MadeSnapshot
<1>. HIDE DEF Seen
<1>1. made' = [made EXCEPT ![n] = Made(n)']
  <2>1. [m \in Obj |-> Seen(m)'] = [[m \in Obj |-> Seen(m)] EXCEPT ![n] = Seen(n)']
    BY <1>s, Zenon
  <2>. QED  BY <1>0, <1>s, <2>1, Zenon
<1>2. Made(n)' = Made(n) => made' = made
  <2>1. Made(n)' = Made(n) => made' = [[m \in Obj |-> Seen(m)] EXCEPT ![n] = Seen(n)]
    BY <1>0, <1>1, <1>s, Zenon
  <2>. QED  BY <1>0, <2>1, Zenon
<1>m. made[n] = Made(n)
  BY <1>0, <1>s, Zenon
<1>. HIDE DEF made
\* The sets the service sees, as they change.
<1>w. /\ wanted' = wanted => (wanted \cap Keepable)' = wanted \cap Keepable
      /\ wanted' = wanted \cup {n} => (wanted \cap Keepable)' = (wanted \cap Keepable) \cup {n}
  BY <1>k, Zenon
<1>a. /\ acked' = acked => (acked \cap Keepable)' = acked \cap Keepable
      /\ acked' = acked \cup {n} => (acked \cap Keepable)' = (acked \cap Keepable) \cup {n}
  BY <1>k, Zenon
<1>d. /\ delWanted' = delWanted => (delWanted \cap Keepable)' = delWanted \cap Keepable
      /\ delWanted' = delWanted \cup {n} =>
            (delWanted \cap Keepable)' = (delWanted \cap Keepable) \cup {n}
  BY <1>k, Zenon
<1>g. /\ gone' = gone => (gone \cap Keepable)' = gone \cap Keepable
      /\ gone' = gone \cup {n} => (gone \cap Keepable)' = (gone \cap Keepable) \cup {n}
  BY <1>k, Zenon
<1>4. CASE Made(n)' = Made(n) /\ UNCHANGED <<wanted, acked, delWanted, gone>>
  BY <1>2, <1>4, <1>w, <1>a, <1>d, <1>g, Zenon DEF ServesStep, Service!vars, made
<1>5. CASE n \in wanted \ acked /\ UNCHANGED <<wanted, acked, delWanted, gone>>
  <2>1. n \in (wanted \cap Keepable) \ (acked \cap Keepable)
    BY <1>5, Zenon
  <2>2. \A m \in Obj : \/ m \in (wanted \cap Keepable) \ (acked \cap Keepable)
                       \/ Seen(m)' = Seen(m)
    BY <1>s, <2>1, Zenon
  <2>3. /\ made' \in [Obj -> {"absent", "partial", "ready"}]
        /\ \A m \in Obj : \/ m \in (wanted \cap Keepable) \ (acked \cap Keepable)
                           \/ made'[m] = made[m]
    BY <1>0, <1>t, <2>2, Zenon
  <2>4. Service!Work
    BY <1>5, <1>w, <1>a, <1>d, <1>g, <2>3, Zenon DEF Service!Work, made
  <2>. QED  BY <2>4, Zenon DEF ServesStep, Service!Next
<1>6. CASE Made(n)' = Made(n) /\ wanted' = wanted \cup {n} /\ UNCHANGED <<acked, delWanted, gone>>
  BY <1>2, <1>6, <1>w, <1>a, <1>d, <1>g, Zenon DEF ServesStep, Service!Next, Service!Request, made
<1>7. CASE /\ Made(n)' = Made(n) /\ Made(n) = "ready" /\ n \in wanted
           /\ acked' = acked \cup {n} /\ UNCHANGED <<wanted, delWanted, gone>>
  <2>1. n \in wanted \cap Keepable
    BY <1>7, Zenon
  <2>2. Service!Acknowledge(n)
    BY <1>2, <1>7, <1>m, <1>w, <1>a, <1>d, <1>g, <2>1, Zenon DEF Service!Acknowledge, made
  <2>. QED  BY <2>2, Zenon DEF ServesStep, Service!Next
<1>8. CASE /\ Made(n)' = Made(n) /\ n \in acked
           /\ delWanted' = delWanted \cup {n} /\ UNCHANGED <<wanted, acked, gone>>
  <2>1. n \in acked \cap Keepable
    BY <1>8, Zenon
  <2>. QED  BY <1>2, <1>8, <1>w, <1>a, <1>d, <1>g, <2>1, Zenon
             DEF ServesStep, Service!Next, Service!RequestDelete, made
<1>9. CASE /\ Made(n) = "ready" /\ Made(n)' = "partial" /\ n \in delWanted
           /\ UNCHANGED <<wanted, acked, delWanted, gone>>
  <2>1. made' = [made EXCEPT ![n] = "partial"] /\ made[n] = "ready"
    BY <1>1, <1>9, <1>m, Zenon
  <2>2. n \in delWanted \cap Keepable
    BY <1>9, Zenon
  <2>3. Service!Remove(n)
    BY <1>9, <1>w, <1>a, <1>d, <1>g, <2>1, <2>2, Zenon DEF Service!Remove, made
  <2>. QED  BY <2>3, Zenon DEF ServesStep, Service!Next
<1>10. CASE /\ Made(n)' = "absent" /\ n \in delWanted
            /\ gone' \in {gone, gone \cup {n}} /\ UNCHANGED <<wanted, acked, delWanted>>
  <2>1. made' = [made EXCEPT ![n] = "absent"]
    BY <1>1, <1>10, Zenon
  <2>2. n \in delWanted \cap Keepable
    BY <1>10, Zenon
  <2>3. CASE gone' = gone
    <3>1. Service!Remove(n)
      BY <1>10, <1>w, <1>a, <1>d, <1>g, <2>1, <2>2, <2>3, Zenon DEF Service!Remove, made
    <3>. QED  BY <3>1, Zenon DEF ServesStep, Service!Next
  <2>4. CASE gone' = gone \cup {n}
    <3>1. Service!AcknowledgeDelete(n)
      BY <1>10, <1>w, <1>a, <1>d, <1>g, <2>1, <2>2, <2>4, Zenon
         DEF Service!AcknowledgeDelete, made
    <3>. QED  BY <3>1, Zenon DEF ServesStep, Service!Next
  <2>. QED  BY <1>10, <2>3, <2>4, Zenon
<1>. QED  BY <1>4, <1>5, <1>6, <1>7, <1>8, <1>9, <1>10, Zenon DEF Shown

\* A good step on one object is all there is to show.
LEMMA OneStep == ASSUME NfsInv, NEW n \in Obj, Good(n) PROVE NfsInv' /\ ServesStep
<1>1. ASSUME NEW m \in Obj PROVE Whole(m)'
  BY OthersWhole, Zenon DEF NfsInv, Good
<1>2. ServesStep
  BY OneShown, NotShown, Zenon DEF NfsInv, Good
<1>. QED  BY <1>1, <1>2, Zenon DEF NfsInv, Good

-----------------------------------------------------------------------------
(* The controller *)

\* What a handler may do to the export: a volume's to its own directory, a snapshot's to
\* its archive.
WritesDir(n) ==
    \/ dir' = dir
    \/ /\ n \in Vol /\ (Keeps(n) /\ dir[DirOf(n)] # None => Mine(n))
       /\ \E d : /\ dir' = [dir EXCEPT ![DirOf(n)] = d]
                 /\ d # None => /\ d \in Directory /\ DirOf(d.owner) = DirOf(n)
                                /\ Keeps(n) => d.owner = n

WritesTar(n) ==
    \/ tar' = tar
    \/ n \in Snap /\ \E t : tar' = [tar EXCEPT ![n] = t] /\ (t # None => t \in Archive)

\* No volume that is kept notices what becomes of another one's directory.
LEMMA DirStep ==
    ASSUME Types, NEW n \in Obj, plan' = plan, WritesDir(n)
    PROVE  /\ On(Dirs, dir)'
           /\ \A d \in Dirs : dir'[d] # None => dir'[d] \in Directory /\ DirOf(dir'[d].owner) = d
           /\ \A v \in Vol \ {n} : Keeps(v) =>
                                   /\ Mine(v)' <=> Mine(v)
                                   /\ Mine(v) => dir'[DirOf(v)] = dir[DirOf(v)]
<1>0. \A v \in Vol : DirOf(v) \in Dirs /\ DirOf(v)' = DirOf(v)
  BY Paths, Zenon DEF DirOf
<1>1. CASE dir' = dir
  BY <1>0, <1>1, Zenon DEF Types, On, Mine
<1>2. ASSUME n \in Vol, Keeps(n) /\ dir[DirOf(n)] # None => Mine(n),
             NEW e, dir' = [dir EXCEPT ![DirOf(n)] = e],
             e # None => e \in Directory /\ DirOf(e.owner) = DirOf(n) /\ (Keeps(n) => e.owner = n)
      PROVE  /\ On(Dirs, dir)'
             /\ \A d \in Dirs : dir'[d] # None => dir'[d] \in Directory /\ DirOf(dir'[d].owner) = d
             /\ \A v \in Vol \ {n} : Keeps(v) =>
                                     /\ Mine(v)' <=> Mine(v)
                                     /\ Mine(v) => dir'[DirOf(v)] = dir[DirOf(v)]
  <2>0. PICK p : p = DirOf(n)
    BY Zenon
  <2>1. p \in Dirs /\ dir' = [dir EXCEPT ![p] = e]
    BY <1>0, <1>2, <2>0, Zenon
  <2>2. /\ On(Dirs, dir)' /\ dir'[p] = e
        /\ \A d \in Dirs \ {p} : dir'[d] = dir[d]
    BY <2>1, Zenon DEF Types, On
  <2>3. ASSUME NEW d \in Dirs, dir'[d] # None
        PROVE  dir'[d] \in Directory /\ DirOf(dir'[d].owner) = d
    <3>1. CASE d = p
      BY <1>2, <2>0, <2>2, <2>3, <3>1, Zenon
    <3>2. CASE d # p
      BY <2>2, <2>3, <3>2, Zenon DEF Types
    <3>. QED  BY <3>1, <3>2, Zenon
  <2>4. ASSUME NEW v \in Vol \ {n}, Keeps(v)
        PROVE  /\ Mine(v)' <=> Mine(v)
               /\ Mine(v) => dir'[DirOf(v)] = dir[DirOf(v)]
    <3>1. CASE DirOf(v) = p
      <4>0. Keeps(n)
        BY <1>2, <2>0, <2>4, <3>1, Zenon DEF Keeps, Rivals
      <4>1. ~Mine(v)
        BY <1>2, <2>0, <3>1, <2>4, <4>0, Zenon DEF Mine
      <4>2. ~(dir'[p] # None /\ dir'[p].owner = v)
        BY <1>2, <2>2, <2>4, <4>0, Zenon
      <4>3. ~Mine(v)'
        BY <1>0, <2>4, <3>1, <4>2, Zenon DEF Mine
      <4>. QED  BY <4>1, <4>3, Zenon
    <3>2. CASE DirOf(v) # p
      <4>1. dir'[DirOf(v)] = dir[DirOf(v)] /\ DirOf(v)' = DirOf(v)
        BY <1>0, <2>2, <2>4, <3>2, Zenon
      <4>. QED  BY <4>1, Zenon DEF Mine
    <3>. QED  BY <3>1, <3>2, Zenon
  <2>. QED  BY <2>2, <2>3, <2>4, Zenon
<1>. QED  BY <1>1, <1>2, Zenon DEF WritesDir

\* A call for a volume of an orderly plan is made when its directory is free.
Fresh(n) ==
    n \in Vol /\ plan.orderly => \A w \in (wanted \cap Vol) \ {n} :
                    DirOf(w) = DirOf(n) => w \in gone /\ plan.onDelete # "retain"

\* A step of the handler at work on n: the step it goes to, and what the caller asks or
\* is told.
LEMMA CallStep ==
    ASSUME Types, Exclusive, NEW n \in Obj, NEW to, ctl' = [ctl EXCEPT ![n] = to], plan' = plan,
           WritesDir(n), WritesTar(n),
           wanted' \in {wanted, wanted \cup {n}}, wanted' = wanted \/ Fresh(n),
           acked' \in {acked, acked \cup {n}}, acked' = acked \/ n \in wanted,
           delWanted' \in {delWanted, delWanted \cup {n}}, delWanted' = delWanted \/ n \in acked,
           gone' \in {gone, gone \cup {n}}, gone' = gone \/ n \in delWanted,
           snapOf' = snapOf \/ (n \in Snap /\ \E v : snapOf' = [snapOf EXCEPT ![n] = v])
    PROVE  Types' /\ Exclusive' /\ Apart(n) /\ ctl'[n] = to
<1>1. /\ On(Obj, ctl)' /\ ctl'[n] = to
      /\ \A m \in Obj \ {n} : ctl'[m] = ctl[m]
  BY Zenon DEF Types, On
<1>2. /\ On(Snap, tar)' /\ \A s \in Snap : tar'[s] # None => tar'[s] \in Archive
      /\ \A s \in Snap \ {n} : tar'[s] = tar[s]
  <2>1. CASE tar' = tar
    BY <2>1, Zenon DEF Types, On
  <2>2. ASSUME n \in Snap, NEW t, tar' = [tar EXCEPT ![n] = t], t # None => t \in Archive
        PROVE  /\ On(Snap, tar)' /\ \A s \in Snap : tar'[s] # None => tar'[s] \in Archive
               /\ \A s \in Snap \ {n} : tar'[s] = tar[s]
    <3>1. On(Snap, tar)' /\ tar'[n] = t /\ \A s \in Snap \ {n} : tar'[s] = tar[s]
      BY <2>2, Zenon DEF Types, On
    <3>. QED  BY <2>2, <3>1, Zenon DEF Types
  <2>. QED  BY <2>1, <2>2, Zenon DEF WritesTar
<1>3. On(Snap, snapOf)' /\ \A s \in Snap \ {n} : snapOf'[s] = snapOf[s]
  BY Zenon DEF Types, On
<1>4. /\ wanted' \subseteq Obj /\ acked' \subseteq wanted' /\ delWanted' \subseteq acked'
      /\ gone' \subseteq delWanted'
  BY Zenon DEF Types
<1>5. \A m \in Obj \ {n} : /\ m \in wanted' <=> m \in wanted
                           /\ m \in acked' <=> m \in acked
                           /\ m \in delWanted' <=> m \in delWanted
                           /\ m \in gone' <=> m \in gone
  BY Zenon
<1>6. /\ On(Dirs, dir)'
      /\ \A d \in Dirs : dir'[d] # None => dir'[d] \in Directory /\ DirOf(dir'[d].owner) = d
      /\ \A v \in Vol \ {n} : Keeps(v) =>
                              /\ Mine(v)' <=> Mine(v)
                              /\ Mine(v) => dir'[DirOf(v)] = dir[DirOf(v)]
  BY DirStep, Zenon
<1>7. Types'
  BY <1>1, <1>2, <1>3, <1>4, <1>6, Zenon DEF Types, DirOf
<1>8. Apart(n)
  <2>1. \A s \in Snap \ {n} : s \in Obj \ {n}
    BY Zenon DEF Obj
  <2>. QED  BY <1>1, <1>2, <1>3, <1>5, <1>6, <2>1, Zenon DEF Apart
<1>9. ASSUME NEW v \in Vol \cap wanted', NEW w \in Vol \cap wanted', plan.orderly, v # w,
             DirOf(v) = DirOf(w)
      PROVE  (v \in gone' \/ w \in gone') /\ plan.onDelete # "retain"
  <2>1. gone \subseteq gone'
    BY Zenon
  <2>2. CASE v \in wanted /\ w \in wanted
    BY <1>9, <2>1, <2>2, Zenon DEF Exclusive
  <2>3. CASE v \notin wanted
    BY <1>9, <2>1, <2>3, Zenon DEF Fresh
  <2>4. CASE w \notin wanted
    BY <1>9, <2>1, <2>4, Zenon DEF Fresh
  <2>. QED  BY <2>2, <2>3, <2>4, Zenon
<1>10. Exclusive'
  BY <1>9, Zenon DEF Exclusive, DirOf
<1>. QED  BY <1>1, <1>7, <1>8, <1>10, Zenon

\* A step of a handler: the caller learns nothing.
LEMMA Works ==
    ASSUME NfsInv, NEW n \in Obj, NEW to, ctl' = [ctl EXCEPT ![n] = to],
           UNCHANGED <<plan, wanted, acked, delWanted, gone, snapOf>>,
           WritesDir(n), WritesTar(n)
    PROVE  Types /\ Whole(n) /\ Types' /\ Exclusive' /\ Apart(n) /\ ctl'[n] = to
<1>1. Types /\ Whole(n) /\ Exclusive
  BY Zenon DEF NfsInv
<1>. QED  BY <1>1, CallStep, Zenon

\* What a step leaves in v's directory.
LEMMA DirIs ==
    ASSUME Types, NEW v \in Vol, plan' = plan, NEW d, dir' = [dir EXCEPT ![DirOf(v)] = d]
    PROVE  dir'[DirOf(v)] = d /\ DirOf(v)' = DirOf(v) /\ Src(v)' = Src(v)
<1>1. DirOf(v) \in Dirs
  BY Paths, Zenon
<1>2. dir'[DirOf(v)] = d
  BY <1>1, Zenon DEF Types, On
<1>. QED  BY <1>2, Zenon DEF DirOf, Src

\* A step that leaves the directory alone.
LEMMA DirSame ==
    ASSUME NfsInv, NEW v \in Vol, dir' = dir
    PROVE  dir' = [dir EXCEPT ![DirOf(v)] = dir[DirOf(v)]]
BY Zenon DEF NfsInv, Types, On

\* CreateVolume's own steps: the volume is not acknowledged, so nothing is promised yet.
LEMMA MakeGood ==
    ASSUME NfsInv, NEW v \in Vol, Keeps(v), NEW to, NEW d,
           ctl' = [ctl EXCEPT ![v] = to], dir' = [dir EXCEPT ![DirOf(v)] = d],
           UNCHANGED <<plan, wanted, acked, delWanted, gone, tar, snapOf>>,
           ctl[v] \in Making, to \in {"idle", "fill", "umount", "reply"},
           d # None => d \in Directory /\ d.owner = v,
           d # None /\ Src(v) = None => d.from = None,
           to = "fill" => Src(v) # None /\ d # None,
           to \in {"umount", "reply"} => d # None /\ d.from = Src(v)
    PROVE  Good(v)
<1>1. v \in Obj /\ v \notin Snap
  BY Kinds, Zenon
<1>2. v \in wanted \ acked /\ v \notin delWanted /\ v \notin gone
  BY <1>1, Zenon DEF NfsInv, Types, Whole, Asked
<1>3. dir[DirOf(v)] # None => Mine(v)
  BY <1>2, Alone, Zenon
<1>4. WritesDir(v) /\ WritesTar(v)
  BY <1>3, Zenon DEF WritesDir, WritesTar
<1>5. Types /\ Whole(v) /\ Types' /\ Exclusive' /\ Apart(v) /\ ctl'[v] = to
  BY <1>1, <1>4, Works, Zenon
<1>6. dir'[DirOf(v)] = d /\ DirOf(v)' = DirOf(v) /\ Src(v)' = Src(v)
  BY <1>5, DirIs, Zenon
<1>7. Mine(v)' <=> d # None
  BY <1>6, Zenon DEF Mine
<1>8. Asked(v)'
  BY <1>2, <1>5, Zenon DEF Asked, Making, Removing
<1>9. VolumeMade(v)'
  BY <1>2, <1>5, <1>6, <1>7, Zenon DEF VolumeMade
<1>. QED  BY <1>1, <1>2, <1>5, <1>8, <1>9, Zenon DEF Good, Shown, Whole

\* The call itself promises nothing.
LEMMA CreateCallGood ==
    ASSUME NfsInv, NEW v \in Vol, Keeps(v), CreateCall(v) PROVE Good(v)
<1>1. /\ ctl[v] = "idle" /\ v \notin acked /\ wanted' = wanted \cup {v}
      /\ ctl' = [ctl EXCEPT ![v] = "mkdir"] /\ UNCHANGED <<acked, delWanted, gone>>
      /\ UNCHANGED <<plan, dir, tar, snapOf>>
  BY Zenon DEF CreateCall, Calls!Create, Control, volumes, snapshots
<1>2. Types /\ Exclusive /\ Whole(v) /\ v \in Obj /\ v \notin Snap
  BY Kinds, Zenon DEF NfsInv
<1>3. Fresh(v) /\ WritesDir(v) /\ WritesTar(v)
  BY <1>1, Zenon DEF CreateCall, Rivals, Fresh, WritesDir, WritesTar
<1>4. Types' /\ Exclusive' /\ Apart(v) /\ ctl'[v] = "mkdir"
  BY <1>1, <1>2, <1>3, CallStep, Zenon
<1>5. v \notin delWanted /\ v \notin gone
  BY <1>1, <1>2, Zenon DEF Types
<1>6. Asked(v)'
  BY <1>1, <1>4, Zenon DEF Asked, Making, Removing
<1>7. /\ DirOf(v)' = DirOf(v) /\ Src(v)' = Src(v) /\ (Mine(v)' <=> Mine(v))
  BY <1>1, Zenon DEF DirOf, Src, Mine
<1>8. VolumeMade(v)'
  BY <1>1, <1>2, <1>4, <1>5, <1>7, Zenon DEF Whole, VolumeMade
<1>9. Made(v)' = Made(v)
  BY <1>1, Zenon DEF Made, MadeVolume, DirOf, Src
<1>. QED  BY <1>1, <1>2, <1>4, <1>6, <1>8, <1>9, Zenon DEF Good, Shown, Whole

\* A directory that is there already is v's own, from an earlier try.
LEMMA CreateMkdirGood ==
    ASSUME NfsInv, NEW v \in Vol, Keeps(v), CreateMkdir(v) PROVE Good(v)
<1>0. PICK to : to = IF Src(v) = None THEN "umount" ELSE "fill"
  BY Zenon
<1>1. PICK d : d = IF dir[DirOf(v)] = None THEN [owner |-> v, from |-> None] ELSE dir[DirOf(v)]
  BY Zenon
<1>2. /\ ctl[v] = "mkdir" /\ ctl' = [ctl EXCEPT ![v] = to]
      /\ UNCHANGED <<plan, wanted, acked, delWanted, gone, tar, snapOf>>
  BY <1>0, Zenon DEF CreateMkdir, Calls!Step, Control, snapshots
<1>3. DirOf(v) \in Dirs /\ Types
  BY Paths, Zenon DEF NfsInv
<1>4. dir' = [dir EXCEPT ![DirOf(v)] = d]
  BY <1>1, <1>3, Zenon DEF CreateMkdir, Types, On
<1>5. v \in Obj /\ v \in wanted \ acked /\ v \notin delWanted /\ v \notin gone
  BY <1>2, Kinds, Zenon DEF NfsInv, Types, Whole, Asked, Making
<1>6. d # None /\ d \in Directory /\ d.owner = v /\ (Src(v) = None => d.from = None)
  <2>1. CASE dir[DirOf(v)] = None
    <3>1. d = [owner |-> v, from |-> None]
      BY <1>1, <2>1, Zenon
    <3>2. d \in Directory /\ d.owner = v /\ d.from = None
      BY <3>1, SMT DEF Directory
    <3>. QED  BY <3>2, Kinds, Zenon
  <2>2. CASE dir[DirOf(v)] # None
    <3>1. d = dir[DirOf(v)] /\ Mine(v)
      BY <1>1, <1>5, <2>2, Alone, Zenon
    <3>2. d \in Directory
      BY <1>3, <2>2, <3>1, Zenon DEF Types
    <3>3. VolumeMade(v)
      BY <1>5, Zenon DEF NfsInv, Whole
    <3>. QED  BY <1>5, <2>2, <3>1, <3>2, <3>3, Zenon DEF VolumeMade, Mine
  <2>. QED  BY <2>1, <2>2, Zenon
<1>7. ctl[v] \in Making /\ to \in {"idle", "fill", "umount", "reply"}
  BY <1>0, <1>2, Zenon DEF Making
<1>8. /\ to = "fill" => Src(v) # None
      /\ to \in {"umount", "reply"} => Src(v) = None
  BY <1>0, Zenon
<1>9. to \in {"umount", "reply"} => d.from = Src(v)
  BY <1>6, <1>8, Zenon
<1>. QED  BY <1>2, <1>4, <1>6, <1>7, <1>8, <1>9, MakeGood, Zenon

\* Whatever an earlier try left is overwritten.
LEMMA CreateFillGood ==
    ASSUME NfsInv, NEW v \in Vol, Keeps(v), CreateFill(v) PROVE Good(v)
<1>0. /\ ctl[v] = "fill"
      /\ UNCHANGED <<plan, wanted, acked, delWanted, gone, tar, snapOf>>
  BY Zenon DEF CreateFill, Calls!Step, Control, snapshots
<1>1. v \in Obj /\ Types /\ VolumeMade(v) /\ DirOf(v) \in Dirs
  BY Kinds, Paths, Zenon DEF NfsInv, Whole
<1>2. PICK e : e = dir[DirOf(v)]
  BY Zenon
<1>3. Src(v) # None /\ Mine(v) /\ e # None /\ e \in Directory /\ e.owner = v
  BY <1>0, <1>1, <1>2, Zenon DEF VolumeMade, Mine, Types
<1>4. ctl[v] \in Making
  BY <1>0, Zenon DEF Making
<1>5. CASE Readable(Src(v))
  <2>1. PICK d : d = [owner |-> e.owner, from |-> Src(v)]
    BY Zenon
  <2>2. ctl' = [ctl EXCEPT ![v] = "umount"]
    BY <1>2, <1>3, <1>5, Zenon DEF CreateFill, Calls!Step
  <2>3. dir' = [dir EXCEPT ![DirOf(v)] = [owner |-> e.owner, from |-> Src(v)]]
    BY <1>2, <1>3, <1>5, Zenon DEF CreateFill
  <2>4. dir' = [dir EXCEPT ![DirOf(v)] = d]
    BY <1>2, <2>1, <2>3, Zenon
  <2>5. Src(v) \in Obj \cup {None, "part"}
    <3>1. plan.src \in [Vol -> Obj \cup {None}]
      BY <1>1, Instance, Zenon DEF Types
    <3>. QED  BY <3>1, SMT DEF Src
  <2>6. d \in Directory /\ d.owner = v /\ d.from = Src(v)
    BY <1>3, <2>1, <2>5, SMT DEF Directory
  <2>7. d # None
    BY <2>6, Kinds, Zenon
  <2>. QED  BY <1>0, <1>3, <1>4, <2>2, <2>4, <2>6, <2>7, MakeGood, Zenon
<1>6. CASE ~Readable(Src(v))
  <2>1. ctl' = [ctl EXCEPT ![v] = "idle"] /\ dir' = dir
    BY <1>6, Zenon DEF CreateFill, Calls!Step
  <2>2. dir' = [dir EXCEPT ![DirOf(v)] = e]
    BY <1>2, <2>1, DirSame, Zenon
  <2>. QED  BY <1>0, <1>3, <1>4, <2>1, <2>2, MakeGood, Zenon
<1>. QED  BY <1>5, <1>6, Zenon

\* DeleteVolume's own steps: the volume falls apart, and is gone when the caller is told.
LEMMA UnmakeGood ==
    ASSUME NfsInv, NEW v \in Vol, Keeps(v), NEW to, NEW d,
           ctl' = [ctl EXCEPT ![v] = to], dir' = [dir EXCEPT ![DirOf(v)] = d],
           UNCHANGED <<plan, wanted, acked, delWanted, gone, tar, snapOf>>,
           ctl[v] \in Removing, to \in {"idle", "umountRemoved", "removed"},
           \/ d = dir[DirOf(v)] \/ d = None
           \/ dir[DirOf(v)] # None /\ d \in Directory /\ d.owner = v /\ d.from = "part",
           to \in {"umountRemoved", "removed"} /\ plan.onDelete # "retain" => d = None
    PROVE  Good(v)
<1>1. v \in Obj /\ v \notin Snap
  BY Kinds, Zenon
<1>2. v \in wanted /\ v \in acked /\ v \in delWanted \ gone
  BY <1>1, Zenon DEF NfsInv, Types, Whole, Asked
<1>3. dir[DirOf(v)] # None => Mine(v) /\ dir[DirOf(v)] \in Directory
  <2>1. DirOf(v) \in Dirs
    BY Paths, Zenon DEF NfsInv
  <2>. QED  BY <1>2, <2>1, Alone, Zenon DEF NfsInv, Types
<1>4. d # None => d \in Directory /\ d.owner = v
  BY <1>3, Zenon DEF Mine
<1>5. WritesDir(v) /\ WritesTar(v)
  BY <1>3, <1>4, Zenon DEF WritesDir, WritesTar
<1>6. Types /\ Whole(v) /\ Types' /\ Exclusive' /\ Apart(v) /\ ctl'[v] = to
  BY <1>1, <1>5, Works, Zenon
<1>7. dir'[DirOf(v)] = d /\ DirOf(v)' = DirOf(v) /\ Src(v)' = Src(v)
  BY <1>6, DirIs, Zenon
<1>8. Mine(v)' <=> d # None
  BY <1>4, <1>7, Zenon DEF Mine
<1>9. Asked(v)'
  BY <1>2, <1>6, Zenon DEF Asked, Making, Removing
<1>10. VolumeMade(v)'
  BY <1>2, <1>6, <1>7, <1>8, Zenon DEF VolumeMade
<1>11. \/ Made(v)' = Made(v) \/ Made(v)' = "absent"
       \/ Made(v) = "ready" /\ Made(v)' = "partial"
  <2>1. CASE d = dir[DirOf(v)]
    BY <1>7, <2>1, Zenon DEF Made, MadeVolume
  <2>2. CASE d = None
    BY <1>7, <2>2, Zenon DEF Made, MadeVolume
  <2>3. CASE dir[DirOf(v)] # None /\ d \in Directory /\ d.owner = v /\ d.from = "part"
    <3>1. Src(v) # "part"
      <4>1. plan.src \in [Vol -> Obj \cup {None}]
        BY <1>6, Instance, Zenon DEF Types
      <4>2. Src(v) \in Obj \cup {None}
        BY <4>1, Zenon DEF Src
      <4>. QED  BY <4>2, Instance, Zenon
    <3>2. d # None
      BY <2>3, Kinds, Zenon
    <3>3. Made(v)' = "partial"
      BY <1>1, <1>2, <1>7, <2>3, <3>1, <3>2, Zenon DEF Made, MadeVolume
    <3>4. Made(v) \in {"ready", "partial"}
      BY <1>2, <1>3, <2>3, Zenon DEF Made, MadeVolume, Mine
    <3>. QED  BY <3>3, <3>4, Zenon
  <2>. QED  BY <2>1, <2>2, <2>3, Zenon
<1>12. Shown(v)
  BY <1>2, <1>11, Zenon DEF Shown
<1>. QED  BY <1>1, <1>6, <1>9, <1>10, <1>12, Zenon DEF Good, Whole

\* A call to delete what the caller holds.
LEMMA DeleteGood ==
    ASSUME NfsInv, NEW n \in Obj, n \in Vol => Keeps(n), NEW to, Calls!Delete(n, to),
           UNCHANGED <<plan, dir, tar, snapOf>>,
           n \in Vol => to = "remove" \/ (to = "removed" /\ plan.onDelete = "retain"),
           n \in Snap => to = "unlabel"
    PROVE  Good(n)
<1>1. /\ n \in acked \ gone /\ delWanted' = delWanted \cup {n} /\ ctl[n] = "idle"
      /\ ctl' = [ctl EXCEPT ![n] = to] /\ UNCHANGED <<wanted, acked, gone>>
  BY Zenon DEF Calls!Delete
<1>2. Types /\ Exclusive /\ Whole(n)
  BY Zenon DEF NfsInv
<1>3. WritesDir(n) /\ WritesTar(n)
  BY Zenon DEF WritesDir, WritesTar
<1>4. Types' /\ Exclusive' /\ Apart(n) /\ ctl'[n] = to
  BY <1>1, <1>2, <1>3, CallStep, Zenon
<1>5. to \in {"remove", "removed", "unlabel"}
  BY Zenon DEF Obj
<1>6. Asked(n)'
  BY <1>1, <1>4, <1>5, Zenon DEF Asked, Making, Removing
<1>7. ASSUME n \in Vol PROVE VolumeMade(n)'
  <2>1. /\ DirOf(n)' = DirOf(n) /\ Src(n)' = Src(n) /\ (Mine(n)' <=> Mine(n))
    BY Zenon DEF DirOf, Src, Mine
  <2>. QED  BY <1>1, <1>2, <1>4, <1>7, <2>1, Zenon DEF Whole, VolumeMade
<1>8. ASSUME n \in Snap PROVE SnapshotMade(n)'
  BY <1>1, <1>2, <1>4, <1>8, Zenon DEF Whole, SnapshotMade
<1>9. Made(n)' = Made(n)
  BY <1>1, Zenon DEF Made, MadeVolume, MadeSnapshot, DirOf, Src
<1>. QED  BY <1>1, <1>4, <1>6, <1>7, <1>8, <1>9, Zenon DEF Good, Shown, Whole

\* A directory that cannot be renamed is left where it is.
LEMMA DeleteRemoveGood ==
    ASSUME NfsInv, NEW v \in Vol, Keeps(v), DeleteRemove(v) PROVE Good(v)
<1>1. PICK taken : taken = (plan.onDelete = "archive" /\ dir[DirOf(v)] # None /\ DirOf(v) \in archived)
  BY Zenon
<1>2. /\ ctl[v] = "remove"
      /\ ctl' = [ctl EXCEPT ![v] = IF taken THEN "idle" ELSE "umountRemoved"]
      /\ dir' = IF taken THEN dir ELSE [dir EXCEPT ![DirOf(v)] = None]
      /\ UNCHANGED <<plan, wanted, acked, delWanted, gone, tar, snapOf>>
  BY <1>1, Zenon DEF DeleteRemove, Calls!Step, Control, snapshots
<1>3. ctl[v] \in Removing
  BY <1>2, Zenon DEF Removing
<1>4. CASE taken
  <2>1. ctl' = [ctl EXCEPT ![v] = "idle"] /\ dir' = [dir EXCEPT ![DirOf(v)] = dir[DirOf(v)]]
    BY <1>2, <1>4, DirSame, Zenon
  <2>. QED  BY <1>2, <1>3, <2>1, UnmakeGood, Zenon
<1>5. CASE ~taken
  <2>1. ctl' = [ctl EXCEPT ![v] = "umountRemoved"] /\ dir' = [dir EXCEPT ![DirOf(v)] = None]
    BY <1>2, <1>5, Zenon
  <2>. QED  BY <1>2, <1>3, <2>1, UnmakeGood, Zenon
<1>. QED  BY <1>4, <1>5, Zenon

\* CreateSnapshot's own steps, which promise nothing yet either.
LEMMA SnapGood ==
    ASSUME NfsInv, NEW s \in Snap, NEW to, NEW t,
           ctl' = [ctl EXCEPT ![s] = to], tar' = [tar EXCEPT ![s] = t],
           UNCHANGED <<plan, wanted, acked, delWanted, gone, dir, snapOf>>,
           ctl[s] \in Making, to \in {"idle", "tar", "label", "umount", "reply"},
           t # None => t \in Archive,
           to = "tar" => snapOf[s] \in Vol,
           to \in {"label", "umount", "reply"} => t # None /\ t.whole = TRUE /\ t.of = snapOf[s]
    PROVE  Good(s)
<1>1. s \in Obj /\ s \notin Vol
  BY Kinds, Zenon
<1>2. s \in wanted \ acked /\ s \notin delWanted /\ s \notin gone
  BY <1>1, Zenon DEF NfsInv, Types, Whole, Asked
<1>3. WritesDir(s) /\ WritesTar(s)
  BY Zenon DEF WritesDir, WritesTar
<1>4. Types /\ Whole(s) /\ Types' /\ Exclusive' /\ Apart(s) /\ ctl'[s] = to
  BY <1>1, <1>3, Works, Zenon
<1>5. tar'[s] = t
  BY <1>4, Zenon DEF Types, On
<1>6. Asked(s)'
  BY <1>1, <1>2, <1>4, Zenon DEF Asked, Making, Removing
<1>7. SnapshotMade(s)'
  BY <1>2, <1>4, <1>5, Zenon DEF SnapshotMade
<1>. QED  BY <1>1, <1>2, <1>4, <1>6, <1>7, Zenon DEF Good, Shown, Whole

\* DeleteSnapshot's.
LEMMA UnsnapGood ==
    ASSUME NfsInv, NEW s \in Snap, NEW to, NEW t,
           ctl' = [ctl EXCEPT ![s] = to], tar' = [tar EXCEPT ![s] = t],
           UNCHANGED <<plan, wanted, acked, delWanted, gone, dir, snapOf>>,
           ctl[s] \in Removing, to \in {"idle", "untar", "umountRemoved", "removed"},
           t \in {tar[s], None},
           to \in {"umountRemoved", "removed"} => t = None
    PROVE  Good(s)
<1>1. s \in Obj /\ s \notin Vol
  BY Kinds, Zenon
<1>2. s \in wanted /\ s \in acked /\ s \in delWanted \ gone
  BY <1>1, Zenon DEF NfsInv, Types, Whole, Asked
<1>3. t # None => t \in Archive
  BY Zenon DEF NfsInv, Types
<1>4. WritesDir(s) /\ WritesTar(s)
  BY <1>3, Zenon DEF WritesDir, WritesTar
<1>5. Types /\ Whole(s) /\ Types' /\ Exclusive' /\ Apart(s) /\ ctl'[s] = to
  BY <1>1, <1>4, Works, Zenon
<1>6. tar'[s] = t
  BY <1>5, Zenon DEF Types, On
<1>7. Asked(s)'
  BY <1>1, <1>2, <1>5, Zenon DEF Asked, Making, Removing
<1>8. SnapshotMade(s)'
  BY <1>2, <1>5, <1>6, Zenon DEF SnapshotMade
<1>9. Made(s)' = Made(s) \/ Made(s)' = "absent"
  BY <1>1, <1>6, Zenon DEF Made, MadeSnapshot
<1>. QED  BY <1>1, <1>2, <1>5, <1>7, <1>8, <1>9, Zenon DEF Good, Shown, Whole

\* A name may be asked of another volume than before as long as its snapshot is not
\* acknowledged.
LEMMA SnapCallGood ==
    ASSUME NfsInv, NEW s \in Snap, NEW v \in Vol, SnapCall(s, v) PROVE Good(s)
<1>1. /\ ctl[s] = "idle" /\ s \notin acked /\ wanted' = wanted \cup {s}
      /\ ctl' = [ctl EXCEPT ![s] = "check"] /\ UNCHANGED <<acked, delWanted, gone>>
      /\ snapOf' = [snapOf EXCEPT ![s] = v] /\ UNCHANGED <<plan, dir, tar>>
  BY Zenon DEF SnapCall, Calls!Create, Control, volumes
<1>2. Types /\ Exclusive /\ Whole(s) /\ s \in Obj /\ s \notin Vol
  BY Kinds, Zenon DEF NfsInv
<1>3. Fresh(s) /\ WritesDir(s) /\ WritesTar(s)
  BY <1>1, <1>2, Zenon DEF Fresh, WritesDir, WritesTar
<1>4. Types' /\ Exclusive' /\ Apart(s) /\ ctl'[s] = "check"
  BY <1>1, <1>2, <1>3, CallStep, Zenon
<1>5. snapOf'[s] = v /\ s \notin delWanted /\ s \notin gone
  BY <1>1, <1>2, Zenon DEF Types, On
<1>6. Asked(s)'
  BY <1>1, <1>2, <1>4, Zenon DEF Asked, Making, Removing
<1>7. SnapshotMade(s)'
  BY <1>1, <1>2, <1>4, <1>5, Zenon DEF Whole, SnapshotMade
<1>8. Shown(s)
  <2>1. CASE s \in wanted
    BY <1>1, <2>1, Zenon DEF Shown
  <2>2. CASE s \notin wanted
    <3>1. tar[s] = None
      BY <1>2, <2>2, Zenon DEF Whole, SnapshotMade
    <3>2. Made(s)' = Made(s)
      BY <1>1, <1>2, <3>1, Zenon DEF Made, MadeSnapshot
    <3>. QED  BY <1>1, <3>2, Zenon DEF Shown
  <2>. QED  BY <2>1, <2>2, Zenon
<1>. QED  BY <1>2, <1>4, <1>6, <1>7, <1>8, Zenon DEF Good, Whole

\* A step that leaves the archive alone.
LEMMA TarSame ==
    ASSUME NfsInv, NEW s \in Snap, tar' = tar
    PROVE  tar' = [tar EXCEPT ![s] = tar[s]] /\ (tar[s] # None => tar[s] \in Archive)
BY Zenon DEF NfsInv, Types, On

LEMMA SnapCheckGood == ASSUME NfsInv, NEW s \in Snap, SnapCheck(s) PROVE Good(s)
<1>1. PICK to : to = IF label[s] \in {None, DirOf(snapOf[s])} THEN "tar" ELSE "idle"
  BY Zenon
<1>2. /\ ctl[s] = "check" /\ ctl' = [ctl EXCEPT ![s] = to]
      /\ UNCHANGED <<plan, wanted, acked, delWanted, gone, dir, tar, snapOf>>
  BY <1>1, Zenon DEF SnapCheck, Calls!Step, Control, volumes, snapshots
<1>3. snapOf[s] \in Vol
  BY <1>2, Kinds, Zenon DEF NfsInv, Whole, SnapshotMade
<1>4. to \in {"tar", "idle"} /\ ctl[s] \in Making
  BY <1>1, <1>2, Zenon DEF Making
<1>. QED  BY <1>2, <1>3, <1>4, TarSame, SnapGood, Zenon

\* The archive is whole, and of the volume that was asked for.
LEMMA SnapTarGood == ASSUME NfsInv, NEW s \in Snap, SnapTar(s) PROVE Good(s)
<1>1. /\ ctl[s] = "tar"
      /\ UNCHANGED <<plan, wanted, acked, delWanted, gone, dir, snapOf>>
  BY Zenon DEF SnapTar, Calls!Step, Control, volumes
<1>2. snapOf[s] \in Vol /\ ctl[s] \in Making
  BY <1>1, Kinds, Zenon DEF NfsInv, Whole, SnapshotMade, Making
<1>3. CASE Readable(snapOf[s])
  <2>1. PICK t : t = [of |-> snapOf[s], whole |-> TRUE]
    BY Zenon
  <2>2. t \in Archive /\ t.of = snapOf[s] /\ t.whole = TRUE
    BY <1>2, <2>1, SMT DEF Archive
  <2>3. ctl' = [ctl EXCEPT ![s] = "label"] /\ tar' = [tar EXCEPT ![s] = t]
    BY <1>3, <2>1, Zenon DEF SnapTar, Calls!Step
  <2>4. t # None
    BY <2>2, Kinds, Zenon
  <2>. QED  BY <1>1, <1>2, <2>2, <2>3, <2>4, SnapGood, Zenon
<1>4. CASE ~Readable(snapOf[s])
  <2>1. ctl' = [ctl EXCEPT ![s] = "idle"] /\ tar' = tar
    BY <1>4, Zenon DEF SnapTar, Calls!Step
  <2>. QED  BY <1>1, <1>2, <2>1, TarSame, SnapGood, Zenon
<1>. QED  BY <1>3, <1>4, Zenon

\* With the sidecar or without it.
LEMMA SnapLabelGood ==
    ASSUME NfsInv, NEW s \in Snap, SnapLabel(s) \/ SnapLabelFails(s) PROVE Good(s)
<1>1. /\ ctl[s] = "label" /\ ctl' = [ctl EXCEPT ![s] = "umount"]
      /\ UNCHANGED <<plan, wanted, acked, delWanted, gone, dir, tar, snapOf>>
  BY Zenon DEF SnapLabel, SnapLabelFails, Calls!Step, Control, volumes
<1>2. tar[s] # None /\ tar[s].whole = TRUE /\ tar[s].of = snapOf[s] /\ ctl[s] \in Making
  BY <1>1, Kinds, Zenon DEF NfsInv, Whole, SnapshotMade, Making
<1>. QED  BY <1>1, <1>2, TarSame, SnapGood, Zenon

LEMMA UnsnapStepGood ==
    ASSUME NfsInv, NEW s \in Snap, UnsnapUnlabel(s) \/ UnsnapUntar(s) PROVE Good(s)
<1>1. /\ ctl[s] \in {"unlabel", "untar"}
      /\ UNCHANGED <<plan, wanted, acked, delWanted, gone, dir, snapOf>>
  BY Zenon DEF UnsnapUnlabel, UnsnapUntar, Calls!Step, Control, volumes
<1>2. ctl[s] \in Removing
  BY <1>1, Zenon DEF Removing
<1>3. CASE UnsnapUnlabel(s)
  <2>1. ctl' = [ctl EXCEPT ![s] = "untar"] /\ tar' = tar
    BY <1>3, Zenon DEF UnsnapUnlabel, Calls!Step
  <2>. QED  BY <1>1, <1>2, <2>1, TarSame, UnsnapGood, Zenon
<1>4. CASE UnsnapUntar(s)
  <2>1. ctl' = [ctl EXCEPT ![s] = "umountRemoved"] /\ tar' = [tar EXCEPT ![s] = None]
    BY <1>4, Zenon DEF UnsnapUntar, Calls!Step
  <2>. QED  BY <1>1, <1>2, <2>1, UnsnapGood, Zenon
<1>. QED  BY <1>3, <1>4, Zenon

\* The handler goes on, or gives up, with the export as it is: what was built or removed
\* before stays so.
LEMMA LeaveGood ==
    ASSUME NfsInv, NEW n \in Obj, n \in Vol => Keeps(n), NEW to, ctl' = [ctl EXCEPT ![n] = to], ctl[n] # "idle",
           UNCHANGED <<plan, wanted, acked, delWanted, gone, dir, tar, snapOf>>,
           \/ to = "idle" \/ (ctl[n] = "umount" /\ to = "reply")
           \/ (ctl[n] = "umountRemoved" /\ to = "removed")
    PROVE  Good(n)
<1>1. Types /\ Whole(n) /\ (ctl[n] \in Making \/ ctl[n] \in Removing)
  BY Zenon DEF NfsInv, Whole, Asked
<1>2. /\ to = "reply" => ctl[n] = "umount" /\ ctl[n] \notin Removing
      /\ to = "removed" => ctl[n] = "umountRemoved" /\ ctl[n] \notin Making
      /\ to \in {"idle", "reply", "removed"}
  BY Zenon DEF Making, Removing
<1>3. ASSUME n \in Vol PROVE Good(n)
  <2>1. PICK d : d = dir[DirOf(n)]
    BY Zenon
  <2>2. dir' = [dir EXCEPT ![DirOf(n)] = d] /\ VolumeMade(n)
    BY <1>1, <1>3, <2>1, DirSame, Zenon DEF Whole
  <2>3. CASE ctl[n] \in Making
    <3>1. n \in wanted \ acked /\ n \notin delWanted /\ n \notin gone
      BY <1>1, <2>3, Zenon DEF Types, Whole, Asked
    <3>2. d # None => d \in Directory /\ d.owner = n /\ Mine(n)
      <4>1. DirOf(n) \in Dirs
        BY <1>1, <1>3, Paths, Zenon
      <4>. QED  BY <1>1, <1>3, <2>1, <3>1, <4>1, Alone, Zenon DEF Types, Mine
    <3>3. d # None /\ Src(n) = None => d.from = None
      BY <2>1, <2>2, <3>1, <3>2, Zenon DEF VolumeMade
    <3>4. to = "reply" => d # None /\ d.from = Src(n)
      BY <1>2, <2>1, <2>2, Zenon DEF VolumeMade, Mine
    <3>5. to \in {"idle", "reply"}
      BY <1>2, <2>3, Zenon
    <3>. QED  BY <1>3, <2>2, <2>3, <3>2, <3>3, <3>4, <3>5, MakeGood, Zenon
  <2>4. CASE ctl[n] \in Removing
    <3>1. n \in wanted /\ n \notin gone
      BY <1>1, <2>4, Zenon DEF Types, Whole, Asked
    <3>2. to = "removed" /\ plan.onDelete # "retain" => d = None
      BY <1>2, <1>3, <2>1, <2>2, <3>1, Alone, Zenon DEF VolumeMade
    <3>3. to \in {"idle", "removed"}
      BY <1>2, <2>4, Zenon
    <3>. QED  BY <1>3, <2>1, <2>2, <2>4, <3>2, <3>3, UnmakeGood, Zenon
  <2>. QED  BY <1>1, <2>3, <2>4, Zenon
<1>4. ASSUME n \in Snap PROVE Good(n)
  <2>1. tar' = [tar EXCEPT ![n] = tar[n]] /\ (tar[n] # None => tar[n] \in Archive) /\ SnapshotMade(n)
    BY <1>1, <1>4, TarSame, Zenon DEF Whole
  <2>2. /\ to = "reply" => tar[n] # None /\ tar[n].whole = TRUE /\ tar[n].of = snapOf[n]
        /\ to = "removed" => tar[n] = None
    BY <1>2, <2>1, Zenon DEF SnapshotMade
  <2>3. CASE ctl[n] \in Making
    BY <1>2, <1>4, <2>1, <2>2, <2>3, SnapGood, Zenon
  <2>4. CASE ctl[n] \in Removing
    BY <1>2, <1>4, <2>1, <2>2, <2>4, UnsnapGood, Zenon
  <2>. QED  BY <1>1, <2>3, <2>4, Zenon
<1>. QED  BY <1>3, <1>4, Zenon DEF Obj

\* The caller is told that a volume or snapshot is there when it is, whole.
LEMMA ReplyGood ==
    ASSUME NfsInv, NEW n \in Obj, n \in Vol => Keeps(n), Calls!Reply(n),
           UNCHANGED <<plan, dir, tar, snapOf>>
    PROVE  Good(n)
<1>1. /\ ctl[n] = "reply" /\ acked' = acked \cup {n} /\ ctl' = [ctl EXCEPT ![n] = "idle"]
      /\ UNCHANGED <<wanted, delWanted, gone>>
  BY Zenon DEF Calls!Reply
<1>2. Types /\ Exclusive /\ Whole(n)
  BY Zenon DEF NfsInv
<1>3. n \in wanted \ acked /\ n \notin delWanted /\ n \notin gone
  BY <1>1, <1>2, Zenon DEF Types, Whole, Asked, Making
<1>4. WritesDir(n) /\ WritesTar(n)
  BY Zenon DEF WritesDir, WritesTar
<1>5. Types' /\ Exclusive' /\ Apart(n) /\ ctl'[n] = "idle"
  BY <1>1, <1>2, <1>3, <1>4, CallStep, Zenon
<1>6. Asked(n)'
  BY <1>5, Zenon DEF Asked, Making, Removing
<1>7. Made(n)' = Made(n)
  BY <1>1, Zenon DEF Made, MadeVolume, MadeSnapshot, DirOf, Src
<1>8. ASSUME n \in Vol PROVE VolumeMade(n)' /\ Made(n) = "ready"
  <2>1. /\ DirOf(n)' = DirOf(n) /\ Src(n)' = Src(n) /\ (Mine(n)' <=> Mine(n))
    BY Zenon DEF DirOf, Src, Mine
  <2>2. VolumeMade(n) /\ Mine(n) /\ dir[DirOf(n)].from = Src(n)
    BY <1>1, <1>2, <1>8, Zenon DEF Whole, VolumeMade
  <2>3. VolumeMade(n)'
    BY <1>1, <1>3, <1>5, <2>1, <2>2, Zenon DEF VolumeMade
  <2>4. Made(n) = "ready"
    BY <1>3, <1>8, <2>2, Zenon DEF Made, MadeVolume, Mine
  <2>. QED  BY <2>3, <2>4, Zenon
<1>9. ASSUME n \in Snap PROVE SnapshotMade(n)' /\ Made(n) = "ready"
  <2>1. /\ SnapshotMade(n) /\ n \notin Vol
        /\ tar[n] # None /\ tar[n].whole = TRUE /\ tar[n].of = snapOf[n]
    BY <1>1, <1>2, <1>9, Kinds, Zenon DEF Whole, SnapshotMade
  <2>2. SnapshotMade(n)'
    BY <1>1, <1>3, <1>5, <2>1, Zenon DEF SnapshotMade
  <2>3. Made(n) = "ready"
    BY <2>1, Zenon DEF Made, MadeSnapshot
  <2>. QED  BY <2>2, <2>3, Zenon
<1>10. Made(n) = "ready" /\ Whole(n)'
  BY <1>6, <1>8, <1>9, Zenon DEF Whole, Obj
<1>. QED  BY <1>1, <1>3, <1>5, <1>7, <1>10, Zenon DEF Good, Shown

\* The caller is told that it is gone when it is, or was to be retained.
LEMMA DeleteReplyGood ==
    ASSUME NfsInv, NEW n \in Obj, n \in Vol => Keeps(n), Calls!DeleteReply(n),
           UNCHANGED <<plan, dir, tar, snapOf>>
    PROVE  Good(n)
<1>1. /\ ctl[n] = "removed" /\ gone' = gone \cup {n} /\ ctl' = [ctl EXCEPT ![n] = "idle"]
      /\ UNCHANGED <<wanted, acked, delWanted>>
  BY Zenon DEF Calls!DeleteReply
<1>2. Types /\ Exclusive /\ Whole(n)
  BY Zenon DEF NfsInv
<1>3. n \in delWanted
  BY <1>1, <1>2, Zenon DEF Whole, Asked, Removing
<1>4. WritesDir(n) /\ WritesTar(n)
  BY Zenon DEF WritesDir, WritesTar
<1>5. Types' /\ Exclusive' /\ Apart(n) /\ ctl'[n] = "idle"
  BY <1>1, <1>2, <1>3, <1>4, CallStep, Zenon
<1>6. Asked(n)'
  BY <1>5, Zenon DEF Asked, Making, Removing
<1>7. ASSUME n \in Vol PROVE VolumeMade(n)' /\ Made(n)' = "absent"
  <2>1. /\ DirOf(n)' = DirOf(n) /\ Src(n)' = Src(n) /\ (Mine(n)' <=> Mine(n))
    BY Zenon DEF DirOf, Src, Mine
  <2>2. VolumeMade(n) /\ (plan.onDelete # "retain" => ~Mine(n))
    BY <1>1, <1>2, <1>7, Zenon DEF Whole, VolumeMade
  <2>3. VolumeMade(n)'
    BY <1>1, <1>3, <1>5, <2>1, <2>2, Zenon DEF VolumeMade
  <2>4. n \in gone'
    BY <1>1, Zenon
  <2>5. Made(n)' = "absent"
    BY <1>7, <2>1, <2>2, <2>4, Zenon DEF Made, MadeVolume, Mine
  <2>. QED  BY <2>3, <2>5, Zenon
<1>8. ASSUME n \in Snap PROVE SnapshotMade(n)' /\ Made(n)' = "absent"
  <2>1. SnapshotMade(n) /\ n \notin Vol /\ tar[n] = None
    BY <1>1, <1>2, <1>8, Kinds, Zenon DEF Whole, SnapshotMade
  <2>2. SnapshotMade(n)'
    BY <1>1, <1>3, <1>5, <2>1, Zenon DEF SnapshotMade
  <2>3. Made(n)' = "absent"
    BY <2>1, Zenon DEF Made, MadeSnapshot
  <2>. QED  BY <2>2, <2>3, Zenon
<1>9. Made(n)' = "absent" /\ Whole(n)'
  BY <1>6, <1>7, <1>8, Zenon DEF Whole, Obj
<1>. QED  BY <1>1, <1>3, <1>5, <1>9, Zenon DEF Good, Shown

\* A handler that dies while it copies, archives or removes leaves a part of it.
LEMMA InterruptGood ==
    ASSUME NfsInv, NEW n \in Obj, n \in Vol => Keeps(n), Interrupt(n) PROVE Good(n)
<1>1. /\ ctl[n] # "idle" /\ ctl' = [ctl EXCEPT ![n] = "idle"]
      /\ UNCHANGED <<plan, wanted, acked, delWanted, gone, snapOf>>
  BY Zenon DEF Interrupt, Calls!Interrupt
<1>2. Types /\ Whole(n)
  BY Zenon DEF NfsInv
<1>3. CASE UNCHANGED <<dir, tar>>
  BY <1>1, <1>3, LeaveGood, Zenon
<1>4. ASSUME ctl[n] = "tar", tar' = [tar EXCEPT ![n] = [of |-> snapOf[n], whole |-> FALSE]],
             dir' = dir
      PROVE  Good(n)
  <2>1. n \in Snap /\ ctl[n] \in Making
    BY <1>2, <1>4, Zenon DEF Whole, Asked, Obj, Making
  <2>2. snapOf[n] \in Vol
    BY <1>2, <1>4, <2>1, Zenon DEF Whole, SnapshotMade
  <2>3. PICK t : t = [of |-> snapOf[n], whole |-> FALSE]
    BY Zenon
  <2>4. t \in Archive
    BY <2>2, <2>3, SMT DEF Archive
  <2>5. tar' = [tar EXCEPT ![n] = t]
    BY <1>4, <2>3, Zenon
  <2>. QED  BY <1>1, <1>4, <2>1, <2>4, <2>5, SnapGood, Zenon
<1>5. ASSUME ctl[n] = "fill" \/ ctl[n] = "remove", dir[DirOf(n)] # None,
             dir' = [dir EXCEPT ![DirOf(n)].from = "part"], tar' = tar
      PROVE  Good(n)
  <2>1. n \in Vol
    BY <1>2, <1>5, Zenon DEF Whole, SnapshotMade, Obj
  <2>2. n \in wanted /\ n \notin gone
    BY <1>2, <1>5, Zenon DEF Types, Whole, Asked, Making, Removing
  <2>3. Mine(n)
    BY <1>5, <2>1, <2>2, Alone, Zenon
  <2>4. PICK e : e = dir[DirOf(n)]
    BY Zenon
  <2>5. PICK d : d = [e EXCEPT !.from = "part"]
    BY Zenon
  <2>6. e \in Directory /\ e.owner = n
    <3>1. DirOf(n) \in Dirs
      BY <1>2, <2>1, Paths, Zenon
    <3>. QED  BY <1>2, <1>5, <2>3, <2>4, <3>1, Zenon DEF Types, Mine
  <2>7. d \in Directory /\ d.owner = n /\ d.from = "part"
    BY <2>5, <2>6, SMT DEF Directory
  <2>8. dir' = [dir EXCEPT ![DirOf(n)] = d]
    BY <1>5, <2>4, <2>5, Zenon
  <2>9. CASE ctl[n] = "fill"
    <3>1. Src(n) # None /\ ctl[n] \in Making
      BY <1>2, <2>1, <2>9, Zenon DEF Whole, VolumeMade, Making
    <3>. QED  BY <1>1, <1>5, <2>1, <2>7, <2>8, <3>1, MakeGood, Zenon
  <2>10. CASE ctl[n] = "remove"
    <3>1. ctl[n] \in Removing
      BY <2>10, Zenon DEF Removing
    <3>. QED  BY <1>1, <1>5, <2>1, <2>7, <2>8, <3>1, UnmakeGood, Zenon
  <2>. QED  BY <1>5, <2>9, <2>10, Zenon
<1>. QED  BY <1>3, <1>4, <1>5, Zenon DEF Interrupt

-----------------------------------------------------------------------------
(* Volumes that share a directory *)

\* Whatever the handler of a volume that is not kept does in its directory, no object that
\* is kept notices.
LEMMA Loose ==
    ASSUME NfsInv, NEW v \in Vol, ~Keeps(v), NEW to, ctl' = [ctl EXCEPT ![v] = to],
           UNCHANGED <<plan, tar, snapOf>>, WritesDir(v), Asked(v)',
           wanted' \in {wanted, wanted \cup {v}},
           acked' \in {acked, acked \cup {v}}, acked' = acked \/ v \in wanted,
           delWanted' \in {delWanted, delWanted \cup {v}}, delWanted' = delWanted \/ v \in acked,
           gone' \in {gone, gone \cup {v}}, gone' = gone \/ v \in delWanted
    PROVE  Good(v)
<1>1. Types /\ Exclusive /\ v \in Obj /\ v \notin Snap /\ v \notin Keepable
  BY Kinds, Kept, Zenon DEF NfsInv
<1>2. Fresh(v) /\ WritesTar(v)
  BY Zenon DEF Fresh, WritesTar, Keeps
<1>3. Types' /\ Exclusive' /\ Apart(v)
  BY <1>1, <1>2, CallStep, Zenon
<1>4. Whole(v)'
  BY <1>1, Steady, Zenon DEF Whole
<1>. QED  BY <1>1, <1>3, <1>4, Zenon DEF Good

LEMMA LooseGood ==
    ASSUME NfsInv, NEW v \in Vol, ~Keeps(v),
           \/ CreateCall(v) \/ CreateMkdir(v) \/ CreateFill(v) \/ DeleteCall(v) \/ DeleteRemove(v)
           \/ Umount(v) \/ UmountFails(v) \/ Respond(v) \/ Interrupt(v)
    PROVE  Good(v)
<1>1. Types /\ Asked(v) /\ v \in Obj /\ v \notin Snap /\ DirOf(v) \in Dirs
  BY Kinds, Paths, Zenon DEF NfsInv, Whole, Types
<1>2. PICK e : e = dir[DirOf(v)]
  BY Zenon
<1>3. e # None => e \in Directory /\ DirOf(e.owner) = DirOf(v)
  BY <1>1, <1>2, Zenon DEF Types
\* What a handler may leave in its directory.
<1>4. ASSUME NEW d, dir' = [dir EXCEPT ![DirOf(v)] = d],
             d # None => d \in Directory /\ DirOf(d.owner) = DirOf(v)
      PROVE  WritesDir(v)
  BY <1>4, Zenon DEF WritesDir
\* A command of a handler: the caller learns nothing.
<1>5. ASSUME NEW to, ctl' = [ctl EXCEPT ![v] = to], WritesDir(v),
             UNCHANGED <<plan, tar, snapOf, wanted, acked, delWanted, gone>>,
             \/ to = "idle"
             \/ ctl[v] \in Making /\ to \in {"fill", "umount", "reply"}
             \/ ctl[v] \in Removing /\ to \in {"umountRemoved", "removed"}
      PROVE  Good(v)
  <2>1. ctl'[v] = to
    BY <1>1, <1>5, Zenon DEF Types, On
  <2>2. Asked(v)'
    BY <1>1, <1>5, <2>1, Zenon DEF Asked, Making, Removing
  <2>. QED  BY <1>5, <2>2, Loose, Zenon
<1>6. CASE CreateCall(v)
  <2>1. /\ v \notin acked /\ wanted' = wanted \cup {v} /\ ctl' = [ctl EXCEPT ![v] = "mkdir"]
        /\ UNCHANGED <<acked, delWanted, gone, plan, dir, tar, snapOf>>
    BY <1>6, Zenon DEF CreateCall, Calls!Create, Control, volumes, snapshots
  <2>2. ctl'[v] = "mkdir"
    BY <1>1, <2>1, Zenon DEF Types, On
  <2>3. Asked(v)' /\ WritesDir(v)
    BY <2>1, <2>2, Zenon DEF Asked, Making, Removing, WritesDir
  <2>. QED  BY <2>1, <2>3, Loose, Zenon
<1>7. CASE CreateMkdir(v)
  <2>1. PICK to : to = IF Src(v) = None THEN "umount" ELSE "fill"
    BY Zenon
  <2>2. PICK d : d = IF e = None THEN [owner |-> v, from |-> None] ELSE e
    BY Zenon
  <2>3. /\ ctl[v] = "mkdir" /\ ctl' = [ctl EXCEPT ![v] = to]
        /\ UNCHANGED <<plan, tar, snapOf, wanted, acked, delWanted, gone>>
    BY <1>7, <2>1, Zenon DEF CreateMkdir, Calls!Step, Control, snapshots
  <2>4. dir' = [dir EXCEPT ![DirOf(v)] = d]
    BY <1>7, <1>2, <2>2, Zenon DEF CreateMkdir
  <2>5. d \in Directory /\ DirOf(d.owner) = DirOf(v)
    <3>1. [owner |-> v, from |-> None] \in Directory /\ [owner |-> v, from |-> None].owner = v
      BY SMT DEF Directory
    <3>. QED  BY <1>3, <2>2, <3>1, Zenon
  <2>6. WritesDir(v)
    BY <1>4, <2>4, <2>5, Zenon
  <2>7. ctl[v] \in Making /\ to \in {"fill", "umount", "reply"}
    BY <2>1, <2>3, Zenon DEF Making
  <2>. QED  BY <1>5, <2>3, <2>6, <2>7, Zenon
<1>8. CASE CreateFill(v)
  <2>1. PICK to : ctl' = [ctl EXCEPT ![v] = to] /\ to \in {"umount", "idle"}
    BY <1>8, Zenon DEF CreateFill, Calls!Step
  <2>2. ctl[v] = "fill" /\ UNCHANGED <<plan, tar, snapOf, wanted, acked, delWanted, gone>>
    BY <1>8, Zenon DEF CreateFill, Calls!Step, Control, snapshots
  <2>3. PICK o : o = IF e = None THEN v ELSE e.owner
    BY Zenon
  <2>4. PICK d : d = [owner |-> o, from |-> Src(v)]
    BY Zenon
  <2>5. dir' = dir \/ dir' = [dir EXCEPT ![DirOf(v)] = d]
    BY <1>8, <1>2, <2>3, <2>4, Zenon DEF CreateFill
  <2>6. d \in Directory /\ DirOf(d.owner) = DirOf(v)
    <3>1. o \in Vol /\ DirOf(o) = DirOf(v)
      BY <1>3, <2>3, SMT DEF Directory
    <3>2. Src(v) \in Obj \cup {None}
      BY <1>1, Instance, SMT DEF Types, Src, Obj
    <3>3. d \in Directory /\ d.owner = o
      BY <2>4, <3>1, <3>2, SMT DEF Directory
    <3>. QED  BY <3>1, <3>3, Zenon
  <2>7. WritesDir(v)
    BY <1>4, <2>5, <2>6, Zenon DEF WritesDir
  <2>8. ctl[v] \in Making
    BY <2>2, Zenon DEF Making
  <2>. QED  BY <1>5, <2>1, <2>2, <2>7, <2>8, Zenon
<1>9. CASE DeleteCall(v)
  <2>1. PICK to : to = IF plan.onDelete = "retain" THEN "removed" ELSE "remove"
    BY Zenon
  <2>2. /\ v \in acked \ gone /\ delWanted' = delWanted \cup {v} /\ ctl' = [ctl EXCEPT ![v] = to]
        /\ UNCHANGED <<wanted, acked, gone, plan, dir, tar, snapOf>>
    BY <1>9, <2>1, Zenon DEF DeleteCall, Calls!Delete, Control, volumes, snapshots
  <2>3. ctl'[v] = to /\ to \in {"remove", "removed"}
    BY <1>1, <2>1, <2>2, Zenon DEF Types, On
  <2>4. Asked(v)' /\ WritesDir(v)
    BY <2>2, <2>3, Zenon DEF Asked, Making, Removing, WritesDir
  <2>. QED  BY <2>2, <2>4, Loose, Zenon
<1>10. CASE DeleteRemove(v)
  <2>1. PICK to : ctl' = [ctl EXCEPT ![v] = to] /\ to \in {"umountRemoved", "idle"}
    BY <1>10, Zenon DEF DeleteRemove, Calls!Step
  <2>2. ctl[v] = "remove" /\ UNCHANGED <<plan, tar, snapOf, wanted, acked, delWanted, gone>>
    BY <1>10, Zenon DEF DeleteRemove, Calls!Step, Control, snapshots
  <2>3. dir' = dir \/ dir' = [dir EXCEPT ![DirOf(v)] = None]
    BY <1>10, Zenon DEF DeleteRemove
  <2>4. WritesDir(v)
    BY <1>4, <2>3, Zenon DEF WritesDir
  <2>5. ctl[v] \in Removing
    BY <2>2, Zenon DEF Removing
  <2>. QED  BY <1>5, <2>1, <2>2, <2>4, <2>5, Zenon
<1>11. CASE Umount(v) \/ UmountFails(v)
  <2>1. UNCHANGED <<plan, wanted, acked, delWanted, gone, dir, tar, snapOf>>
    BY <1>11, Zenon DEF Umount, UmountFails, Calls!Step, Control, volumes, snapshots
  <2>2. PICK to : /\ ctl' = [ctl EXCEPT ![v] = to]
                  /\ \/ to = "idle" \/ (ctl[v] = "umount" /\ to = "reply")
                     \/ (ctl[v] = "umountRemoved" /\ to = "removed")
    BY <1>11, Zenon DEF Umount, UmountFails, Calls!Step
  <2>3. /\ ctl[v] = "umount" => ctl[v] \in Making
        /\ ctl[v] = "umountRemoved" => ctl[v] \in Removing
    BY Zenon DEF Making, Removing
  <2>4. WritesDir(v)
    BY <2>1, Zenon DEF WritesDir
  <2>. QED  BY <1>5, <2>1, <2>2, <2>3, <2>4, Zenon
<1>12. CASE Respond(v)
  <2>1. ctl' = [ctl EXCEPT ![v] = "idle"] /\ UNCHANGED <<plan, dir, tar, snapOf, wanted, delWanted>>
    BY <1>12, Zenon DEF Respond, Calls!Reply, Calls!DeleteReply, Control, volumes, snapshots
  <2>2. \/ acked' = acked \cup {v} /\ gone' = gone /\ v \in wanted
        \/ gone' = gone \cup {v} /\ acked' = acked /\ v \in delWanted
    BY <1>1, <1>12, Zenon DEF Respond, Calls!Reply, Calls!DeleteReply, Asked, Making, Removing
  <2>3. ctl'[v] = "idle"
    BY <1>1, <2>1, Zenon DEF Types, On
  <2>4. Asked(v)' /\ WritesDir(v)
    BY <2>1, <2>3, Zenon DEF Asked, Making, Removing, WritesDir
  <2>. QED  BY <2>1, <2>2, <2>4, Loose, Zenon
<1>13. CASE Interrupt(v)
  <2>1. /\ ctl' = [ctl EXCEPT ![v] = "idle"]
        /\ UNCHANGED <<plan, wanted, acked, delWanted, gone, snapOf>>
    BY <1>13, Zenon DEF Interrupt, Calls!Interrupt
  <2>2. ctl[v] # "tar"
    BY <1>1, Zenon DEF Asked
  <2>3. CASE UNCHANGED <<dir, tar>>
    BY <1>5, <2>1, <2>3, Zenon DEF WritesDir
  <2>4. ASSUME e # None, dir' = [dir EXCEPT ![DirOf(v)].from = "part"], tar' = tar
        PROVE  Good(v)
    <3>1. PICK d : d = [e EXCEPT !.from = "part"]
      BY Zenon
    <3>2. d \in Directory /\ d.owner = e.owner
      BY <1>3, <2>4, <3>1, SMT DEF Directory
    <3>3. dir' = [dir EXCEPT ![DirOf(v)] = d]
      BY <1>2, <2>4, <3>1, Zenon
    <3>4. WritesDir(v)
      BY <1>3, <1>4, <2>4, <3>2, <3>3, Zenon
    <3>. QED  BY <1>5, <2>1, <2>4, <3>4, Zenon
  <2>. QED  BY <1>2, <1>13, <2>2, <2>3, <2>4, Zenon DEF Interrupt
<1>. QED  BY <1>6, <1>7, <1>8, <1>9, <1>10, <1>11, <1>12, <1>13, Zenon

-----------------------------------------------------------------------------
(* The controller's calls, together *)

\* The node handlers of a volume.
Steps(v) ==
    NodeStage(v) \/ NodeUnstage(v) \/ NodePublish(v) \/ NodeUnpublish(v) \/ InterruptNode(v)

\* A step that leaves the export and the calls alone.
LEMMA Idle ==
    ASSUME NfsInv,
           UNCHANGED <<plan, dir, tar, snapOf, ctl, wanted, acked, delWanted, gone>>
    PROVE  NfsInv' /\ ServesStep
<1>1. Types'
  BY Zenon DEF NfsInv, Types, On, DirOf
<1>2. Exclusive'
  BY Zenon DEF NfsInv, Exclusive, DirOf
<1>3. ASSUME NEW n \in Obj PROVE Whole(n)'
  <2>1. Asked(n)' /\ (VolumeMade(n) => VolumeMade(n)') /\ (SnapshotMade(n) => SnapshotMade(n)')
    BY Zenon DEF NfsInv, Whole, Asked, VolumeMade, SnapshotMade, Mine, DirOf, Src
  <2>. QED  BY <2>1, Steady, Zenon DEF NfsInv, Whole
<1>4. \A n \in Obj : Made(n)' = Made(n)
  BY Zenon DEF Made, MadeVolume, MadeSnapshot, DirOf, Src
<1>5. UNCHANGED Service!vars
  BY <1>4, Steady, Zenon DEF Service!vars, Made
<1>. QED  BY <1>1, <1>2, <1>3, <1>5, Zenon DEF NfsInv, ServesStep

\* Every step of a controller handler is a good one on its object.
LEMMA NextGood ==
    ASSUME NfsInv, Next
    PROVE  (\E n \in Obj : Good(n)) \/ \E v \in Vol : Steps(v)
<1>1. ASSUME NEW v \in Vol, Keeps(v), \/ CreateCall(v) \/ CreateMkdir(v) \/ CreateFill(v)
                                      \/ DeleteCall(v) \/ DeleteRemove(v)
      PROVE  Good(v)
  <2>1. ASSUME DeleteCall(v) PROVE Good(v)
    <3>1. PICK to : to = IF plan.onDelete = "retain" THEN "removed" ELSE "remove"
      BY Zenon
    <3>2. Calls!Delete(v, to) /\ UNCHANGED <<plan, dir, tar, snapOf>>
      BY <2>1, <3>1, Zenon DEF DeleteCall, Control, volumes, snapshots
    <3>3. v \in Obj /\ v \notin Snap
      BY Kinds, Zenon
    <3>4. to = "remove" \/ (to = "removed" /\ plan.onDelete = "retain")
      BY <3>1, Zenon
    <3>. QED  BY <1>1, <3>2, <3>3, <3>4, DeleteGood, Zenon
  <2>. QED  BY <1>1, <2>1, CreateCallGood, CreateMkdirGood, CreateFillGood, DeleteRemoveGood, Zenon
<1>2. ASSUME NEW s \in Snap,
             \/ \E v \in Vol : SnapCall(s, v)
             \/ SnapCheck(s) \/ SnapTar(s) \/ SnapLabel(s) \/ SnapLabelFails(s)
             \/ UnsnapCall(s) \/ UnsnapUnlabel(s) \/ UnsnapUntar(s)
      PROVE  Good(s)
  <2>1. ASSUME UnsnapCall(s) PROVE Good(s)
    <3>1. Calls!Delete(s, "unlabel") /\ UNCHANGED <<plan, dir, tar, snapOf>>
      BY <2>1, Zenon DEF UnsnapCall, Control, volumes, snapshots
    <3>2. s \in Obj /\ s \notin Vol
      BY Kinds, Zenon
    <3>. QED  BY <3>1, <3>2, DeleteGood, Zenon
  <2>. QED  BY <1>2, <2>1, SnapCallGood, SnapCheckGood, SnapTarGood, SnapLabelGood, UnsnapStepGood, Zenon
<1>3. ASSUME NEW n \in Obj, n \in Vol => Keeps(n), Umount(n) \/ UmountFails(n) PROVE Good(n)
  <2>1. UNCHANGED <<plan, wanted, acked, delWanted, gone, dir, tar, snapOf>>
    BY <1>3, Zenon DEF Umount, UmountFails, Calls!Step, Control, volumes, snapshots
  <2>2. PICK to : /\ ctl' = [ctl EXCEPT ![n] = to] /\ ctl[n] # "idle"
                  /\ \/ to = "idle" \/ (ctl[n] = "umount" /\ to = "reply")
                     \/ (ctl[n] = "umountRemoved" /\ to = "removed")
    BY <1>3, Zenon DEF Umount, UmountFails, Calls!Step
  <2>. QED  BY <1>3, <2>1, <2>2, LeaveGood, Zenon
<1>4. ASSUME NEW n \in Obj, n \in Vol => Keeps(n), Respond(n) PROVE Good(n)
  <2>1. UNCHANGED <<plan, dir, tar, snapOf>>
    BY <1>4, Zenon DEF Respond, Control, volumes, snapshots
  <2>. QED  BY <1>4, <2>1, ReplyGood, DeleteReplyGood, Zenon DEF Respond
<1>5. Vol \subseteq Obj /\ Snap \subseteq Obj
  BY Zenon DEF Obj
<1>6. ASSUME NEW n \in Obj, Umount(n) \/ UmountFails(n) \/ Respond(n) \/ Interrupt(n)
      PROVE  Good(n)
  <2>1. CASE n \in Vol /\ ~Keeps(n)
    BY <1>6, <2>1, LooseGood, Zenon
  <2>2. CASE n \in Vol => Keeps(n)
    BY <1>3, <1>4, <1>6, <2>2, InterruptGood, Zenon
  <2>. QED  BY <2>1, <2>2, Zenon
<1>7. ASSUME NEW v \in Vol, \/ CreateCall(v) \/ CreateMkdir(v) \/ CreateFill(v)
                            \/ DeleteCall(v) \/ DeleteRemove(v)
      PROVE  Good(v)
  BY <1>1, <1>7, LooseGood, Zenon
<1>. QED  BY <1>2, <1>5, <1>6, <1>7, Zenon DEF Next, Steps

LEMMA NfsStart == Init => NfsInv /\ MountInv /\ Service!Init
<1>. SUFFICES ASSUME Init PROVE NfsInv /\ MountInv /\ Service!Init
  BY Zenon
<1>1. /\ plan \in Plans /\ dir = [d \in Dirs |-> None] /\ tar = [s \in Snap |-> None]
      /\ snapOf = [s \in Snap |-> None] /\ ctl = [o \in Obj |-> "idle"]
      /\ wanted = {} /\ acked = {} /\ delWanted = {} /\ gone = {}
      /\ node = [v \in Vol |-> "idle"] /\ mnt = {} /\ bind = [v \in Vol |-> "none"]
      /\ using = {} /\ staged = {} /\ published = {}
  BY Zenon DEF Init, Calls!Init, Mounts!Init
<1>2. Types
  BY <1>1, Zenon DEF Types, On
<1>3. Exclusive
  BY <1>1, Zenon DEF Exclusive
<1>4. \A v \in Vol : dir[DirOf(v)] = None
  BY <1>1, <1>2, Paths, Zenon
<1>5. ASSUME NEW n \in Obj PROVE Whole(n)
  <2>1. ctl[n] = "idle"
    BY <1>1, Zenon
  <2>2. Asked(n)
    BY <2>1, Zenon DEF Asked, Making, Removing
  <2>3. n \in Vol => VolumeMade(n)
    BY <1>1, <1>4, <2>1, Zenon DEF VolumeMade, Mine
  <2>4. n \in Snap => SnapshotMade(n)
    BY <1>1, <2>1, Zenon DEF SnapshotMade
  <2>. QED  BY <2>2, <2>3, <2>4, Zenon DEF Whole
<1>6. \A n \in Obj : Made(n) = "absent"
  BY <1>1, <1>4, Zenon DEF Made, MadeVolume, MadeSnapshot, Obj
<1>7. Service!Init
  BY <1>1, <1>6, Zenon DEF Service!Init, Made
<1>8. MountInv
  BY <1>1, Zenon DEF MountInv, On, KubeletToldTrue, Mounts!ToldIsSo
<1>. QED  BY <1>2, <1>3, <1>5, <1>7, <1>8, Zenon DEF NfsInv

LEMMA NfsStep == ASSUME NfsInv, [Next]_vars PROVE NfsInv' /\ ServesStep
<1>1. ASSUME NEW v \in Vol, Steps(v) PROVE NfsInv' /\ ServesStep
  <2>1. UNCHANGED <<plan, dir, tar, snapOf, ctl, wanted, acked, delWanted, gone>>
    BY <1>1, Zenon DEF Steps, NodeStage, NodeUnstage, NodePublish, NodeUnpublish, InterruptNode,
       NodeOnly, volumes, snapshots, callVars
  <2>. QED  BY <2>1, Idle, Zenon
<1>2. CASE Next
  BY <1>1, <1>2, NextGood, OneStep, Zenon
<1>3. CASE UNCHANGED vars
  BY <1>3, Idle, Zenon DEF vars, volumes, snapshots, callVars
<1>. QED  BY <1>2, <1>3, Zenon

\* CreateVolume, DeleteVolume, CreateSnapshot and DeleteSnapshot (nfsplugin) keep what a CSI
\* caller may rely on, for any volumes, directories, sources, deletion policies and faults;
\* volumes that have one directory at the same time are promised nothing (Keepable), and
\* take nothing from the others.
THEOREM NfsServes == Spec => Served
<1>1. NfsInv /\ [Next]_vars => NfsInv' /\ [Service!Next]_(Service!vars)
  BY NfsStep, Zenon DEF ServesStep
<1>. QED  BY <1>1, NfsStart, PTL DEF Spec, Served, Service!Spec

-----------------------------------------------------------------------------
(* The node *)

\* The handlers of v leave the other volumes' mounts alone.
LEMMA MountStep ==
    ASSUME MountInv, NEW v \in Vol, NEW to, NEW b,
           node' = [node EXCEPT ![v] = to], bind' = [bind EXCEPT ![v] = b],
           mnt' \in {mnt, mnt \cup {v}, mnt \ {v}},
           using' \in {using, using \cup {v}, using \ {v}},
           staged' \in {staged, staged \cup {v}, staged \ {v}},
           published' \in {published, published \cup {v}, published \ {v}},
           v \in staged' => v \in mnt', v \in mnt' => v \in using',
           v \in published' => v \in staged' /\ b # "none", b # "none" => v \in staged',
           to \in {"mount", "staged"} => v \in using', to = "staged" => v \in mnt',
           to \in {"bind", "remount"} => v \in staged', to = "remount" => b # "none"
    PROVE  MountInv'
<1>1. /\ On(Vol, node)' /\ node'[v] = to /\ On(Vol, bind)' /\ bind'[v] = b
      /\ \A w \in Vol \ {v} : node'[w] = node[w] /\ bind'[w] = bind[w]
  BY Zenon DEF MountInv, On
<1>2. \A w : w # v => /\ w \in mnt' <=> w \in mnt
                      /\ w \in using' <=> w \in using
                      /\ w \in staged' <=> w \in staged
                      /\ w \in published' <=> w \in published
  OBVIOUS
<1>3. staged' \subseteq mnt' /\ mnt' \subseteq using' /\ published' \subseteq staged'
  BY <1>2, Zenon DEF MountInv, KubeletToldTrue, Mounts!ToldIsSo
<1>4. ASSUME NEW w \in Vol
      PROVE  /\ bind'[w] # "none" => w \in staged'
             /\ w \in published' => bind'[w] # "none"
             /\ node'[w] \in {"mount", "staged"} => w \in using'
             /\ node'[w] = "staged" => w \in mnt'
             /\ node'[w] \in {"bind", "remount"} => w \in staged'
             /\ node'[w] = "remount" => bind'[w] # "none"
  <2>1. CASE w = v
    BY <1>1, <2>1, Zenon
  <2>2. CASE w # v
    BY <1>1, <1>2, <2>2, Zenon DEF MountInv, KubeletToldTrue, Mounts!ToldIsSo
  <2>. QED  BY <2>1, <2>2, Zenon
<1>. QED  BY <1>1, <1>3, <1>4, Zenon DEF MountInv, KubeletToldTrue, Mounts!ToldIsSo

\* Every command of the node's handlers keeps what the kubelet was told.
LEMMA MountsGood == ASSUME MountInv, NEW v \in Vol, Steps(v) PROVE MountInv'
<1>1. /\ v \in staged => v \in mnt
      /\ v \in mnt => v \in using
      /\ v \in published => v \in staged /\ bind[v] # "none"
      /\ bind[v] # "none" => v \in staged
      /\ node[v] \in {"mount", "staged"} => v \in using
      /\ node[v] = "staged" => v \in mnt
      /\ node[v] \in {"bind", "remount"} => v \in staged
      /\ node[v] = "remount" => bind[v] # "none"
  BY Zenon DEF MountInv, KubeletToldTrue, Mounts!ToldIsSo
<1>2. /\ node = [node EXCEPT ![v] = node[v]]
      /\ bind = [bind EXCEPT ![v] = bind[v]]
  BY Zenon DEF MountInv, On
<1>3. ASSUME Mounts!StageCall(v, "mount") PROVE MountInv'
  <2>1. /\ node' = [node EXCEPT ![v] = "mount"] /\ using' = using \cup {v}
        /\ v \notin staged /\ UNCHANGED <<mnt, bind, staged, published>>
    BY <1>3, Zenon DEF Mounts!StageCall, Mounts!Goto
  <2>. QED  BY <1>1, <1>2, <2>1, MountStep, Zenon
<1>4. ASSUME Mounts!Mount(v, "staged") PROVE MountInv'
  <2>1. /\ node' = [node EXCEPT ![v] = "staged"] /\ mnt' = mnt \cup {v}
        /\ node[v] = "mount" /\ UNCHANGED <<bind, using, staged, published>>
    BY <1>4, Zenon DEF Mounts!Mount, Mounts!Goto
  <2>. QED  BY <1>1, <1>2, <2>1, MountStep, Zenon
<1>5. ASSUME Mounts!StageReply(v) PROVE MountInv'
  <2>1. /\ node' = [node EXCEPT ![v] = "idle"] /\ staged' = staged \cup {v}
        /\ node[v] = "staged" /\ UNCHANGED <<mnt, bind, using, published>>
    BY <1>5, Zenon DEF Mounts!StageReply, Mounts!Goto
  <2>. QED  BY <1>1, <1>2, <2>1, MountStep, Zenon
<1>6. ASSUME Mounts!Unstage(v) PROVE MountInv'
  <2>1. /\ node[v] = "idle" /\ v \notin published /\ bind[v] = "none"
        /\ mnt' = mnt \ {v} /\ using' = using \ {v} /\ staged' = staged \ {v}
        /\ UNCHANGED <<node, bind, published>>
    BY <1>6, Zenon DEF Mounts!Unstage
  <2>. QED  BY <1>1, <1>2, <2>1, MountStep, Zenon
<1>7. ASSUME Mounts!PublishCall(v) PROVE MountInv'
  <2>1. /\ node' = [node EXCEPT ![v] = "bind"] /\ v \in staged
        /\ UNCHANGED <<mnt, bind, using, staged, published>>
    BY <1>7, Zenon DEF Mounts!PublishCall, Mounts!Goto
  <2>. QED  BY <1>1, <1>2, <2>1, MountStep, Zenon
<1>8. ASSUME Mounts!Bind(v) PROVE MountInv'
  <2>1. PICK b : b = IF bind[v] = "none" THEN "rw" ELSE bind[v]
    BY Zenon
  <2>2. bind' = [bind EXCEPT ![v] = b] /\ b # "none"
    BY <1>8, <2>1, Zenon DEF Mounts!Bind, MountInv, On
  <2>3. node[v] = "bind" /\ UNCHANGED <<mnt, using, staged>>
    BY <1>8, Zenon DEF Mounts!Bind
  <2>4. \/ node' = [node EXCEPT ![v] = "remount"] /\ published' = published
        \/ node' = [node EXCEPT ![v] = "idle"] /\ published' = published \cup {v}
    BY <1>8, Zenon DEF Mounts!Bind, Mounts!Goto
  <2>. QED  BY <1>1, <2>2, <2>3, <2>4, MountStep, Zenon
<1>9. ASSUME Mounts!Remount(v) PROVE MountInv'
  <2>1. /\ node[v] = "remount" /\ node' = [node EXCEPT ![v] = "idle"]
        /\ bind' = [bind EXCEPT ![v] = "ro"] /\ published' = published \cup {v}
        /\ UNCHANGED <<mnt, using, staged>>
    BY <1>9, Zenon DEF Mounts!Remount, Mounts!Goto
  <2>. QED  BY <1>1, <2>1, MountStep, Zenon
<1>10. ASSUME Mounts!Unpublish(v) PROVE MountInv'
  <2>1. /\ node[v] = "idle" /\ bind' = [bind EXCEPT ![v] = "none"]
        /\ published' = published \ {v} /\ UNCHANGED <<node, mnt, using, staged>>
    BY <1>10, Zenon DEF Mounts!Unpublish
  <2>. QED  BY <1>1, <1>2, <2>1, MountStep, Zenon
<1>11. ASSUME Mounts!Interrupt(v) PROVE MountInv'
  <2>1. /\ node' = [node EXCEPT ![v] = "idle"]
        /\ UNCHANGED <<mnt, bind, using, staged, published>>
    BY <1>11, Zenon DEF Mounts!Interrupt, Mounts!Goto
  <2>. QED  BY <1>1, <1>2, <2>1, MountStep, Zenon
<1>. QED  BY <1>3, <1>4, <1>5, <1>6, <1>7, <1>8, <1>9, <1>10, <1>11, Zenon
         DEF Steps, NodeStage, NodeUnstage, NodePublish, NodeUnpublish, InterruptNode

\* NodeStage, NodePublish, NodeUnpublish and NodeUnstage (nfsplugin), interrupted and retried
\* at will: the kubelet is told the truth about every mount.
THEOREM NfsTellsKubelet == Spec => []KubeletToldTrue
<1>1. ASSUME MountInv, [Next]_vars PROVE MountInv'
  <2>1. CASE \E v \in Vol : Steps(v)
    BY <1>1, <2>1, MountsGood, Zenon
  <2>2. CASE UNCHANGED mountVars
    BY <1>1, <2>2, Zenon DEF mountVars, MountInv, On, KubeletToldTrue, Mounts!ToldIsSo
  <2>3. CASE Next
    <3>1. ASSUME NEW v \in Vol, \/ CreateCall(v) \/ CreateMkdir(v) \/ CreateFill(v)
                                \/ DeleteCall(v) \/ DeleteRemove(v)
          PROVE  UNCHANGED mountVars
      BY <3>1, Zenon DEF CreateCall, CreateMkdir, CreateFill, DeleteCall, DeleteRemove, Control
    <3>2. ASSUME NEW s \in Snap,
                 \/ \E v \in Vol : SnapCall(s, v)
                 \/ SnapCheck(s) \/ SnapTar(s) \/ SnapLabel(s) \/ SnapLabelFails(s)
                 \/ UnsnapCall(s) \/ UnsnapUnlabel(s) \/ UnsnapUntar(s)
          PROVE  UNCHANGED mountVars
      BY <3>2, Zenon DEF SnapCall, SnapCheck, SnapTar, SnapLabel, SnapLabelFails, UnsnapCall,
         UnsnapUnlabel, UnsnapUntar, Control
    <3>3. ASSUME NEW n \in Obj, Umount(n) \/ UmountFails(n) \/ Respond(n) \/ Interrupt(n)
          PROVE  UNCHANGED mountVars
      BY <3>3, Zenon DEF Umount, UmountFails, Respond, Interrupt, Control
    <3>. QED  BY <2>1, <2>2, <2>3, <3>1, <3>2, <3>3, Zenon DEF Next, Steps
  <2>. QED  BY <1>1, <2>2, <2>3, Zenon DEF vars
<1>2. MountInv => KubeletToldTrue
  BY Zenon DEF MountInv
<1>. QED  BY <1>1, <1>2, NfsStart, PTL DEF Spec

=============================================================================
