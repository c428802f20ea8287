-------------------------- MODULE RbdVolumesProofs --------------------------
(***************************************************************************)
(* Proofs about RbdVolumes for every set of volumes, snapshots and requests *)
(* and every number of faults: an inductive invariant, its preservation by  *)
(* each action, the safety properties it implies, and that RbdVolumes       *)
(* implements ObjectService.                                                *)
(***************************************************************************)
EXTENDS RbdVolumes, TLAPS

-----------------------------------------------------------------------------
(* The inductive invariant *)

\* What the orchestrator asked for and was told.
Asked ==
    /\ acked \subseteq wanted /\ delWanted \subseteq acked
    /\ Static \subseteq acked
    /\ snapDel \subseteq snapAcked
    /\ \A v \in Vol : create[v] # "idle" =>
           v \in wanted \ acked /\ (ViaTmp(v) => SrcVol[v] \in acked)
    /\ \A v \in Vol : delete[v] # "idle" => v \in delWanted

\* A create handler past a command finds what that command left.
CreateHandler(v) ==
    /\ create[v] \in {"hit", "stamp", "size", "resize", "tail", "respond"}
         => v \in images
    /\ create[v] \in {"tail", "respond"} => size[v] >= ReqSize[v]
    /\ create[v] = "respond" /\ ViaTmp(v) => SourceSnap(v) \notin snaps
    /\ create[v] \in {"tmpsnap", "provision"} => v \notin images
    /\ create[v] = "tmpsnap" => ViaTmp(v)

CreateProgress == \A v \in Vol : CreateHandler(v)

\* rbd rm is reached for images of CSI's own only.
DeleteProgress == \A v \in Vol : delete[v] = "rm" => v \notin Static

\* Images that exist have a size and a content; a clone's source was an
\* acknowledged volume.
Content ==
    \A v \in images :
        /\ size[v] > 0 /\ root[v] # None
        /\ IsClone(v) => /\ SrcVol[v] \in acked
                         /\ SrcVol[v] \in images => root[v] = root[SrcVol[v]]

\* The image of a snapshot exists and was acknowledged.
SnapsOnImages == \A x \in snaps : x[1] \in images /\ x[1] \in acked

\* A snapshot handler works for a volume and a snapshot the orchestrator named.
SnapHandler(s) ==
    /\ snapshot[s] # None =>
           snapshot[s] \in acked /\ <<snapshot[s], s>> \notin snapAcked
    /\ s \in snapTaken => snapshot[s] # None /\ <<snapshot[s], s>> \in snaps
    /\ unsnap[s] # None => <<unsnap[s], s>> \in snapDel

SnapHandlers == \A s \in Snap : SnapHandler(s)

\* What an acknowledged volume is owed.
OwedTo(v) ==
    /\ ViaTmp(v) => SourceSnap(v) \notin snaps
    /\ cap[v] >= ReqSize[v]
    /\ v \notin delWanted => /\ v \in images
                             /\ size[v] >= ReqSize[v] /\ size[v] >= cap[v]

Owed == \A v \in acked : OwedTo(v)

\* The administrator's images exist and keep their mark.
AdminImages == Static \subseteq images /\ Static \subseteq static

IInv ==
    /\ TypeOK /\ Asked /\ CreateProgress /\ DeleteProgress /\ Content
    /\ SnapsOnImages /\ SnapHandlers /\ Owed /\ AdminImages
    /\ AckedSnapshotLive

-----------------------------------------------------------------------------
\* The snapshot a clone is made from is a snapshot of its source, and a temporary
\* one is never a CSI snapshot.
LEMMA SourceSnapType ==
    \A v \in Vol : IsClone(v) =>
        /\ SrcVol[v] \in Vol
        /\ SourceSnap(v) \in Vol \X (Snap \cup Vol)
        /\ SourceSnap(v)[1] = SrcVol[v]
        /\ ViaTmp(v) => SourceSnap(v) \notin Vol \X Snap
        /\ \A w \in Vol : SourceSnap(w) = SourceSnap(v) /\ ViaTmp(v) /\ ViaTmp(w)
                            => w = v
  BY Zenon, Requests DEF SourceSnap, ViaTmp, IsClone

\* Sizes and bounds are natural numbers, and None is not a volume.
LEMMA Basics ==
    ASSUME TypeOK
    PROVE  /\ MaxFaults \in Nat /\ None \notin Vol
           /\ \A v \in Vol : size[v] \in Nat /\ cap[v] \in Nat
           /\ \A v \in Vol : ReqSize[v] \in Nat /\ ReqSize[v] > 0
  BY Requests DEF TypeOK, TypeCluster, TypeCalls

\* What the proofs need of arithmetic.
LEMMA Arithmetic ==
    /\ 0 \in Nat
    /\ \A a \in Nat : a >= a /\ a + 1 \in Nat /\ a + 1 > 0
    /\ \A a, b \in Nat : (~(a < b) => a >= b) /\ (a >= b => a + 1 >= b)
    /\ \A a \in Nat : \A n \in 1..a : n \in Nat /\ n > 0
  BY SMT

\* One more fault, and one more restart, stay within the bounds.
LEMMA OneMore ==
    ASSUME TypeCalls, faults < MaxFaults
    PROVE  /\ faults + 1 \in 0..MaxFaults
           /\ restarts \in 0..(faults + 1) /\ restarts + 1 \in 0..(faults + 1)
           /\ restarts + 1 # 0
<1>1. MaxFaults \in Nat /\ faults \in 0..MaxFaults /\ restarts \in 0..faults
  BY Zenon, Requests DEF TypeCalls
<1>2. QED
  BY <1>1, SMT

\* The step of a create handler changes its own place only.
LEMMA GotoType ==
    ASSUME TypePlugin, NEW v \in Vol, NEW pc \in CreatePc, Goto(v, pc)
    PROVE  /\ create' \in [Vol -> CreatePc] /\ create'[v] = pc
           /\ \A w \in Vol : w # v => create'[w] = create[w]
  BY Zenon DEF TypePlugin, Goto

\* No handler starts, so those at work are still the ones asked for.
LEMMA AskedKept ==
    ASSUME Asked, UNCHANGED <<acked, wanted, delWanted, snapDel, snapAcked, delete>>,
           \A w \in Vol : create'[w] # "idle" => create[w] # "idle"
    PROVE  Asked'
  BY Zenon DEF Asked

\* A step that changes none of the variables a conjunct is about preserves it.
LEMMA Frames ==
    /\ TypeCluster /\ UNCHANGED cluster => TypeCluster'
    /\ TypePlugin /\ UNCHANGED <<memory, handlers>> => TypePlugin'
    /\ TypeCalls /\ UNCHANGED <<volCalls, snapCalls, budget>> => TypeCalls'
    /\ Asked /\ UNCHANGED <<acked, wanted, delWanted, snapDel, snapAcked,
                            create, delete>>
         => Asked'
    /\ CreateProgress /\ UNCHANGED <<create, images, size, snaps>>
         => CreateProgress'
    /\ DeleteProgress /\ UNCHANGED delete => DeleteProgress'
    /\ Content /\ UNCHANGED <<images, size, root, acked>> => Content'
    /\ SnapsOnImages /\ UNCHANGED <<snaps, images, acked>>
         => SnapsOnImages'
    /\ SnapHandlers /\ UNCHANGED <<snapshot, snapTaken, unsnap, acked,
                                   snapAcked, snaps, snapDel>>
         => SnapHandlers'
    /\ Owed /\ UNCHANGED <<acked, snaps, delWanted, images, size, cap>>
         => Owed'
    /\ AdminImages /\ UNCHANGED <<images, static>> => AdminImages'
    /\ AckedSnapshotLive /\ UNCHANGED <<snapAcked, snapDel, snaps, images>>
         => AckedSnapshotLive'
<1>1. TypeCluster /\ UNCHANGED cluster => TypeCluster'
  BY Zenon DEF TypeCluster, cluster
<1>2. TypePlugin /\ UNCHANGED <<memory, handlers>> => TypePlugin'
  BY Zenon DEF TypePlugin, memory, handlers, snapHandlers
<1>3. TypeCalls /\ UNCHANGED <<volCalls, snapCalls, budget>> => TypeCalls'
  BY Zenon DEF TypeCalls, volCalls, snapCalls, budget
<1>4. Asked /\ UNCHANGED <<acked, wanted, delWanted, snapDel, snapAcked,
                           create, delete>>
         => Asked'
  BY Zenon DEF Asked
<1>5. CreateProgress /\ UNCHANGED <<create, images, size, snaps>>
         => CreateProgress'
  BY Zenon DEF CreateProgress, CreateHandler
<1>6. DeleteProgress /\ UNCHANGED delete => DeleteProgress'
  BY Zenon DEF DeleteProgress
<1>7. Content /\ UNCHANGED <<images, size, root, acked>> => Content'
  BY Zenon DEF Content
<1>8. SnapsOnImages /\ UNCHANGED <<snaps, images, acked>>
         => SnapsOnImages'
  BY Zenon DEF SnapsOnImages
<1>9. SnapHandlers /\ UNCHANGED <<snapshot, snapTaken, unsnap, acked,
                                  snapAcked, snaps, snapDel>>
         => SnapHandlers'
  BY Zenon DEF SnapHandlers, SnapHandler
<1>10. Owed /\ UNCHANGED <<acked, snaps, delWanted, images, size, cap>>
         => Owed'
  BY Zenon DEF Owed, OwedTo
<1>11. AdminImages /\ UNCHANGED <<images, static>> => AdminImages'
  BY Zenon DEF AdminImages
<1>12. AckedSnapshotLive /\ UNCHANGED <<snapAcked, snapDel, snaps, images>>
         => AckedSnapshotLive'
  BY Zenon DEF AckedSnapshotLive
<1>13. QED
  BY Zenon, <1>1, <1>2, <1>3, <1>4, <1>5, <1>6, <1>7, <1>8, <1>9, <1>10, <1>11,
     <1>12

\* The initial states satisfy the inductive invariant.
LEMMA Start == Init => IInv
<1> SUFFICES ASSUME Init PROVE IInv
  OBVIOUS
<1>1. Static \subseteq Vol
  BY Zenon, Requests
<1>2. TypeOK
  <2>1. TypeCluster
    BY Zenon, <1>1, Requests DEF Init, TypeCluster
  <2>2. TypePlugin
    BY Zenon DEF Init, TypePlugin, CreatePc
  <2>3. TypeCalls
    BY <1>1, Requests DEF Init, TypeCalls
  <2>4. QED
    BY Zenon, <2>1, <2>2, <2>3 DEF TypeOK
<1>3. Asked /\ CreateProgress /\ DeleteProgress
  BY Zenon, <1>1 DEF Init, Asked, CreateProgress, CreateHandler, DeleteProgress
<1>4. Content
  BY <1>1, Requests DEF Init, Content, IsClone
<1>5. SnapsOnImages /\ SnapHandlers /\ AdminImages /\ AckedSnapshotLive
  BY Zenon DEF Init, SnapsOnImages, SnapHandlers, SnapHandler, AdminImages,
     AckedSnapshotLive
<1>6. Owed
  BY <1>1, Requests DEF Init, Owed, OwedTo
<1>7. QED
  BY Zenon, <1>2, <1>3, <1>4, <1>5, <1>6 DEF IInv

\* The steps of CreateVolume up to the image preserve the invariant.
LEMMA CreateStarts ==
    ASSUME IInv, NEW v \in Vol,
           \/ CreateCall(v) \/ CreateInfo(v)
           \/ (\E r \in BOOLEAN : CreateHit(v, r)) \/ ProvisionTmpSnap(v)
           \/ ProvisionPlain(v) \/ ProvisionClone(v)
    PROVE  IInv'
<1>0. TypeOK /\ TypeCluster /\ TypePlugin /\ TypeCalls /\ Asked
        /\ CreateProgress /\ DeleteProgress /\ Content /\ SnapsOnImages
        /\ SnapHandlers /\ Owed /\ AdminImages /\ AckedSnapshotLive
  BY Zenon DEF IInv, TypeOK
<1> USE <1>0
<1>1. CASE CreateCall(v)
  <2>1. UNCHANGED <<images, size, parent, root, stamp, static, snaps,
                     flatten, snapIndex, acked, cap, delWanted, gone, 
                     snapAcked, snapDel, snapGone, delete, snapshot,
                     snapTaken, unsnap, faults, restarts>>
    BY Zenon, <1>1 DEF CreateCall, cluster, memory, snapCalls, budget,
       snapHandlers
  <2>2. TypeCluster' /\ DeleteProgress' /\ Content' /\ SnapsOnImages'
        /\ SnapHandlers' /\ Owed' /\ AdminImages' /\ AckedSnapshotLive'
    BY Zenon, <2>1, Frames DEF cluster
  <2>3. TypePlugin'
    BY Zenon, <1>1, <2>1 DEF TypePlugin, CreatePc, CreateCall, Goto
  <2>4. TypeCalls'
    BY Zenon, <1>1, <2>1, Basics DEF TypeCalls, CreateCall
  <2>5. Asked'
    <3>1. /\ create'[v] = "info" /\ wanted' = wanted \cup {v} /\ v \notin acked
          /\ ViaTmp(v) => SrcVol[v] \in acked
          /\ \A w \in Vol : w # v => create'[w] = create[w]
      BY Zenon, <1>1, GotoType DEF CreateCall, CreatePc
    <3>2. QED
      BY Zenon, <2>1, <3>1 DEF Asked
  <2>6. CreateProgress'
    BY Zenon, <1>1, <2>1 DEF CreateProgress, CreateHandler, TypePlugin,
       CreateCall, Goto
  <2>7. QED
    BY Zenon, <2>2, <2>3, <2>4, <2>5, <2>6 DEF IInv, TypeOK
<1>2. CASE CreateInfo(v)
  <2>1. UNCHANGED <<images, size, parent, root, stamp, static, snaps,
                     flatten, snapIndex, wanted, acked, cap, delWanted, gone,
                     snapAcked, snapDel, snapGone, delete, snapshot,
                     snapTaken, unsnap, faults, restarts>>
    BY Zenon, <1>2 DEF CreateInfo, cluster, memory, volCalls, snapCalls,
       budget, snapHandlers
  <2>2. TypeCluster' /\ TypeCalls' /\ DeleteProgress' /\ Content'
        /\ SnapsOnImages' /\ SnapHandlers' /\ Owed' /\ AdminImages'
        /\ AckedSnapshotLive'
    BY Zenon, <2>1, Frames DEF cluster, volCalls, snapCalls, budget
  <2>3. TypePlugin'
    BY Zenon, <1>2, <2>1 DEF TypePlugin, CreatePc, CreateInfo, Goto
  <2>4. Asked'
    BY Zenon, <1>2, <2>1 DEF Asked, TypePlugin, CreateInfo, Goto
  <2>5. CreateProgress'
    BY Zenon, <1>2, <2>1 DEF CreateProgress, CreateHandler, TypePlugin,
       CreateInfo, Goto
  <2>6. QED
    BY Zenon, <2>2, <2>3, <2>4, <2>5 DEF IInv, TypeOK
<1>3. ASSUME NEW r \in BOOLEAN, CreateHit(v, r) PROVE IInv'
  <2>1. UNCHANGED <<images, size, parent, root, stamp, static, snaps,
                     flatten, snapIndex, wanted, acked, cap, delWanted, gone,
                     snapAcked, snapDel, snapGone, delete, snapshot,
                     snapTaken, unsnap, restarts>>
    BY Zenon, <1>3 DEF CreateHit, cluster, memory, snapCalls, snapHandlers
  <2>2. TypeCluster' /\ DeleteProgress' /\ Content' /\ SnapsOnImages'
        /\ SnapHandlers' /\ Owed' /\ AdminImages' /\ AckedSnapshotLive'
    BY Zenon, <2>1, Frames DEF cluster
  <2>3. TypePlugin'
    BY Zenon, <1>3, <2>1 DEF TypePlugin, CreatePc, CreateHit, Goto
  <2>4. TypeCalls'
    <3>1. faults' \in 0..MaxFaults /\ restarts' \in 0..faults'
      <4>1. CASE r
        BY Zenon, <1>3, <2>1, <4>1, OneMore DEF CreateHit
      <4>2. CASE ~r
        BY Zenon, <1>3, <2>1, <4>2 DEF TypeCalls, CreateHit
      <4>3. QED
        BY Zenon, <4>1, <4>2
    <3>2. QED
      BY Zenon, <2>1, <3>1 DEF TypeCalls
  <2>5. Asked'
    BY Zenon, <1>3, <2>1 DEF Asked, TypePlugin, CreateHit, Goto
  <2>6. CreateProgress'
    <3> SUFFICES ASSUME NEW w \in Vol PROVE CreateHandler(w)'
      BY Zenon DEF CreateProgress
    <3>1. CreateHandler(w)
      BY Zenon DEF CreateProgress
    <3>2. CASE w = v
      <4>1. v \in images /\ size[v] \in Nat /\ ReqSize[v] \in Nat
        BY Zenon, <1>3, <3>1, <3>2, Basics DEF CreateHandler, CreateHit
      <4>2. /\ create'[v] \in {"idle", "resize", "tail"}
            /\ create'[v] = "tail" => ~(size[v] < ReqSize[v])
        BY Zenon, <1>3 DEF CreateHit, Goto, TypePlugin
      <4>3. QED
        BY Zenon, <2>1, <3>2, <4>1, <4>2, Arithmetic DEF CreateHandler
    <3>3. CASE w # v
      BY Zenon, <1>3, <2>1, <3>1, <3>3, Basics DEF CreateHandler, CreateHit,
         TypePlugin, TypeCluster, Goto
    <3>4. QED
      BY Zenon, <3>2, <3>3
  <2>7. QED
    BY Zenon, <2>2, <2>3, <2>4, <2>5, <2>6 DEF IInv, TypeOK
<1>4. CASE ProvisionTmpSnap(v)
  <2>1. UNCHANGED <<images, size, parent, root, stamp, static, flatten,
                     snapIndex, wanted, acked, cap, delWanted, gone, 
                     snapAcked, snapDel, snapGone, delete, snapshot,
                     snapTaken, unsnap, faults, restarts>>
    BY Zenon, <1>4 DEF ProvisionTmpSnap, memory, volCalls, snapCalls, budget,
       snapHandlers
  <2>2. TypeCalls' /\ DeleteProgress' /\ Content' /\ AdminImages'
    BY Zenon, <2>1, Frames DEF volCalls, snapCalls, budget
  <2>3. TypeCluster'
    <3>1. IsClone(v)
      BY Zenon, <1>4, <2>1 DEF CreateProgress, CreateHandler, ViaTmp,
         ProvisionTmpSnap
    <3>2. SourceSnap(v) \in Vol \X (Snap \cup Vol)
      BY Zenon, <3>1, SourceSnapType
    <3>3. QED
      <4>1. snaps' \subseteq snaps \cup {SourceSnap(v)}
        BY Zenon, <1>4 DEF ProvisionTmpSnap
      <4>2. QED
        BY Zenon, <2>1, <3>2, <4>1 DEF TypeCluster
  <2>0. /\ create' \in [Vol -> CreatePc] /\ create'[v] \in {"provision", "idle"}
        /\ create[v] = "tmpsnap"
        /\ \A w \in Vol : w # v => create'[w] = create[w]
    BY Zenon, <1>4, GotoType DEF ProvisionTmpSnap, CreatePc
  <2>4. TypePlugin'
    BY Zenon, <2>0, <2>1 DEF TypePlugin
  <2>5. Asked'
    <3>1. \A w \in Vol : create'[w] # "idle" => create[w] # "idle"
      BY Zenon, <2>0
    <3>2. QED
      BY Zenon, <2>1, <3>1, AskedKept
  <2>6. CreateProgress'
    <3> SUFFICES ASSUME NEW w \in Vol PROVE CreateHandler(w)'
      BY Zenon DEF CreateProgress
    <3>1. CreateHandler(w) /\ CreateHandler(v)
      BY Zenon DEF CreateProgress
    <3>2. CASE w = v
      BY Zenon, <2>0, <2>1, <3>1, <3>2 DEF CreateHandler
    <3>3. CASE w # v
      <4>1. ViaTmp(v) /\ IsClone(v)
        BY Zenon, <2>0, <3>1 DEF CreateHandler, ViaTmp
      <4>2. ViaTmp(w) => SourceSnap(w) # SourceSnap(v)
        BY Zenon, <3>3, <4>1, SourceSnapType
      <4>3. ViaTmp(w) /\ SourceSnap(w) \notin snaps => SourceSnap(w) \notin snaps'
        <5>1. snaps' = snaps \/ snaps' = snaps \cup {SourceSnap(v)}
          BY Zenon, <1>4 DEF ProvisionTmpSnap
        <5>2. QED
          BY Zenon, <4>2, <5>1
      <4>4. QED
        BY Zenon, <2>0, <2>1, <3>1, <3>3, <4>3 DEF CreateHandler
    <3>4. QED
      BY Zenon, <3>2, <3>3
  <2>7. SnapsOnImages'
    <3>1. ViaTmp(v) /\ IsClone(v)
      BY Zenon, <1>4, <2>1 DEF CreateProgress, CreateHandler, ViaTmp,
         ProvisionTmpSnap
    <3>2. SourceSnap(v)[1] = SrcVol[v]
      BY Zenon, <3>1, SourceSnapType
    <3>3. SrcVol[v] \in acked
      BY Zenon, <1>4, <2>1, <3>1 DEF Asked, ProvisionTmpSnap
    <3>4. QED
      BY Zenon, <1>4, <2>1, <3>2, <3>3 DEF SnapsOnImages, ProvisionTmpSnap
  <2>8. SnapHandlers'
    <3>1. snaps \subseteq snaps'
      BY Zenon, <1>4 DEF ProvisionTmpSnap
    <3>2. QED
      BY Zenon, <2>1, <3>1 DEF SnapHandlers, SnapHandler
  <2>9. Owed'
    <3>1. ViaTmp(v) /\ IsClone(v) /\ v \notin acked
      BY Zenon, <1>4, <2>1 DEF CreateProgress, CreateHandler, Asked, ViaTmp,
         ProvisionTmpSnap
    <3>2. \A w \in acked : ViaTmp(w) => SourceSnap(w) # SourceSnap(v)
      BY Zenon, <3>1, SourceSnapType DEF TypeCalls, ViaTmp
    <3>3. \A w \in acked : ViaTmp(w) => SourceSnap(w) \notin snaps'
      BY Zenon, <1>4, <2>1, <3>2 DEF Owed, OwedTo, ProvisionTmpSnap
    <3>4. UNCHANGED <<acked, cap, size, images, delWanted>>
      BY Zenon, <1>4, <2>1 DEF ProvisionTmpSnap
    <3>5. QED
      BY Zenon, <3>3, <3>4 DEF Owed, OwedTo
  <2>10. AckedSnapshotLive'
    BY Zenon, <1>4, <2>1, SourceSnapType DEF AckedSnapshotLive,
       ProvisionTmpSnap
  <2>11. QED
    BY Zenon, <2>2, <2>3, <2>4, <2>5, <2>6, <2>7, <2>8, <2>9, <2>10 DEF IInv,
       TypeOK
<1>5. CASE ProvisionPlain(v)
  <2>1. UNCHANGED <<parent, stamp, static, snaps, flatten, snapIndex, wanted,
                     acked, cap, delWanted, gone, snapAcked, snapDel,
                     snapGone, delete, snapshot, snapTaken, unsnap, faults,
                     restarts>>
    BY Zenon, <1>5 DEF ProvisionPlain, RbdCreate, cluster, memory, volCalls,
       snapCalls, budget, snapHandlers
  <2>2. TypeCalls' /\ DeleteProgress' /\ SnapHandlers'
    BY Zenon, <2>1, Frames DEF volCalls, snapCalls, budget
  <2>3. /\ v \notin images /\ images' = images \cup {v} /\ ~IsClone(v)
        /\ size' = [size EXCEPT ![v] = ReqSize[v]]
        /\ root' = [root EXCEPT ![v] = v] /\ v \notin acked
    BY Zenon, <1>5 DEF CreateProgress, CreateHandler, Asked, ProvisionPlain, RbdCreate
  <2>4. /\ create' \in [Vol -> CreatePc] /\ create'[v] = "tail"
        /\ create[v] = "provision"
        /\ \A w \in Vol : w # v => create'[w] = create[w]
    BY Zenon, <1>5, GotoType DEF ProvisionPlain, CreatePc
  <2>5. ReqSize[v] \in Nat /\ ReqSize[v] > 0 /\ v # None
    BY Zenon, Basics
  <2>6. /\ size'[v] = ReqSize[v] /\ root'[v] = v
        /\ \A w \in Vol : w # v => size'[w] = size[w] /\ root'[w] = root[w]
    BY Zenon, <2>3 DEF TypeCluster
  <2>7. TypeCluster' /\ TypePlugin'
    <3>1. TypeCluster'
      BY Zenon, <2>1, <2>3, <2>5 DEF TypeCluster
    <3>2. TypePlugin'
      BY Zenon, <2>1, <2>4 DEF TypePlugin
    <3>3. QED
      BY Zenon, <3>1, <3>2
  <2>8. Asked'
    <3>1. \A w \in Vol : create'[w] # "idle" => create[w] # "idle"
      BY Zenon, <2>4
    <3>2. QED
      BY Zenon, <2>1, <3>1, AskedKept
  <2>9. CreateProgress'
    <3> SUFFICES ASSUME NEW w \in Vol PROVE CreateHandler(w)'
      BY Zenon DEF CreateProgress
    <3>1. CreateHandler(w)
      BY Zenon DEF CreateProgress
    <3>2. CASE w = v
      BY Zenon, <2>3, <2>4, <2>5, <2>6, <3>2, Arithmetic DEF CreateHandler
    <3>3. CASE w # v
      BY Zenon, <2>1, <2>3, <2>4, <2>6, <3>1, <3>3 DEF CreateHandler
    <3>4. QED
      BY Zenon, <3>2, <3>3
  <2>10. Content'
    <3> SUFFICES ASSUME NEW w \in images'
                 PROVE  /\ size'[w] > 0 /\ root'[w] # None
                        /\ IsClone(w) => /\ SrcVol[w] \in acked
                                         /\ SrcVol[w] \in images' => root'[w] = root'[SrcVol[w]]
      BY Zenon, <2>1 DEF Content, IsClone
    <3>1. CASE w = v
      BY Zenon, <2>3, <2>5, <2>6, <3>1
    <3>2. CASE w # v
      <4>1. w \in images /\ w \in Vol
        BY Zenon, <2>3, <3>2 DEF TypeCluster
      <4>2. IsClone(w) => SrcVol[w] \in acked /\ SrcVol[w] \in Vol /\ SrcVol[w] # v
        BY Zenon, <2>3, <4>1 DEF Content, TypeCalls
      <4>3. QED
        BY Zenon, <2>3, <2>6, <3>2, <4>1, <4>2 DEF Content
    <3>3. QED
      BY Zenon, <3>1, <3>2
  <2>11. SnapsOnImages' /\ AdminImages' /\ AckedSnapshotLive'
    BY Zenon, <2>1, <2>3 DEF SnapsOnImages, AdminImages, AckedSnapshotLive
  <2>13. Owed'
    <3> SUFFICES ASSUME NEW w \in acked PROVE OwedTo(w)'
      BY Zenon, <2>1 DEF Owed
    <3>1. OwedTo(w) /\ w \in Vol /\ w # v
      BY Zenon, <2>3 DEF Owed, TypeCalls
    <3>2. QED
      BY Zenon, <2>1, <2>3, <2>6, <3>1 DEF OwedTo
  <2>12. QED
    BY Zenon, <2>2, <2>7, <2>8, <2>9, <2>10, <2>11, <2>13 DEF IInv, TypeOK
<1>6. CASE ProvisionClone(v)
  <2>1. UNCHANGED <<snaps, flatten, snapIndex, wanted, acked, cap, delWanted,
                     gone, snapAcked, snapDel, snapGone, delete,
                     snapshot, snapTaken, unsnap, faults, restarts>>
    BY Zenon, <1>6 DEF ProvisionClone, RbdClone, cluster, memory, volCalls,
       snapCalls, budget, snapHandlers
  <2>2. TypeCalls' /\ DeleteProgress' /\ SnapHandlers'
    BY Zenon, <2>1, Frames DEF volCalls, snapCalls, budget
  <2>3. /\ v \notin images /\ v \notin acked /\ IsClone(v) /\ create[v] = "provision"
        /\ \/ UNCHANGED cluster /\ Goto(v, "idle")
           \/ RbdClone(v, SrcVol[v]) /\ Goto(v, "stamp") /\ SourceSnap(v) \in snaps
    BY Zenon, <1>6 DEF CreateProgress, CreateHandler, Asked, ProvisionClone
  <2>4. /\ create' \in [Vol -> CreatePc] /\ create'[v] \in {"idle", "stamp"}
        /\ create'[v] = "stamp" => v \in images'
        /\ \A w \in Vol : w # v => create'[w] = create[w]
    <3>1. CASE Goto(v, "idle")
      BY Zenon, <3>1, GotoType DEF CreatePc
    <3>2. CASE RbdClone(v, SrcVol[v]) /\ Goto(v, "stamp")
      BY Zenon, <3>2, GotoType DEF CreatePc, RbdClone
    <3>3. QED
      BY Zenon, <2>3, <3>1, <3>2
  <2>5. TypePlugin'
    BY Zenon, <2>1, <2>4 DEF TypePlugin
  <2>6. Asked'
    <3>1. \A w \in Vol : create'[w] # "idle" => create[w] # "idle"
      BY Zenon, <2>3, <2>4
    <3>2. QED
      BY Zenon, <2>1, <3>1, AskedKept
  <2>7. CASE UNCHANGED cluster
    <3>1. TypeCluster' /\ Content' /\ SnapsOnImages' /\ Owed' /\ AdminImages'
            /\ AckedSnapshotLive'
      BY Zenon, <2>1, <2>7, Frames DEF cluster
    <3>2. UNCHANGED <<images, size, snaps>>
      BY Zenon, <2>7 DEF cluster
    <3>3. CreateProgress'
      BY Zenon, <2>4, <3>2 DEF CreateProgress, CreateHandler
    <3>4. QED
      BY Zenon, <2>2, <2>5, <2>6, <3>1, <3>3 DEF IInv, TypeOK
  <2>8. CASE RbdClone(v, SrcVol[v]) /\ SourceSnap(v) \in snaps
    <3>1. SrcVol[v] \in Vol /\ SrcVol[v] \in images /\ SrcVol[v] \in acked
      BY Zenon, <2>3, <2>8, SourceSnapType DEF SnapsOnImages
    <3>2. PICK n \in 1..size[SrcVol[v]] : size' = [size EXCEPT ![v] = n]
      BY Zenon, <2>8 DEF RbdClone
    <3>3. n \in Nat /\ n > 0
      BY Zenon, <3>1, Basics, Arithmetic
    <3>4. /\ images' = images \cup {v} /\ root' = [root EXCEPT ![v] = root[SrcVol[v]]]
          /\ parent' = [parent EXCEPT ![v] = SrcVol[v]]
          /\ stamp' = [stamp EXCEPT ![v] = stamp[SrcVol[v]]]
          /\ static \subseteq static' /\ static' \subseteq static \cup {v}
      BY Zenon, <2>8 DEF RbdClone
    <3>5. /\ size'[v] = n /\ root'[v] = root[SrcVol[v]]
          /\ \A w \in Vol : w # v => size'[w] = size[w] /\ root'[w] = root[w]
      BY Zenon, <3>2, <3>4 DEF TypeCluster
    <3>6. TypeCluster'
      <4>1. /\ root[SrcVol[v]] \in Vol \cup {None}
            /\ stamp[SrcVol[v]] \in {None} \cup (Vol \X (Snap \cup {None}))
        BY Zenon, <3>1 DEF TypeCluster
      <4>2. QED
        BY Zenon, <2>1, <3>1, <3>2, <3>3, <3>4, <4>1 DEF TypeCluster
    <3>7. CreateProgress'
      <4> SUFFICES ASSUME NEW w \in Vol PROVE CreateHandler(w)'
        BY Zenon DEF CreateProgress
      <4>1. CreateHandler(w)
        BY Zenon DEF CreateProgress
      <4>2. CASE w = v
        BY Zenon, <2>4, <4>2 DEF CreateHandler
      <4>3. CASE w # v
        BY Zenon, <2>1, <2>4, <3>4, <3>5, <4>1, <4>3 DEF CreateHandler
      <4>4. QED
        BY Zenon, <4>2, <4>3
    <3>8. Content'
      <4> SUFFICES ASSUME NEW w \in images'
                   PROVE  /\ size'[w] > 0 /\ root'[w] # None
                          /\ IsClone(w) => /\ SrcVol[w] \in acked
                                           /\ SrcVol[w] \in images' => root'[w] = root'[SrcVol[w]]
        BY Zenon, <2>1 DEF Content, IsClone
      <4>1. CASE w = v
        BY Zenon, <2>3, <3>1, <3>3, <3>5, <4>1 DEF Content
      <4>2. CASE w # v
        <5>1. w \in images /\ w \in Vol
          BY Zenon, <3>4, <4>2 DEF TypeCluster
        <5>2. IsClone(w) => SrcVol[w] \in acked /\ SrcVol[w] \in Vol /\ SrcVol[w] # v
          BY Zenon, <2>3, <5>1 DEF Content, TypeCalls
        <5>3. QED
          BY Zenon, <3>4, <3>5, <4>2, <5>1, <5>2 DEF Content
      <4>3. QED
        BY Zenon, <4>1, <4>2
    <3>9. SnapsOnImages' /\ AdminImages' /\ AckedSnapshotLive'
      BY Zenon, <2>1, <3>4 DEF SnapsOnImages, AdminImages, AckedSnapshotLive
    <3>10. Owed'
      <4> SUFFICES ASSUME NEW w \in acked PROVE OwedTo(w)'
        BY Zenon, <2>1 DEF Owed
      <4>1. OwedTo(w) /\ w \in Vol /\ w # v
        BY Zenon, <2>3 DEF Owed, TypeCalls
      <4>2. QED
        BY Zenon, <2>1, <3>4, <3>5, <4>1 DEF OwedTo
    <3>11. QED
      BY Zenon, <2>2, <2>5, <2>6, <3>6, <3>7, <3>8, <3>9, <3>10 DEF IInv, TypeOK
  <2>9. QED
    BY Zenon, <2>3, <2>7, <2>8
<1>7. QED
  BY Zenon, <1>1, <1>2, <1>3, <1>4, <1>5, <1>6

-----------------------------------------------------------------------------
\* The steps of CreateVolume that follow the image preserve the invariant.
LEMMA CreateFinishes ==
    ASSUME IInv, NEW v \in Vol,
           \/ ProvisionStamp(v) \/ CreateSize(v) \/ CreateResize(v)
           \/ CreateTail(v) \/ CreateRespond(v)
    PROVE  IInv'
<1>0. TypeOK /\ TypeCluster /\ TypePlugin /\ TypeCalls /\ Asked
        /\ CreateProgress /\ DeleteProgress /\ Content /\ SnapsOnImages
        /\ SnapHandlers /\ Owed /\ AdminImages /\ AckedSnapshotLive
  BY Zenon DEF IInv, TypeOK
<1> USE <1>0
<1>1. CASE ProvisionStamp(v)
  <2>1. UNCHANGED <<images, size, parent, root, static, snaps, snapIndex,
                     wanted, acked, cap, delWanted, gone, snapAcked,
                     snapDel, snapGone, delete, snapshot, snapTaken, unsnap,
                     faults, restarts>>
    BY Zenon, <1>1 DEF ProvisionStamp, volCalls, snapCalls, budget,
       snapHandlers
  <2>2. TypeCalls' /\ DeleteProgress' /\ Content' /\ SnapsOnImages'
        /\ SnapHandlers' /\ Owed' /\ AdminImages' /\ AckedSnapshotLive'
    BY Zenon, <2>1, Frames DEF volCalls, snapCalls, budget
  <2>3. TypeCluster'
    <3>1. SourceDesc(v) \in {None} \cup (Vol \X (Snap \cup {None}))
      BY Requests, Zenon DEF SourceDesc, IsClone
    <3>2. QED
      BY Zenon, <1>1, <2>1, <3>1 DEF TypeCluster, ProvisionStamp
  <2>4. TypePlugin'
    BY Zenon, <1>1, <2>1 DEF TypePlugin, CreatePc, ProvisionStamp, Goto
  <2>5. Asked'
    BY <1>1, <2>1, Zenon DEF Asked, TypePlugin, ProvisionStamp, Goto
  <2>6. CreateProgress'
    BY Zenon, <1>1, <2>1 DEF CreateProgress, CreateHandler, TypePlugin,
       ProvisionStamp, Goto
  <2>7. QED
    BY Zenon, <2>2, <2>3, <2>4, <2>5, <2>6 DEF IInv, TypeOK
<1>2. CASE CreateSize(v)
  <2>1. UNCHANGED <<images, size, parent, root, stamp, static, snaps,
                     flatten, snapIndex, wanted, acked, cap, delWanted, gone,
                     snapAcked, snapDel, snapGone, delete, snapshot,
                     snapTaken, unsnap, faults, restarts>>
    BY Zenon, <1>2 DEF CreateSize, cluster, memory, volCalls, snapCalls,
       budget, snapHandlers
  <2>2. TypeCluster' /\ TypeCalls' /\ DeleteProgress' /\ Content'
        /\ SnapsOnImages' /\ SnapHandlers' /\ Owed' /\ AdminImages'
        /\ AckedSnapshotLive'
    BY Zenon, <2>1, Frames DEF cluster, volCalls, snapCalls, budget
  <2>3. TypePlugin'
    BY Zenon, <1>2, <2>1 DEF TypePlugin, CreatePc, CreateSize, Goto
  <2>4. Asked'
    BY <1>2, <2>1, Zenon DEF Asked, TypePlugin, CreateSize, Goto
  <2>5. CreateProgress'
    <3> SUFFICES ASSUME NEW w \in Vol PROVE CreateHandler(w)'
      BY Zenon DEF CreateProgress
    <3>1. CreateHandler(w)
      BY Zenon DEF CreateProgress
    <3>2. CASE w = v
      <4>1. v \in images /\ size[v] \in Nat /\ ReqSize[v] \in Nat
        BY Zenon, <1>2, <3>1, <3>2, Basics DEF CreateHandler, CreateSize
      <4>2. /\ create'[v] \in {"resize", "tail"}
            /\ create'[v] = "tail" => ~(size[v] < ReqSize[v])
        BY Zenon, <1>2 DEF CreateSize, Goto, TypePlugin
      <4>3. QED
        BY Zenon, <2>1, <3>2, <4>1, <4>2, Arithmetic DEF CreateHandler
    <3>3. CASE w # v
      BY Zenon, <1>2, <2>1, <3>1, <3>3, Basics DEF CreateHandler, CreateSize,
         TypePlugin, TypeCluster, Goto
    <3>4. QED
      BY Zenon, <3>2, <3>3
  <2>6. QED
    BY Zenon, <2>2, <2>3, <2>4, <2>5 DEF IInv, TypeOK
<1>3. CASE CreateResize(v)
  <2>1. UNCHANGED <<images, parent, root, stamp, static, snaps, flatten,
                     snapIndex, wanted, acked, cap, delWanted, gone, 
                     snapAcked, snapDel, snapGone, delete, snapshot,
                     snapTaken, unsnap, faults, restarts>>
    BY Zenon, <1>3 DEF CreateResize, memory, volCalls, snapCalls, budget,
       snapHandlers
  <2>2. TypeCalls' /\ DeleteProgress' /\ SnapsOnImages' /\ SnapHandlers'
        /\ AdminImages' /\ AckedSnapshotLive'
    BY Zenon, <2>1, Frames DEF volCalls, snapCalls, budget
  <2>3. TypeCluster'
    BY Zenon, <1>3, <2>1, Basics DEF TypeCluster, CreateResize
  <2>4. TypePlugin'
    BY Zenon, <1>3, <2>1 DEF TypePlugin, CreatePc, CreateResize, Goto
  <2>5. Asked'
    BY <1>3, <2>1, Zenon DEF Asked, TypePlugin, CreateResize, Goto
  <2>6. CreateProgress'
    <3> SUFFICES ASSUME NEW w \in Vol PROVE CreateHandler(w)'
      BY Zenon DEF CreateProgress
    <3>1. CreateHandler(w)
      BY Zenon DEF CreateProgress
    <3>2. CASE w = v
      <4>1. v \in images /\ ReqSize[v] \in Nat
        BY Zenon, <1>3, <3>1, <3>2, Basics DEF CreateHandler, CreateResize
      <4>2. create'[v] = "tail" /\ size'[v] = ReqSize[v]
        BY Zenon, <1>3 DEF CreateResize, Goto, TypePlugin, TypeCluster
      <4>3. QED
        BY Zenon, <2>1, <3>2, <4>1, <4>2, Arithmetic DEF CreateHandler
    <3>3. CASE w # v
      BY Zenon, <1>3, <2>1, <3>1, <3>3, Basics DEF CreateHandler, CreateResize,
         TypePlugin, TypeCluster, Goto
    <3>4. QED
      BY Zenon, <3>2, <3>3
  <2>7. Content'
    BY Zenon, <1>3, <2>1, Basics DEF TypeCluster, Content, CreateResize
  <2>8. Owed'
    <3> SUFFICES ASSUME NEW w \in acked PROVE OwedTo(w)'
      BY Zenon, <2>1 DEF Owed
    <3>1. OwedTo(w)
      BY Zenon DEF Owed
    <3>2. CASE w = v
      BY Zenon, <1>3, <2>1, <3>1, <3>2, Basics DEF OwedTo, CreateResize,
         TypeCluster, Asked
    <3>3. CASE w # v
      BY Zenon, <1>3, <2>1, <3>1, <3>3, Basics DEF OwedTo, CreateResize,
         TypeCluster, Asked
    <3>4. QED
      BY Zenon, <3>2, <3>3
  <2>9. QED
    BY Zenon, <2>2, <2>3, <2>4, <2>5, <2>6, <2>7, <2>8 DEF IInv, TypeOK
<1>4. CASE CreateTail(v)
  <2>1. UNCHANGED <<images, size, parent, root, stamp, static, snapIndex,
                     wanted, acked, cap, delWanted, gone, snapAcked,
                     snapDel, snapGone, delete, snapshot, snapTaken, unsnap,
                     faults, restarts>>
    BY Zenon, <1>4 DEF CreateTail, volCalls, snapCalls, budget, snapHandlers
  <2>2. TypeCalls' /\ DeleteProgress' /\ Content' /\ AdminImages'
    BY Zenon, <2>1, Frames DEF volCalls, snapCalls, budget
  <2>3. TypeCluster'
    BY Zenon, <1>4, <2>1, SourceSnapType DEF TypeCluster, CreateTail
  <2>0. /\ create' \in [Vol -> CreatePc] /\ create'[v] = "respond"
        /\ create[v] = "tail"
        /\ \A w \in Vol : w # v => create'[w] = create[w]
    BY Zenon, <1>4, GotoType DEF CreateTail, CreatePc
  <2>4. TypePlugin'
    <3>1. flatten' \in [Vol -> {"none", "gated", "plain"}]
      BY Zenon, <1>4 DEF CreateTail, TypePlugin
    <3>2. QED
      BY Zenon, <2>0, <2>1, <3>1 DEF TypePlugin
  <2>5. Asked'
    <3>1. \A w \in Vol : create'[w] # "idle" => create[w] # "idle"
      BY Zenon, <2>0
    <3>2. QED
      BY Zenon, <2>1, <3>1, AskedKept
  <2>6. CreateProgress'
    <3> SUFFICES ASSUME NEW w \in Vol PROVE CreateHandler(w)'
      BY Zenon DEF CreateProgress
    <3>1. CreateHandler(w)
      BY Zenon DEF CreateProgress
    <3>2. snaps' \subseteq snaps /\ (ViaTmp(v) => SourceSnap(v) \notin snaps')
      BY Zenon, <1>4 DEF CreateTail
    <3>3. CASE w = v
      BY Zenon, <2>0, <2>1, <3>1, <3>2, <3>3 DEF CreateHandler
    <3>4. CASE w # v
      BY Zenon, <2>0, <2>1, <3>1, <3>2, <3>4 DEF CreateHandler
    <3>5. QED
      BY Zenon, <3>3, <3>4
  <2>7. SnapsOnImages'
    BY Zenon, <1>4, <2>1, SourceSnapType DEF SnapsOnImages, CreateTail
  <2>8. SnapHandlers'
    <3>1. \A x \in Vol \X Snap : x \in snaps => x \in snaps'
      BY Zenon, <1>4, <2>1, SourceSnapType DEF CreateTail, ViaTmp
    <3> SUFFICES ASSUME NEW s \in Snap PROVE SnapHandler(s)'
      BY Zenon DEF SnapHandlers
    <3>2. SnapHandler(s)
      BY Zenon DEF SnapHandlers
    <3>3. s \in snapTaken => <<snapshot[s], s>> \in Vol \X Snap
      BY Zenon, <3>2 DEF SnapHandler, TypePlugin
    <3>4. QED
      BY Zenon, <2>1, <3>1, <3>2, <3>3 DEF SnapHandler
  <2>9. Owed'
    BY Zenon, <1>4, <2>1, SourceSnapType DEF Owed, OwedTo, CreateTail
  <2>10. AckedSnapshotLive'
    <3>1. \A x \in Vol \X Snap : x \in snaps => x \in snaps'
      BY Zenon, <1>4, <2>1, SourceSnapType DEF CreateTail, ViaTmp
    <3>2. QED
      BY Zenon, <2>1, <3>1 DEF AckedSnapshotLive, TypeCalls
  <2>11. QED
    BY Zenon, <2>2, <2>3, <2>4, <2>5, <2>6, <2>7, <2>8, <2>9, <2>10 DEF IInv,
       TypeOK
<1>5. CASE CreateRespond(v)
  <2>1. UNCHANGED <<images, size, parent, root, stamp, static, snaps,
                     flatten, snapIndex, wanted, delWanted, gone, 
                     snapAcked, snapDel, snapGone, delete, snapshot,
                     snapTaken, unsnap, faults, restarts>>
    BY Zenon, <1>5 DEF CreateRespond, cluster, memory, snapCalls, budget,
       snapHandlers
  <2>2. TypeCluster' /\ DeleteProgress' /\ AdminImages' /\ AckedSnapshotLive'
    BY Zenon, <2>1, Frames DEF cluster
  <2>3. TypePlugin'
    BY Zenon, <1>5, <2>1 DEF TypePlugin, CreatePc, CreateRespond, Goto
  <2>4. TypeCalls'
    BY Zenon, <1>5, <2>1, Basics DEF TypeCalls, TypeCluster, CreateRespond
  <2>5. Asked'
    <3>1. /\ create'[v] = "idle" /\ acked' = acked \cup {v} /\ create[v] = "respond"
          /\ \A w \in Vol : w # v => create'[w] = create[w]
      BY Zenon, <1>5, GotoType DEF CreateRespond, CreatePc
    <3>2. v \in wanted
      BY Zenon, <3>1 DEF Asked
    <3>3. QED
      BY Zenon, <2>1, <3>1, <3>2 DEF Asked
  <2>6. CreateProgress'
    BY Zenon, <1>5, <2>1 DEF CreateProgress, CreateHandler, TypePlugin,
       CreateRespond, Goto
  <2>7. Content'
    BY Zenon, <1>5, <2>1 DEF Content, TypeCluster, CreateRespond
  <2>8. SnapsOnImages'
    BY Zenon, <1>5, <2>1 DEF SnapsOnImages, CreateRespond
  <2>9. SnapHandlers'
    BY Zenon, <1>5, <2>1 DEF SnapHandlers, SnapHandler, TypePlugin,
       CreateRespond
  <2>10. Owed'
    <3> SUFFICES ASSUME NEW w \in acked' PROVE OwedTo(w)'
      BY Zenon DEF Owed
    <3>1. CASE w = v
      <4>1. CreateHandler(v)
        BY Zenon DEF CreateProgress
      <4>2. cap'[v] = size[v]
        BY Zenon, <1>5, <2>1 DEF TypeCalls, CreateRespond
      <4>3. QED
        BY Zenon, <1>5, <2>1, <3>1, <4>1, <4>2, Basics, Arithmetic
           DEF CreateHandler, OwedTo, CreateRespond
    <3>2. CASE w # v
      <4>1. OwedTo(w)
        BY Zenon, <1>5, <2>1, <3>2 DEF Owed, CreateRespond
      <4>2. QED
        BY Zenon, <1>5, <2>1, <3>2, <4>1 DEF TypeCalls, OwedTo, CreateRespond
    <3>3. QED
      BY Zenon, <3>1, <3>2
  <2>11. QED
    BY Zenon, <2>2, <2>3, <2>4, <2>5, <2>6, <2>7, <2>8, <2>9, <2>10 DEF IInv,
       TypeOK
<1>6. QED
  BY Zenon, <1>1, <1>2, <1>3, <1>4, <1>5

\* Flatten workers, ExpandVolume and DeleteVolume preserve the invariant.
LEMMA VolumeSteps ==
    ASSUME IInv, NEW v \in Vol,
           \/ FlattenRun(v) \/ FlattenFail(v) \/ Expand(v) \/ DeleteCall(v)
           \/ DeleteStatic(v) \/ DeleteRemove(v)
    PROVE  IInv'
<1>0. TypeOK /\ TypeCluster /\ TypePlugin /\ TypeCalls /\ Asked
        /\ CreateProgress /\ DeleteProgress /\ Content /\ SnapsOnImages
        /\ SnapHandlers /\ Owed /\ AdminImages /\ AckedSnapshotLive
  BY Zenon DEF IInv, TypeOK
<1> USE <1>0
<1>1. CASE FlattenRun(v)
  <2>1. UNCHANGED <<images, size, root, stamp, static, snaps, snapIndex,
                     wanted, acked, cap, delWanted, gone, snapAcked,
                     snapDel, snapGone, create, delete, snapshot, snapTaken,
                     unsnap, faults, restarts>>
    BY Zenon, <1>1 DEF FlattenRun, volCalls, snapCalls, handlers, budget,
       snapHandlers
  <2>2. TypeCalls' /\ Asked' /\ CreateProgress' /\ DeleteProgress' /\ Content'
        /\ SnapsOnImages' /\ SnapHandlers' /\ Owed' /\ AdminImages'
        /\ AckedSnapshotLive'
    BY Zenon, <2>1, Frames DEF volCalls, snapCalls, budget
  <2>3. TypeCluster'
    BY Zenon, <1>1, <2>1 DEF TypeCluster, FlattenRun
  <2>4. TypePlugin'
    BY Zenon, <1>1, <2>1 DEF TypePlugin, CreatePc, FlattenRun
  <2>5. QED
    BY Zenon, <2>2, <2>3, <2>4 DEF IInv, TypeOK
<1>2. CASE FlattenFail(v)
  <2>1. UNCHANGED <<images, size, parent, root, stamp, static, snaps,
                     snapIndex, wanted, acked, cap, delWanted, gone, 
                     snapAcked, snapDel, snapGone, create, delete, snapshot,
                     snapTaken, unsnap, restarts>>
    BY Zenon, <1>2 DEF FlattenFail, cluster, volCalls, snapCalls, handlers,
       snapHandlers
  <2>2. TypeCluster' /\ Asked' /\ CreateProgress' /\ DeleteProgress'
        /\ Content' /\ SnapsOnImages' /\ SnapHandlers' /\ Owed'
        /\ AdminImages' /\ AckedSnapshotLive'
    BY Zenon, <2>1, Frames DEF cluster
  <2>3. TypePlugin'
    BY Zenon, <1>2, <2>1 DEF TypePlugin, CreatePc, FlattenFail
  <2>4. TypeCalls'
    <3>1. faults' \in 0..MaxFaults /\ restarts' \in 0..faults'
      BY Zenon, <1>2, <2>1, OneMore DEF FlattenFail
    <3>2. QED
      BY Zenon, <2>1, <3>1 DEF TypeCalls
  <2>5. QED
    BY Zenon, <2>2, <2>3, <2>4 DEF IInv, TypeOK
<1>3. CASE Expand(v)
  <2>1. UNCHANGED <<images, parent, root, stamp, static, snaps, flatten,
                     snapIndex, wanted, acked, delWanted, gone, 
                     snapAcked, snapDel, snapGone, create, delete, snapshot,
                     snapTaken, unsnap, faults, restarts>>
    BY Zenon, <1>3 DEF Expand, memory, snapCalls, handlers, budget,
       snapHandlers
  <2>2. TypePlugin' /\ Asked' /\ DeleteProgress' /\ SnapsOnImages'
        /\ SnapHandlers' /\ AdminImages' /\ AckedSnapshotLive'
    BY Zenon, <2>1, Frames DEF memory, handlers, snapHandlers
  <2>3. PICK c : c = cap[v] + 1
    BY Zenon
  <2>4. /\ v \in acked /\ v \notin delWanted
        /\ size' = [size EXCEPT ![v] = c] /\ cap' = [cap EXCEPT ![v] = c]
    BY Zenon, <1>3, <2>3 DEF Expand
  <2>5. /\ size'[v] = c /\ cap'[v] = c
        /\ \A w \in Vol : w # v => size'[w] = size[w] /\ cap'[w] = cap[w]
    BY Zenon, <2>4 DEF TypeCluster, TypeCalls
  <2>6. c \in Nat /\ c > 0 /\ c >= c /\ c >= ReqSize[v]
    <3>1. cap[v] \in Nat /\ ReqSize[v] \in Nat /\ cap[v] >= ReqSize[v]
      BY Zenon, <2>4, Basics DEF Owed, OwedTo
    <3>2. QED
      BY Zenon, <2>3, <3>1, Arithmetic
  <2>7. TypeCluster' /\ TypeCalls'
    <3>1. TypeCluster'
      BY Zenon, <2>1, <2>4, <2>6 DEF TypeCluster
    <3>2. TypeCalls'
      BY Zenon, <2>1, <2>4, <2>6 DEF TypeCalls
    <3>3. QED
      BY Zenon, <3>1, <3>2
  <2>8. CreateProgress'
    <3> SUFFICES ASSUME NEW w \in Vol PROVE CreateHandler(w)'
      BY Zenon DEF CreateProgress
    <3>1. CreateHandler(w)
      BY Zenon DEF CreateProgress
    <3>2. CASE w = v
      BY Zenon, <2>1, <2>4, <3>2 DEF CreateHandler, Asked
    <3>3. CASE w # v
      BY Zenon, <2>1, <2>5, <3>1, <3>3 DEF CreateHandler
    <3>4. QED
      BY Zenon, <3>2, <3>3
  <2>9. Content'
    <3>1. \A w \in images : size'[w] > 0
      BY Zenon, <2>5, <2>6 DEF Content, TypeCluster
    <3>2. QED
      BY Zenon, <2>1, <3>1 DEF Content
  <2>10. Owed'
    <3> SUFFICES ASSUME NEW w \in acked PROVE OwedTo(w)'
      BY Zenon, <2>1 DEF Owed
    <3>1. OwedTo(w) /\ w \in Vol
      BY Zenon DEF Owed, TypeCalls
    <3>2. CASE w = v
      BY Zenon, <2>1, <2>5, <2>6, <3>1, <3>2 DEF OwedTo
    <3>3. CASE w # v
      BY Zenon, <2>1, <2>5, <3>1, <3>3 DEF OwedTo
    <3>4. QED
      BY Zenon, <3>2, <3>3
  <2>11. QED
    BY Zenon, <2>2, <2>7, <2>8, <2>9, <2>10 DEF IInv, TypeOK
<1>4. CASE DeleteCall(v)
  <2>1. UNCHANGED <<images, size, parent, root, stamp, static, snaps,
                     flatten, snapIndex, wanted, acked, cap, gone, 
                     snapAcked, snapDel, snapGone, create, snapshot,
                     snapTaken, unsnap, faults, restarts>>
    BY Zenon, <1>4 DEF DeleteCall, cluster, memory, snapCalls, budget,
       snapHandlers
  <2>2. TypeCluster' /\ CreateProgress' /\ Content' /\ SnapsOnImages'
        /\ SnapHandlers' /\ AdminImages' /\ AckedSnapshotLive'
    BY Zenon, <2>1, Frames DEF cluster
  <2>3. TypePlugin'
    BY Zenon, <1>4, <2>1 DEF TypePlugin, CreatePc, DeleteCall
  <2>4. TypeCalls'
    BY Zenon, <1>4, <2>1, Basics DEF TypeCalls, DeleteCall
  <2>5. Asked'
    <3>1. /\ v \in acked /\ delWanted' = delWanted \cup {v}
          /\ \A w \in Vol : w # v => delete'[w] = delete[w]
      BY Zenon, <1>4 DEF DeleteCall, TypePlugin
    <3>2. QED
      BY Zenon, <2>1, <3>1 DEF Asked
  <2>6. DeleteProgress'
    BY Zenon, <1>4, <2>1 DEF DeleteProgress, TypePlugin, DeleteCall
  <2>7. Owed'
    BY Zenon, <1>4, <2>1 DEF Owed, OwedTo, DeleteCall
  <2>8. QED
    BY Zenon, <2>2, <2>3, <2>4, <2>5, <2>6, <2>7 DEF IInv, TypeOK
<1>5. CASE DeleteStatic(v)
  <2>1. UNCHANGED <<images, size, parent, root, stamp, static, snaps,
                     flatten, snapIndex, wanted, acked, cap, delWanted,
                     snapAcked, snapDel, snapGone, create, snapshot,
                     snapTaken, unsnap, faults, restarts>>
    BY Zenon, <1>5 DEF DeleteStatic, cluster, memory, snapCalls, budget,
       snapHandlers
  <2>2. TypeCluster' /\ CreateProgress' /\ Content' /\ SnapsOnImages'
        /\ SnapHandlers' /\ Owed' /\ AdminImages' /\ AckedSnapshotLive'
    BY Zenon, <2>1, Frames DEF cluster
  <2>3. TypePlugin'
    BY Zenon, <1>5, <2>1 DEF TypePlugin, CreatePc, DeleteStatic
  <2>4. TypeCalls'
    BY Zenon, <1>5, <2>1, Basics DEF TypeCalls, DeleteStatic
  <2>5. Asked'
    <3>1. delete[v] = "static" /\ \A w \in Vol : w # v => delete'[w] = delete[w]
      BY Zenon, <1>5 DEF DeleteStatic, TypePlugin
    <3>2. \A w \in Vol : delete'[w] # "idle" => w \in delWanted
      BY Zenon, <3>1 DEF Asked
    <3>3. QED
      BY Zenon, <2>1, <3>2 DEF Asked
  <2>6. DeleteProgress'
    BY Zenon, <1>5, <2>1 DEF DeleteProgress, TypePlugin, AdminImages,
       DeleteStatic
  <2>7. QED
    BY Zenon, <2>2, <2>3, <2>4, <2>5, <2>6 DEF IInv, TypeOK
<1>6. CASE DeleteRemove(v)
  <2>1. UNCHANGED <<snaps, snapIndex, wanted, acked, cap, delWanted, 
                     snapAcked, snapDel, snapGone, create, snapshot,
                     snapTaken, unsnap, faults, restarts>>
    BY Zenon, <1>6 DEF DeleteRemove, RbdRemove, cluster, snapCalls, budget,
       snapHandlers
  <2>2. SnapHandlers'
    BY Zenon, <2>1, Frames
  <2>3. TypeCluster'
    <3>1. CASE UNCHANGED cluster
      BY Zenon, <3>1, Frames
    <3>2. CASE RbdRemove(v)
      BY Zenon, <3>2, Arithmetic DEF TypeCluster, RbdRemove
    <3>3. QED
      BY Zenon, <1>6, <3>1, <3>2 DEF DeleteRemove
  <2>4. TypePlugin'
    <3>1. delete' = [delete EXCEPT ![v] = "idle"]
            /\ (flatten' = flatten \/ FlattenChildren(v))
      BY Zenon, <1>6 DEF DeleteRemove
    <3>2. flatten' \in [Vol -> {"none", "gated", "plain"}]
      BY Zenon, <3>1 DEF TypePlugin, FlattenChildren
    <3>3. QED
      BY Zenon, <2>1, <3>1, <3>2 DEF TypePlugin
  <2>5. TypeCalls'
    BY Zenon, <1>6, <2>1, Basics DEF TypeCalls, DeleteRemove, RbdRemove,
       FlattenChildren, HasSnaps, cluster
  <2>6. Asked'
    <3>1. delete' = [delete EXCEPT ![v] = "idle"]
      BY Zenon, <1>6 DEF DeleteRemove
    <3>2. \A w \in Vol : delete'[w] # "idle" => delete[w] # "idle"
      BY Zenon, <3>1 DEF TypePlugin
    <3>3. QED
      BY Zenon, <2>1, <3>2 DEF Asked
  <2>7. CreateProgress'
    <3> SUFFICES ASSUME NEW w \in Vol PROVE CreateHandler(w)'
      BY Zenon DEF CreateProgress
    <3>1. CreateHandler(w)
      BY Zenon DEF CreateProgress
    <3>2. CASE w = v
      BY Zenon, <1>6, <2>1, <3>1, <3>2, Basics DEF CreateHandler, DeleteRemove,
         TypePlugin, TypeCluster, RbdRemove, FlattenChildren, Asked, cluster
    <3>3. CASE w # v
      <4>1. (w \in images' <=> w \in images) /\ size'[w] = size[w]
        <5>1. CASE UNCHANGED cluster
          BY Zenon, <5>1 DEF cluster
        <5>2. CASE RbdRemove(v)
          BY Zenon, <3>3, <5>2 DEF RbdRemove, TypeCluster
        <5>3. QED
          BY Zenon, <1>6, <5>1, <5>2 DEF DeleteRemove
      <4>2. QED
        BY Zenon, <2>1, <3>1, <4>1 DEF CreateHandler
    <3>4. QED
      BY Zenon, <3>2, <3>3
  <2>8. DeleteProgress'
    BY Zenon, <1>6, <2>1 DEF DeleteProgress, TypePlugin, DeleteRemove,
       RbdRemove, FlattenChildren, HasSnaps, cluster
  <2>9. Content'
    <3>1. CASE UNCHANGED cluster
      BY Zenon, <2>1, <3>1, Frames DEF cluster
    <3>2. CASE RbdRemove(v)
      <4>1. images' \subseteq images /\ v \notin images'
        BY Zenon, <3>2 DEF RbdRemove
      <4>2. \A w \in Vol : w # v => size'[w] = size[w] /\ root'[w] = root[w]
        BY Zenon, <3>2 DEF RbdRemove, TypeCluster
      <4>3. \A w \in images' : w \in images /\ size'[w] = size[w] /\ root'[w] = root[w]
        BY Zenon, <4>1, <4>2 DEF TypeCluster
      <4>4. QED
        BY Zenon, <2>1, <4>3 DEF Content, IsClone
    <3>3. QED
      BY Zenon, <1>6, <3>1, <3>2 DEF DeleteRemove
  <2>10. SnapsOnImages'
    BY Zenon, <1>6, <2>1 DEF SnapsOnImages, TypeCluster, DeleteRemove,
       RbdRemove, FlattenChildren, HasSnaps, cluster
  <2>11. Owed'
    <3> SUFFICES ASSUME NEW w \in acked PROVE OwedTo(w)'
      BY Zenon, <2>1 DEF Owed
    <3>1. OwedTo(w)
      BY Zenon DEF Owed
    <3>2. CASE w = v
      BY Zenon, <1>6, <2>1, <3>1, <3>2 DEF OwedTo, Asked, DeleteRemove
    <3>3. CASE w # v
      <4>1. w \in Vol /\ (w \in images' <=> w \in images) /\ size'[w] = size[w]
        BY Zenon, <1>6, <2>1, <3>3 DEF DeleteRemove, RbdRemove, TypeCluster,
           TypeCalls, cluster
      <4>2. QED
        BY Zenon, <2>1, <3>1, <4>1 DEF OwedTo
    <3>4. QED
      BY Zenon, <3>2, <3>3
  <2>12. AdminImages'
    BY Zenon, <1>6, <2>1 DEF AdminImages, DeleteProgress, TypeCluster,
       DeleteRemove, RbdRemove, FlattenChildren, HasSnaps, cluster
  <2>13. AckedSnapshotLive'
    BY Zenon, <1>6, <2>1 DEF AckedSnapshotLive, SnapsOnImages, DeleteRemove,
       RbdRemove, FlattenChildren, HasSnaps, cluster
  <2>14. QED
    BY Zenon, <2>2, <2>3, <2>4, <2>5, <2>6, <2>7, <2>8, <2>9, <2>10,
       <2>11, <2>12, <2>13 DEF IInv, TypeOK
<1>7. QED
  BY Zenon, <1>1, <1>2, <1>3, <1>4, <1>5, <1>6

-----------------------------------------------------------------------------
\* The snapshot calls and their interruption preserve the invariant.
LEMMA SnapshotSteps ==
    ASSUME IInv, NEW s \in Snap,
           \/ (\E v \in Vol : SnapshotCall(s, v)) \/ SnapshotCreate(s)
           \/ SnapshotRespond(s) \/ (\E v \in Vol : UnsnapCall(s, v))
           \/ UnsnapRemove(s) \/ InterruptSnapshot(s)
    PROVE  IInv'
<1>0. TypeOK /\ TypeCluster /\ TypePlugin /\ TypeCalls /\ Asked
        /\ CreateProgress /\ DeleteProgress /\ Content /\ SnapsOnImages
        /\ SnapHandlers /\ Owed /\ AdminImages /\ AckedSnapshotLive
  BY Zenon DEF IInv, TypeOK
<1> USE <1>0
<1>1. ASSUME NEW v \in Vol, SnapshotCall(s, v) PROVE IInv'
  <2>1. UNCHANGED <<images, size, parent, root, stamp, static, snaps,
                     flatten, wanted, acked, cap, delWanted, gone, 
                     snapAcked, snapDel, snapGone, create, delete, snapTaken,
                     unsnap, faults, restarts>>
    BY Zenon, <1>1 DEF SnapshotCall, cluster, volCalls, snapCalls, budget
  <2>2. TypeCluster' /\ TypeCalls' /\ Asked' /\ CreateProgress'
        /\ DeleteProgress' /\ Content' /\ SnapsOnImages' /\ Owed'
        /\ AdminImages' /\ AckedSnapshotLive'
    BY Zenon, <2>1, Frames DEF cluster, volCalls, snapCalls, budget
  <2>3. TypePlugin'
    BY Zenon, <1>1, <2>1 DEF TypePlugin, CreatePc, SnapshotCall
  <2>4. SnapHandlers'
    <3> SUFFICES ASSUME NEW t \in Snap PROVE SnapHandler(t)'
      BY Zenon DEF SnapHandlers
    <3>1. SnapHandler(t)
      BY Zenon DEF SnapHandlers
    <3>2. CASE t = s
      <4>1. /\ snapshot[s] = None /\ snapshot'[s] = v /\ v \in acked
            /\ <<v, s>> \notin snapAcked
        BY Zenon, <1>1 DEF SnapshotCall, TypePlugin
      <4>2. QED
        BY Zenon, <2>1, <3>1, <3>2, <4>1 DEF SnapHandler
    <3>3. CASE t # s
      <4>1. snapshot'[t] = snapshot[t]
        BY Zenon, <1>1, <3>3 DEF SnapshotCall, TypePlugin
      <4>2. QED
        BY Zenon, <2>1, <3>1, <4>1 DEF SnapHandler
    <3>4. QED
      BY Zenon, <3>2, <3>3
  <2>5. QED
    BY Zenon, <2>2, <2>3, <2>4 DEF IInv, TypeOK
<1>2. CASE SnapshotCreate(s)
  <2>1. UNCHANGED <<images, size, parent, root, stamp, static, flatten,
                     snapIndex, wanted, acked, cap, delWanted, gone, 
                     snapAcked, snapDel, snapGone, create, delete, unsnap,
                     faults, restarts>>
    BY Zenon, <1>2 DEF SnapshotCreate, memory, volCalls, snapCalls, budget
  <2>2. TypeCalls' /\ Asked' /\ DeleteProgress' /\ Content' /\ AdminImages'
    BY Zenon, <2>1, Frames DEF volCalls, snapCalls, budget
  <2>3. TypeCluster'
    <3>1. <<snapshot[s], s>> \in Vol \X (Snap \cup Vol)
      BY Zenon, <1>2 DEF TypePlugin, SnapshotCreate
    <3>2. snaps' \subseteq snaps \cup {<<snapshot[s], s>>}
      BY Zenon, <1>2 DEF SnapshotCreate
    <3>3. QED
      BY Zenon, <2>1, <3>1, <3>2 DEF TypeCluster
  <2>4. TypePlugin'
    <3>1. snapshot' \in [Snap -> Vol \cup {None}] /\ snapTaken' \subseteq Snap
      BY Zenon, <1>2 DEF TypePlugin, SnapshotCreate
    <3>2. QED
      BY Zenon, <2>1, <3>1 DEF TypePlugin
  <2>5. CreateProgress'
    <3>1. \A w \in Vol : ViaTmp(w) => SourceSnap(w) # <<snapshot[s], s>>
      BY Zenon, Requests DEF ViaTmp, SourceSnap
    <3>2. \A w \in Vol : ViaTmp(w) /\ SourceSnap(w) \notin snaps
                            => SourceSnap(w) \notin snaps'
      BY Zenon, <1>2, <3>1 DEF SnapshotCreate
    <3>3. QED
      BY Zenon, <2>1, <3>2 DEF CreateProgress, CreateHandler
  <2>6. SnapsOnImages'
    <3>1. snapshot[s] \in acked /\ <<snapshot[s], s>>[1] = snapshot[s]
      BY Zenon, <1>2, <2>1 DEF SnapHandlers, SnapHandler, SnapshotCreate
    <3>2. QED
      BY Zenon, <1>2, <2>1, <3>1 DEF SnapsOnImages, SnapshotCreate
  <2>7. SnapHandlers'
    <3> SUFFICES ASSUME NEW t \in Snap PROVE SnapHandler(t)'
      BY Zenon DEF SnapHandlers
    <3>1. SnapHandler(t)
      BY Zenon DEF SnapHandlers
    <3>2. CASE t = s
      BY Zenon, <1>2, <2>1, <3>1, <3>2 DEF SnapHandler, SnapshotCreate,
         TypePlugin
    <3>3. CASE t # s
      <4>1. /\ snapshot'[t] = snapshot[t] /\ (t \in snapTaken' => t \in snapTaken)
            /\ snaps \subseteq snaps'
        <5>1. CASE snapshot[s] \in images
          BY Zenon, <1>2, <3>3, <5>1 DEF SnapshotCreate
        <5>2. CASE snapshot[s] \notin images
          <6>1. snapshot' = [snapshot EXCEPT ![s] = None] /\ UNCHANGED <<snaps, snapTaken>>
            BY Zenon, <1>2, <5>2 DEF SnapshotCreate
          <6>2. QED
            BY Zenon, <3>3, <6>1 DEF TypePlugin
        <5>3. QED
          BY Zenon, <5>1, <5>2
      <4>2. QED
        BY Zenon, <2>1, <3>1, <4>1 DEF SnapHandler
    <3>4. QED
      BY Zenon, <3>2, <3>3
  <2>8. Owed'
    <3>0. \A w \in Vol : ViaTmp(w) => SourceSnap(w) # <<snapshot[s], s>>
      BY Zenon, Requests DEF ViaTmp, SourceSnap
    <3>1. \A w \in acked : ViaTmp(w) => SourceSnap(w) # <<snapshot[s], s>>
      BY Zenon, <3>0 DEF TypeCalls
    <3>2. \A w \in acked : ViaTmp(w) => SourceSnap(w) \notin snaps'
      BY Zenon, <1>2, <2>1, <3>1 DEF Owed, OwedTo, SnapshotCreate
    <3>3. UNCHANGED <<acked, cap, size, images, delWanted>>
      BY Zenon, <1>2, <2>1 DEF SnapshotCreate
    <3>4. QED
      BY Zenon, <3>2, <3>3 DEF Owed, OwedTo
  <2>9. AckedSnapshotLive'
    BY Zenon, <1>2, <2>1, SourceSnapType DEF AckedSnapshotLive, SnapshotCreate
  <2>10. QED
    BY Zenon, <2>2, <2>3, <2>4, <2>5, <2>6, <2>7, <2>8, <2>9 DEF IInv, TypeOK
<1>3. CASE SnapshotRespond(s)
  <2>1. UNCHANGED <<images, size, parent, root, stamp, static, snaps,
                     flatten, snapIndex, wanted, acked, cap, delWanted, gone,
                     snapDel, snapGone, create, delete, unsnap,
                     faults, restarts>>
    BY Zenon, <1>3 DEF SnapshotRespond, cluster, memory, volCalls, budget
  <2>2. TypeCluster' /\ CreateProgress' /\ DeleteProgress' /\ Content'
        /\ SnapsOnImages' /\ Owed' /\ AdminImages'
    BY Zenon, <2>1, Frames DEF cluster
  <2>3. TypePlugin'
    BY Zenon, <1>3, <2>1 DEF TypePlugin, CreatePc, SnapshotRespond
  <2>4. TypeCalls'
    <3>1. <<snapshot[s], s>> \in Vol \X Snap
      BY Zenon, <1>3, <2>1 DEF TypePlugin, SnapHandlers, SnapHandler,
         SnapshotRespond
    <3>2. QED
      BY Zenon, <1>3, <2>1, <3>1 DEF TypeCalls, SnapshotRespond
  <2>5. Asked'
    BY Zenon, <1>3, <2>1 DEF Asked, TypePlugin, SnapshotRespond
  <2>6. SnapHandlers'
    <3> SUFFICES ASSUME NEW t \in Snap PROVE SnapHandler(t)'
      BY Zenon DEF SnapHandlers
    <3>1. SnapHandler(t)
      BY Zenon DEF SnapHandlers
    <3>2. CASE t = s
      BY Zenon, <1>3, <2>1, <3>1, <3>2 DEF SnapHandler, SnapshotRespond,
         TypePlugin
    <3>3. CASE t # s
      BY Zenon, <1>3, <2>1, <3>1, <3>3 DEF SnapHandler, SnapshotRespond,
         TypePlugin
    <3>4. QED
      BY Zenon, <3>2, <3>3
  <2>7. AckedSnapshotLive'
    <3>1. <<snapshot[s], s>> \in snaps
      BY Zenon, <1>3, <2>1 DEF TypePlugin, SnapHandlers, SnapHandler,
         SnapshotRespond
    <3>2. QED
      BY Zenon, <1>3, <2>1, <3>1 DEF AckedSnapshotLive, SnapsOnImages,
         SnapshotRespond
  <2>8. QED
    BY Zenon, <2>2, <2>3, <2>4, <2>5, <2>6, <2>7 DEF IInv, TypeOK
<1>4. ASSUME NEW v \in Vol, UnsnapCall(s, v) PROVE IInv'
  <2>1. UNCHANGED <<images, size, parent, root, stamp, static, snaps,
                     flatten, snapIndex, wanted, acked, cap, delWanted, gone,
                     snapAcked, snapGone, create, delete, snapshot,
                     snapTaken, faults, restarts>>
    BY Zenon, <1>4 DEF UnsnapCall, cluster, memory, volCalls, budget
  <2>2. TypeCluster' /\ CreateProgress' /\ DeleteProgress' /\ Content'
        /\ SnapsOnImages' /\ Owed' /\ AdminImages'
    BY Zenon, <2>1, Frames DEF cluster
  <2>3. TypePlugin'
    BY Zenon, <1>4, <2>1 DEF TypePlugin, CreatePc, UnsnapCall
  <2>4. TypeCalls'
    BY Zenon, <1>4, <2>1, Basics DEF TypeCalls, UnsnapCall
  <2>5. Asked'
    BY Zenon, <1>4, <2>1 DEF Asked, TypePlugin, UnsnapCall
  <2>6. SnapHandlers'
    <3> SUFFICES ASSUME NEW t \in Snap PROVE SnapHandler(t)'
      BY Zenon DEF SnapHandlers
    <3>1. SnapHandler(t)
      BY Zenon DEF SnapHandlers
    <3>2. CASE t = s
      <4>1. unsnap'[s] = v /\ <<v, s>> \in snapDel'
        BY Zenon, <1>4 DEF UnsnapCall, TypePlugin
      <4>2. QED
        BY Zenon, <2>1, <3>1, <3>2, <4>1 DEF SnapHandler
    <3>3. CASE t # s
      <4>1. unsnap'[t] = unsnap[t] /\ snapDel \subseteq snapDel'
        BY Zenon, <1>4, <3>3 DEF UnsnapCall, TypePlugin
      <4>2. QED
        BY Zenon, <2>1, <3>1, <4>1 DEF SnapHandler
    <3>4. QED
      BY Zenon, <3>2, <3>3
  <2>7. AckedSnapshotLive'
    BY Zenon, <1>4, <2>1 DEF AckedSnapshotLive, UnsnapCall
  <2>8. QED
    BY Zenon, <2>2, <2>3, <2>4, <2>5, <2>6, <2>7 DEF IInv, TypeOK
<1>5. CASE UnsnapRemove(s)
  <2>1. UNCHANGED <<images, size, parent, root, stamp, static, flatten,
                     wanted, acked, cap, delWanted, gone, snapAcked,
                     snapDel, create, delete, snapshot, snapTaken, faults,
                     restarts>>
    BY Zenon, <1>5 DEF UnsnapRemove, volCalls, budget
  <2>2. Asked' /\ DeleteProgress' /\ Content' /\ AdminImages'
    BY Zenon, <2>1, Frames
  <2>3. TypeCluster'
    BY Zenon, <1>5, <2>1 DEF TypeCluster, UnsnapRemove
  <2>4. TypePlugin'
    BY Zenon, <1>5, <2>1 DEF TypePlugin, CreatePc, UnsnapRemove
  <2>5. TypeCalls'
    <3>1. <<unsnap[s], s>> \in Vol \X Snap
      BY Zenon, <1>5, <2>1 DEF TypePlugin, UnsnapRemove
    <3>2. QED
      BY Zenon, <1>5, <2>1, <3>1 DEF TypeCalls, UnsnapRemove
  <2>6. CreateProgress'
    BY Zenon, <1>5, <2>1 DEF CreateProgress, CreateHandler, TypePlugin,
       UnsnapRemove
  <2>7. SnapsOnImages'
    BY Zenon, <1>5, <2>1 DEF SnapsOnImages, UnsnapRemove
  <2>8. SnapHandlers'
    <3> SUFFICES ASSUME NEW t \in Snap PROVE SnapHandler(t)'
      BY Zenon DEF SnapHandlers
    <3>1. SnapHandler(t)
      BY Zenon DEF SnapHandlers
    <3>2. /\ unsnap' = [unsnap EXCEPT ![s] = None] /\ snaps' = snaps \ {<<unsnap[s], s>>}
          /\ unsnap[s] # None
      BY Zenon, <1>5 DEF UnsnapRemove
    <3>3. unsnap'[t] = None \/ unsnap'[t] = unsnap[t]
      BY Zenon, <3>2 DEF TypePlugin
    <3>4. t \in snapTaken => <<snapshot[t], t>> \in snaps'
      <4>1. <<unsnap[s], s>> \in snapAcked
        BY Zenon, <3>2 DEF SnapHandlers, SnapHandler, Asked
      <4>2. QED
        BY Zenon, <3>1, <3>2, <4>1 DEF SnapHandler
    <3>5. QED
      BY Zenon, <2>1, <3>1, <3>3, <3>4 DEF SnapHandler
  <2>9. Owed'
    BY Zenon, <1>5, <2>1 DEF Owed, OwedTo, UnsnapRemove
  <2>10. AckedSnapshotLive'
    <3>1. <<unsnap[s], s>> \in snapDel
      BY Zenon, <1>5, <2>1 DEF SnapHandlers, SnapHandler, UnsnapRemove
    <3>2. QED
      BY Zenon, <1>5, <2>1, <3>1 DEF AckedSnapshotLive, UnsnapRemove
  <2>11. QED
    BY Zenon, <2>2, <2>3, <2>4, <2>5, <2>6, <2>7, <2>8, <2>9, <2>10 DEF IInv,
       TypeOK
<1>6. CASE InterruptSnapshot(s)
  <2>1. UNCHANGED <<images, size, parent, root, stamp, static, snaps,
                     flatten, snapIndex, wanted, acked, cap, delWanted, gone,
                     snapAcked, snapDel, snapGone, create, delete,
                     restarts>>
    BY Zenon, <1>6 DEF InterruptSnapshot, cluster, memory, volCalls, snapCalls
  <2>2. TypeCluster' /\ Asked' /\ CreateProgress' /\ DeleteProgress'
        /\ Content' /\ SnapsOnImages' /\ Owed' /\ AdminImages'
        /\ AckedSnapshotLive'
    BY Zenon, <2>1, Frames DEF cluster
  <2>3. TypePlugin'
    BY Zenon, <1>6, <2>1 DEF TypePlugin, CreatePc, InterruptSnapshot
  <2>4. TypeCalls'
    <3>1. faults' \in 0..MaxFaults /\ restarts' \in 0..faults'
      BY Zenon, <1>6, <2>1, OneMore DEF InterruptSnapshot
    <3>2. QED
      BY Zenon, <2>1, <3>1 DEF TypeCalls
  <2>5. SnapHandlers'
    <3> SUFFICES ASSUME NEW t \in Snap PROVE SnapHandler(t)'
      BY Zenon DEF SnapHandlers
    <3>1. SnapHandler(t)
      BY Zenon DEF SnapHandlers
    <3>2. CASE t = s
      BY Zenon, <1>6, <2>1, <3>1, <3>2 DEF SnapHandler, InterruptSnapshot,
         TypePlugin
    <3>3. CASE t # s
      BY Zenon, <1>6, <2>1, <3>1, <3>3 DEF SnapHandler, InterruptSnapshot,
         TypePlugin
    <3>4. QED
      BY Zenon, <3>2, <3>3
  <2>6. QED
    BY Zenon, <2>2, <2>3, <2>4, <2>5 DEF IInv, TypeOK
<1>7. QED
  BY Zenon, <1>1, <1>2, <1>3, <1>4, <1>5, <1>6

\* The interruption of a volume call preserves the invariant.
LEMMA VolumeFaults ==
    ASSUME IInv, NEW v \in Vol,
           \/ InterruptVolume(v)
    PROVE  IInv'
<1>0. TypeOK /\ TypeCluster /\ TypePlugin /\ TypeCalls /\ Asked
        /\ CreateProgress /\ DeleteProgress /\ Content /\ SnapsOnImages
        /\ SnapHandlers /\ Owed /\ AdminImages /\ AckedSnapshotLive
  BY Zenon DEF IInv, TypeOK
<1> USE <1>0
<1>1. CASE InterruptVolume(v)
  <2>1. UNCHANGED <<images, size, parent, root, stamp, static, snaps,
                     flatten, snapIndex, wanted, acked, cap, delWanted, gone,
                     snapAcked, snapDel, snapGone, snapshot,
                     snapTaken, unsnap, restarts>>
    BY Zenon, <1>1 DEF InterruptVolume, cluster, memory, volCalls, snapCalls,
       snapHandlers
  <2>2. TypeCluster' /\ Content' /\ SnapsOnImages' /\ SnapHandlers' /\ Owed'
        /\ AdminImages' /\ AckedSnapshotLive'
    BY Zenon, <2>1, Frames DEF cluster
  <2>3. TypePlugin'
    BY Zenon, <1>1, <2>1 DEF TypePlugin, CreatePc, InterruptVolume, Goto
  <2>4. TypeCalls'
    <3>1. faults' \in 0..MaxFaults /\ restarts' \in 0..faults'
      BY Zenon, <1>1, <2>1, OneMore DEF InterruptVolume
    <3>2. QED
      BY Zenon, <2>1, <3>1 DEF TypeCalls
  <2>5. Asked'
    <3>1. \A w \in Vol : (create'[w] # "idle" => create[w] # "idle")
                           /\ (delete'[w] # "idle" => delete[w] # "idle")
      <4>1. CASE create' = [create EXCEPT ![v] = "idle"] /\ UNCHANGED delete
        BY Zenon, <4>1 DEF TypePlugin
      <4>2. CASE delete' = [delete EXCEPT ![v] = "idle"] /\ UNCHANGED create
        BY Zenon, <4>2 DEF TypePlugin
      <4>3. QED
        BY Zenon, <1>1, <4>1, <4>2 DEF InterruptVolume, Goto
    <3>2. QED
      BY Zenon, <2>1, <3>1 DEF Asked
  <2>6. CreateProgress'
    <3>1. \A w \in Vol : create'[w] = "idle" \/ create'[w] = create[w]
      BY Zenon, <1>1 DEF TypePlugin, InterruptVolume, Goto
    <3>2. QED
      BY Zenon, <2>1, <3>1 DEF CreateProgress, CreateHandler
  <2>7. DeleteProgress'
    BY Zenon, <1>1, <2>1 DEF DeleteProgress, TypePlugin, InterruptVolume
  <2>8. QED
    BY Zenon, <2>2, <2>3, <2>4, <2>5, <2>6, <2>7 DEF IInv, TypeOK
<1>2. QED
  BY Zenon, <1>1

\* A restart of the plugin preserves the invariant.
LEMMA RestartStep ==
    ASSUME IInv, 
           \/ Restart
    PROVE  IInv'
<1>0. TypeOK /\ TypeCluster /\ TypePlugin /\ TypeCalls /\ Asked
        /\ CreateProgress /\ DeleteProgress /\ Content /\ SnapsOnImages
        /\ SnapHandlers /\ Owed /\ AdminImages /\ AckedSnapshotLive
  BY Zenon DEF IInv, TypeOK
<1> USE <1>0
<1>1. CASE Restart
  <2>1. UNCHANGED <<images, size, parent, root, stamp, static, snaps, wanted,
                     acked, cap, delWanted, gone, snapAcked, snapDel,
                     snapGone>>
    BY Zenon, <1>1 DEF Restart, cluster, volCalls, snapCalls
  <2>2. TypeCluster' /\ Content' /\ SnapsOnImages' /\ Owed' /\ AdminImages'
        /\ AckedSnapshotLive'
    BY Zenon, <2>1, Frames DEF cluster
  <2>3. TypePlugin'
    BY Zenon, <1>1, <2>1 DEF TypePlugin, CreatePc, Restart
  <2>4. TypeCalls'
    <3>1. faults' \in 0..MaxFaults /\ restarts' \in 0..faults'
      BY Zenon, <1>1, <2>1, OneMore DEF Restart
    <3>2. QED
      BY Zenon, <2>1, <3>1 DEF TypeCalls
  <2>5. Asked'
    BY Zenon, <1>1, <2>1 DEF Asked, TypePlugin, Restart
  <2>6. CreateProgress'
    BY Zenon, <1>1, <2>1 DEF CreateProgress, CreateHandler, TypePlugin, Restart
  <2>7. DeleteProgress'
    BY Zenon, <1>1, <2>1 DEF DeleteProgress, TypePlugin, Restart
  <2>8. SnapHandlers'
    BY Zenon, <1>1, <2>1 DEF SnapHandlers, SnapHandler, TypePlugin, Restart
  <2>9. QED
    BY Zenon, <2>2, <2>3, <2>4, <2>5, <2>6, <2>7, <2>8 DEF IInv, TypeOK
<1>2. QED
  BY Zenon, <1>1

\* Every step preserves the inductive invariant.
LEMMA Step == IInv /\ [Next]_vars => IInv'
<1> SUFFICES ASSUME IInv, [Next]_vars PROVE IInv'
  OBVIOUS
<1>1. CASE UNCHANGED vars
  <2>1. UNCHANGED <<cluster, memory, snapHandlers, handlers, volCalls, snapCalls,
                    budget>>
    BY Zenon, <1>1 DEF vars, handlers
  <2>2. QED
    BY Zenon, <1>1, <2>1, Frames DEF IInv, TypeOK, cluster, memory, handlers,
       snapHandlers, volCalls, snapCalls, budget
<1>2. ASSUME NEW v \in Vol,
             CreateCall(v) \/ CreateStep(v) \/ CreateHit(v, TRUE)
      PROVE  IInv'
  BY Zenon, <1>2, CreateStarts, CreateFinishes DEF CreateStep
<1>3. ASSUME NEW v \in Vol,
             \/ DeleteCall(v) \/ DeleteStep(v) \/ Expand(v)
             \/ FlattenRun(v) \/ FlattenFail(v)
      PROVE  IInv'
  BY Zenon, <1>3, VolumeSteps DEF DeleteStep
<1>4. ASSUME NEW v \in Vol, InterruptVolume(v)
      PROVE  IInv'
  BY Zenon, <1>4, VolumeFaults
<1>5. ASSUME NEW s \in Snap,
             \/ \E v \in Vol : SnapshotCall(s, v) \/ UnsnapCall(s, v)
             \/ SnapshotStep(s) \/ UnsnapRemove(s) \/ InterruptSnapshot(s)
      PROVE  IInv'
  BY Zenon, <1>5, SnapshotSteps DEF SnapshotStep
<1>6. CASE Restart
  BY Zenon, <1>6, RestartStep
<1>7. QED
  BY Zenon, <1>1, <1>2, <1>3, <1>4, <1>5, <1>6 DEF Next

\* The inductive invariant holds in every reachable state.
THEOREM Inductive == Spec => []IInv
  BY Start, Step, PTL DEF Spec

-----------------------------------------------------------------------------
(* Consequences *)

\* Every variable stays in its domain, for any number of volumes, snapshots and
\* faults.
THEOREM TypesHold == Spec => []TypeOK
<1>1. IInv => TypeOK
  BY Zenon DEF IInv
<1>2. QED
  BY Inductive, <1>1, PTL

\* What CreateVolume acknowledged is there, large enough and of the right
\* content, however many tries, interruptions and restarts it took.
THEOREM AcknowledgedVolumesServe == Spec => []AckedVolumeServes
<1>1. IInv => AckedVolumeServes
  BY Zenon DEF IInv, AckedVolumeServes, Owed, OwedTo, Content, Asked
<1>2. QED
  BY Inductive, <1>1, PTL

\* DeleteVolume never reaps an image the administrator marked bard.static.
THEOREM AdminImagesSurvive == Spec => []StaticNeverReaped
<1>1. IInv => StaticNeverReaped
  BY Zenon DEF IInv, AdminImages, StaticNeverReaped
<1>2. QED
  BY Inductive, <1>1, PTL

\* The PVC-PVC clone recipe leaves no temporary snapshot behind.
THEOREM TemporarySnapshotsGo == Spec => []NoTmpSnapLeft
<1>1. IInv => NoTmpSnapLeft
  BY Zenon DEF IInv, Owed, OwedTo, NoTmpSnapLeft
<1>2. QED
  BY Inductive, <1>1, PTL

\* An acknowledged snapshot stays restorable until its deletion is requested.
THEOREM AcknowledgedSnapshotsLive == Spec => []AckedSnapshotLive
<1>1. IInv => AckedSnapshotLive
  BY Zenon DEF IInv
<1>2. QED
  BY Inductive, <1>1, PTL

-----------------------------------------------------------------------------
(* Snapshot names *)

\* The name index knows the volume of every live snapshot of a name, and of the
\* one that is being made.
Named(s) ==
    /\ \A v \in Vol : <<v, s>> \in snaps => snapIndex[s] = v
    /\ snapshot[s] # None => snapshot[s] = snapIndex[s]

NameInv == restarts = 0 => \A s \in Snap : Named(s)

\* A step that adds temporary snapshots at most and starts no snapshot call.
LEMMA NamesKept ==
    ASSUME NameInv, restarts' = 0 => restarts = 0, snapIndex' = snapIndex,
           \A s \in Snap : snapshot'[s] \in {None, snapshot[s]},
           \A v \in Vol, s \in Snap : <<v, s>> \in snaps' => <<v, s>> \in snaps
    PROVE  NameInv'
  BY Zenon DEF NameInv, Named

LEMMA NameStart == Init => NameInv
  BY Zenon DEF Init, NameInv, Named

\* CreateVolume, DeleteVolume, ExpandVolume and the flatten workers know no snapshot
\* names; CreateSnapshot asks the index first, and DeleteSnapshot releases a name
\* together with its snapshot.
LEMMA NameStep ==
    ASSUME IInv, NameInv, [Next]_vars PROVE NameInv'
<1>0. TypeOK /\ SnapHandlers /\ snapDel \subseteq snapAcked
  BY Zenon DEF IInv, Asked
<1>1. ASSUME NEW v \in Vol,
             \/ CreateCall(v) \/ CreateInfo(v) \/ ProvisionPlain(v) \/ ProvisionClone(v)
             \/ ProvisionStamp(v) \/ CreateSize(v) \/ CreateResize(v) \/ CreateRespond(v)
             \/ DeleteCall(v) \/ DeleteStep(v) \/ Expand(v)
             \/ FlattenRun(v) \/ FlattenFail(v) \/ InterruptVolume(v)
             \/ \E readFails \in BOOLEAN : CreateHit(v, readFails)
      PROVE  NameInv'
  <2>1. UNCHANGED <<snaps, snapIndex, snapshot, restarts>>
    BY Zenon, <1>1 DEF CreateCall, CreateInfo, ProvisionPlain, ProvisionClone,
       ProvisionStamp, CreateSize, CreateResize, CreateRespond, DeleteCall, DeleteStep,
       DeleteStatic, DeleteRemove, Expand, FlattenRun, FlattenFail, InterruptVolume,
       CreateHit, RbdCreate, RbdClone, RbdRemove, cluster, memory, snapHandlers,
       handlers, budget
  <2>. QED  BY Zenon, <2>1, NamesKept
<1>2. ASSUME NEW v \in Vol, ProvisionTmpSnap(v) \/ CreateTail(v) PROVE NameInv'
  <2>1. UNCHANGED <<snapIndex, snapshot, restarts>>
    BY Zenon, <1>2 DEF ProvisionTmpSnap, CreateTail, memory, snapHandlers, budget
  <2>2. snaps' \subseteq snaps \cup {SourceSnap(v)} /\ (SourceSnap(v) \in snaps' \ snaps => ViaTmp(v))
    <3>1. CASE ProvisionTmpSnap(v)
      <4>1. ViaTmp(v)
        BY Zenon, <3>1 DEF ProvisionTmpSnap, IInv, CreateProgress, CreateHandler
      <4>. QED  BY <3>1, <4>1, Zenon DEF ProvisionTmpSnap
    <3>2. CASE CreateTail(v)
      BY <3>2, Zenon DEF CreateTail
    <3>. QED  BY <1>2, <3>1, <3>2, Zenon
  <2>3. ASSUME NEW w \in Vol, NEW s \in Snap, <<w, s>> \in snaps' PROVE <<w, s>> \in snaps
    <3>1. <<w, s>> \in Vol \X Snap
      BY Zenon
    <3>2. CASE <<w, s>> = SourceSnap(v)
      BY Zenon, <2>2, <2>3, <3>1, <3>2, SourceSnapType DEF ViaTmp
    <3>. QED  BY Zenon, <2>2, <2>3, <3>2
  <2>. QED  BY Zenon, <2>1, <2>3, NamesKept
<1>3. ASSUME NEW s \in Snap, NEW v \in Vol, SnapshotCall(s, v) PROVE NameInv'
  <2>1. /\ UNCHANGED <<snaps, restarts>> /\ snapIndex[s] \in {None, v}
        /\ snapIndex' = [snapIndex EXCEPT ![s] = v]
        /\ snapshot' = [snapshot EXCEPT ![s] = v]
    BY Zenon, <1>3 DEF SnapshotCall, cluster, budget
  <2>2. /\ snapIndex'[s] = v /\ snapshot'[s] = v
        /\ \A t \in Snap : t # s => snapIndex'[t] = snapIndex[t] /\ snapshot'[t] = snapshot[t]
    BY Zenon, <1>0, <2>1 DEF TypeOK, TypePlugin
  <2>3. None \notin Vol
    BY Zenon, Requests
  <2>4. ASSUME NameInv, restarts = 0, NEW t \in Snap PROVE Named(t)'
    <3>1. Named(t)
      BY Zenon, <2>4 DEF NameInv
    <3>2. CASE t = s
      BY <2>1, <2>2, <2>3, <3>1, <3>2, Zenon DEF Named
    <3>3. CASE t # s
      BY Zenon, <2>1, <2>2, <3>1, <3>3 DEF Named
    <3>. QED  BY Zenon, <3>2, <3>3
  <2>. QED  BY Zenon, <2>1, <2>4 DEF NameInv
<1>4. ASSUME NEW s \in Snap, SnapshotCreate(s) PROVE NameInv'
  <2>1. /\ UNCHANGED <<snapIndex, restarts>>
        /\ snaps' \subseteq snaps \cup {<<snapshot[s], s>>}
        /\ snapshot' \in {snapshot, [snapshot EXCEPT ![s] = None]} /\ snapshot[s] # None
    BY <1>4, Zenon DEF SnapshotCreate, memory, budget
  <2>2. \A t \in Snap : snapshot'[t] \in {None, snapshot[t]}
    BY <1>0, <2>1, Zenon DEF TypeOK, TypePlugin
  <2>3. ASSUME restarts = 0, NEW t \in Snap PROVE Named(t)'
    <3>1. Named(t)
      BY Zenon, <2>3 DEF NameInv
    <3>2. \A w \in Vol : <<w, t>> \in snaps' =>
              <<w, t>> \in snaps \/ (t = s /\ w = snapshot[s])
      BY <2>1, Zenon
    <3>. QED  BY <2>1, <2>2, <3>1, <3>2, Zenon DEF Named
  <2>. QED  BY Zenon, <2>1, <2>3 DEF NameInv
<1>5. ASSUME NEW s \in Snap, SnapshotRespond(s) \/ InterruptSnapshot(s) PROVE NameInv'
  <2>1. /\ UNCHANGED <<snaps, snapIndex, restarts>>
        /\ snapshot' = snapshot \/ snapshot' = [snapshot EXCEPT ![s] = None]
    BY Zenon, <1>5 DEF SnapshotRespond, InterruptSnapshot, cluster, memory, budget
  <2>2. \A t \in Snap : snapshot'[t] \in {None, snapshot[t]}
    BY <1>0, <2>1, Zenon DEF TypeOK, TypePlugin
  <2>. QED  BY Zenon, <2>1, <2>2, NamesKept
<1>6. ASSUME NEW s \in Snap, NEW v \in Vol, UnsnapCall(s, v) PROVE NameInv'
  <2>1. UNCHANGED <<snaps, snapIndex, snapshot, restarts>>
    BY Zenon, <1>6 DEF UnsnapCall, cluster, memory, budget
  <2>. QED  BY Zenon, <2>1, NamesKept
<1>7. ASSUME NEW s \in Snap, UnsnapRemove(s) PROVE NameInv'
  <2>1. /\ UNCHANGED <<snapshot, restarts>> /\ snaps' = snaps \ {<<unsnap[s], s>>}
        /\ snapIndex' = IF snapIndex[s] = unsnap[s]
                        THEN [snapIndex EXCEPT ![s] = None] ELSE snapIndex
        /\ unsnap[s] # None
    BY Zenon, <1>7 DEF UnsnapRemove, budget
  <2>2. snapshot[s] # unsnap[s]
    BY Zenon, <1>0, <2>1 DEF SnapHandlers, SnapHandler
  <2>3. ASSUME restarts = 0, NEW t \in Snap PROVE Named(t)'
    <3>1. Named(t)
      BY Zenon, <2>3 DEF NameInv
    <3>2. CASE t = s /\ snapIndex[s] = unsnap[s]
      <4>1. \A w \in Vol : <<w, s>> \notin snaps'
        BY <2>1, <3>1, <3>2, Zenon DEF Named
      <4>2. snapshot'[s] = None
        BY Zenon, <2>1, <2>2, <3>1, <3>2 DEF Named
      <4>. QED  BY Zenon, <3>2, <4>1, <4>2 DEF Named
    <3>3. CASE ~(t = s /\ snapIndex[s] = unsnap[s])
      <4>1. snapIndex'[t] = snapIndex[t]
        BY Zenon, <1>0, <2>1, <3>3 DEF TypeOK, TypePlugin
      <4>2. \A w \in Vol : <<w, t>> \in snaps' => <<w, t>> \in snaps
        BY <2>1, Zenon
      <4>. QED  BY Zenon, <2>1, <3>1, <4>1, <4>2 DEF Named
    <3>. QED  BY Zenon, <3>2, <3>3
  <2>. QED  BY Zenon, <2>1, <2>3 DEF NameInv
<1>8. CASE Restart
  <2>1. restarts' # 0
    BY Zenon, <1>0, <1>8, OneMore DEF Restart, TypeOK
  <2>. QED  BY Zenon, <2>1 DEF NameInv
<1>9. CASE UNCHANGED vars
  <2>1. UNCHANGED <<snaps, snapIndex, snapshot, restarts>>
    BY Zenon, <1>9 DEF vars, cluster, memory, handlers, snapHandlers, budget
  <2>. QED  BY Zenon, <2>1, NamesKept
<1>10. ASSUME NEW v \in Vol,
              \/ CreateCall(v) \/ CreateStep(v) \/ CreateHit(v, TRUE) \/ DeleteCall(v)
              \/ DeleteStep(v) \/ Expand(v) \/ FlattenRun(v) \/ FlattenFail(v)
              \/ InterruptVolume(v)
       PROVE  NameInv'
  BY Zenon, <1>1, <1>2, <1>10 DEF CreateStep
<1>. QED  BY Zenon, <1>3, <1>4, <1>5, <1>6, <1>7, <1>8, <1>9, <1>10 DEF Next, SnapshotStep

\* As long as the plugin does not restart, no snapshot name is live on two volumes,
\* for every interleaving of CreateSnapshot and DeleteSnapshot calls and every fault
\* within them (snapIndex).
THEOREM SnapshotNamesUnique == Spec => []SnapNameUnique
<1>1. IInv /\ NameInv => SnapNameUnique
  <2> SUFFICES ASSUME IInv, NameInv, restarts = 0, NEW x \in snaps, NEW y \in snaps,
                      x[2] = y[2], x[2] \in Snap
               PROVE  x = y
    BY Zenon DEF SnapNameUnique
  <2>1. PICK v, w : v \in Vol /\ w \in Vol /\ x = <<v, x[2]>> /\ y = <<w, x[2]>>
    BY DEF IInv, TypeOK, TypeCluster
  <2>2. Named(x[2])
    BY Zenon DEF NameInv
  <2>3. v = snapIndex[x[2]] /\ w = snapIndex[x[2]]
    BY Zenon, <2>1, <2>2 DEF Named
  <2>. QED  BY Zenon, <2>1, <2>3
<1>2. IInv /\ NameInv /\ [Next]_vars => NameInv'
  BY NameStep, Zenon
<1>. QED  BY <1>1, <1>2, NameStart, Inductive, PTL DEF Spec

-----------------------------------------------------------------------------
(* RbdVolumes implements ObjectService *)

\* What the refinement asks of an instance: no volume is cloned from an
\* administrator's image, for such a clone inherits the mark that keeps
\* DeleteVolume from removing it.
NoStaticSource == \A v \in Vol : SrcVol[v] \notin Static

\* Only the administrator's images carry the mark, and the content of every image
\* goes back to a volume that is no clone.
Roots ==
    /\ static = Static
    /\ \A v \in images : /\ root[v] \in Vol /\ ~IsClone(root[v])
                         /\ ~IsClone(v) => root[v] = v

-----------------------------------------------------------------------------
(* Steps of the service *)

\* What becomes of a volume depends on its image, its size and content, and its
\* temporary snapshot.
LEMMA SameMade ==
    ASSUME NEW w \in Vol,
           w \in images' <=> w \in images,
           size'[w] = size[w], root'[w] = root[w],
           ViaTmp(w) => (SourceSnap(w) \in snaps' <=> SourceSnap(w) \in snaps)
    PROVE  Made(w)' = Made(w)
  BY Zenon DEF Made, Complete, ViaTmp, IsClone, SourceSnap

\* A step that leaves all of that alone, and the caller's knowledge, is invisible.
LEMMA Invisible ==
    ASSUME \A w \in Vol : Made(w)' = Made(w),
           UNCHANGED <<wanted \ Static, acked \ Static, delWanted \ Static,
                       gone \ Static>>
    PROVE  UNCHANGED Service!vars
  BY Zenon DEF Service!vars

\* Commands that change no image, size, content or snapshot change no volume.
LEMMA Untouched ==
    ASSUME UNCHANGED <<images, size, root, snaps>>
    PROVE  \A w \in Vol : Made(w)' = Made(w)
  BY Zenon, SameMade

\* A step that touches one volume.
LEMMA OneChanges ==
    ASSUME NEW v \in Vol \ Static, \A w \in Vol \ {v} : Made(w)' = Made(w)
    PROVE  [w \in Vol \ Static |-> Made(w)]'
             = [[w \in Vol \ Static |-> Made(w)] EXCEPT ![v] = Made(v)']
<1>1. [w \in Vol \ Static |-> Made(w)']
        = [[w \in Vol \ Static |-> Made(w)] EXCEPT ![v] = Made(v)']
  BY Zenon
<1>2. QED
  BY Zenon, <1>1

\* A step of a create that is not acknowledged yet.
LEMMA Works ==
    ASSUME NEW v \in Vol \ Static, v \in wanted \ acked,
           \A w \in Vol \ {v} : Made(w)' = Made(w),
           UNCHANGED <<wanted, acked, delWanted, gone>>
    PROVE  Service!Next
<1>1. \A w \in Vol : Made(w)' \in {"absent", "partial", "ready"}
  BY Zenon DEF Made
<1>2. \A w \in Vol \ Static : w \in (wanted \ Static) \ (acked \ Static) \/ Made(w)' = Made(w)
  BY Zenon
<1>3. Service!Work
  BY Zenon, <1>1, <1>2 DEF Service!Work
<1>4. QED
  BY Zenon, <1>3 DEF Service!Next

\* CreateVolume is called for a volume.
LEMMA Requested ==
    ASSUME NEW v \in Vol \ Static, \A w \in Vol : Made(w)' = Made(w),
           wanted' = wanted \cup {v}, UNCHANGED <<acked, delWanted, gone>>
    PROVE  Service!Next
<1>1. Service!Request(v)
  BY Zenon DEF Service!Request
<1>2. QED
  BY Zenon, <1>1 DEF Service!Next

\* The response of CreateVolume for a volume with nothing left to do.
LEMMA Acknowledged ==
    ASSUME NEW v \in Vol \ Static, \A w \in Vol : Made(w)' = Made(w),
           v \in wanted, Made(v) = "ready",
           acked' = acked \cup {v}, UNCHANGED <<wanted, delWanted, gone>>
    PROVE  Service!Next
<1>1. Service!Acknowledge(v)
  BY Zenon DEF Service!Acknowledge
<1>2. QED
  BY Zenon, <1>1 DEF Service!Next

\* DeleteVolume is called for a volume.
LEMMA DeleteRequested ==
    ASSUME NEW v \in Vol \ Static, \A w \in Vol : Made(w)' = Made(w),
           v \in acked,
           delWanted' = delWanted \cup {v}, UNCHANGED <<wanted, acked, gone>>
    PROVE  Service!Next
<1>1. Service!RequestDelete(v)
  BY Zenon DEF Service!RequestDelete
<1>2. QED
  BY Zenon, <1>1 DEF Service!Next

\* DeleteVolume succeeds and the volume is not there any more.
LEMMA DeleteAcknowledged ==
    ASSUME NEW v \in Vol \ Static, \A w \in Vol \ {v} : Made(w)' = Made(w),
           v \in delWanted, Made(v)' = "absent",
           gone' = gone \cup {v}, UNCHANGED <<wanted, acked, delWanted>>
    PROVE  Service!Next
<1>1. Service!AcknowledgeDelete(v)
  BY OneChanges, Zenon DEF Service!AcknowledgeDelete
<1>2. QED
  BY Zenon, <1>1 DEF Service!Next

\* Commands that touch neither images nor contents keep Roots.
LEMMA RootsKept ==
    ASSUME Roots, UNCHANGED <<images, root, static>>
    PROVE  Roots'
  BY Zenon DEF Roots, IsClone

\* A step of a handler that touches neither the images nor what the caller knows.
LEMMA Silent ==
    ASSUME Roots, UNCHANGED cluster, UNCHANGED <<wanted, acked, delWanted, gone>>
    PROVE  Roots' /\ UNCHANGED Service!vars
<1>1. UNCHANGED <<images, size, root, static, snaps>>
  BY Zenon DEF cluster
<1>2. Roots'
  BY Zenon, <1>1, RootsKept
<1>3. \A w \in Vol : Made(w)' = Made(w)
  BY Zenon, <1>1, Untouched
<1>4. QED
  BY Zenon, <1>2, <1>3, Invisible

-----------------------------------------------------------------------------
(* Every step of RbdVolumes is a step of the service or invisible to it *)

\* CreateVolume up to the image.
LEMMA CreateStartRefines ==
    ASSUME NoStaticSource, IInv, Roots, NEW v \in Vol,
           \/ CreateCall(v) \/ CreateInfo(v)
           \/ (\E r \in BOOLEAN : CreateHit(v, r)) \/ ProvisionTmpSnap(v)
           \/ ProvisionPlain(v) \/ ProvisionClone(v)
    PROVE  Roots' /\ (Service!Next \/ UNCHANGED Service!vars)
<1>0. TypeCluster /\ Asked /\ CreateProgress /\ SnapsOnImages
  BY Zenon DEF IInv, TypeOK
<1>1. CASE CreateCall(v)
  <2>1. UNCHANGED cluster /\ UNCHANGED <<acked, delWanted, gone>>
          /\ wanted' = wanted \cup {v} /\ v \notin acked
    BY Zenon, <1>1 DEF CreateCall
  <2>2. UNCHANGED <<images, size, root, static, snaps>>
    BY Zenon, <2>1 DEF cluster
  <2>3. v \in Vol \ Static
    BY Zenon, <1>0, <2>1 DEF Asked
  <2>4. QED
    BY Zenon, <2>1, <2>2, <2>3, RootsKept, Untouched, Requested
<1>2. CASE CreateInfo(v)
  BY Zenon, <1>2, Silent DEF CreateInfo, volCalls
<1>3. ASSUME NEW r \in BOOLEAN, CreateHit(v, r)
      PROVE  Roots' /\ UNCHANGED Service!vars
  BY Zenon, <1>3, Silent DEF CreateHit
<1>4. CASE create[v] # "idle" /\ UNCHANGED volCalls
             /\ (ProvisionTmpSnap(v) \/ ProvisionPlain(v) \/ ProvisionClone(v))
  <2>1. v \in Vol \ Static /\ v \in wanted \ acked
    BY Zenon, <1>0, <1>4 DEF Asked
  <2>2. UNCHANGED <<wanted, acked, delWanted, gone>>
    BY Zenon, <1>4 DEF volCalls
  <2>3. CASE ProvisionTmpSnap(v)
    <3>1. UNCHANGED <<images, size, root, static>>
            /\ (snaps' = snaps \/ snaps' = snaps \cup {SourceSnap(v)})
      BY Zenon, <2>3 DEF ProvisionTmpSnap
    <3>2. ViaTmp(v) /\ IsClone(v)
      BY Zenon, <1>0, <2>3 DEF CreateProgress, CreateHandler, ViaTmp,
         ProvisionTmpSnap
    <3>3. \A w \in Vol \ {v} : ViaTmp(w) => SourceSnap(w) # SourceSnap(v)
      BY Zenon, <3>2, SourceSnapType
    <3>4. \A w \in Vol \ {v} : Made(w)' = Made(w)
      BY Zenon, <3>1, <3>3, SameMade
    <3>5. QED
      BY Zenon, <2>1, <2>2, <3>1, <3>4, RootsKept, Works
  <2>4. CASE ProvisionPlain(v)
    <3>1. CASE UNCHANGED cluster
      BY Zenon, <2>2, <3>1, Silent
    <3>2. CASE RbdCreate(v, ReqSize[v])
      <4>1. \A w \in Vol \ {v} : Made(w)' = Made(w)
        <5> TAKE w \in Vol \ {v}
        <5>1. /\ w \in images' <=> w \in images
              /\ size'[w] = size[w] /\ root'[w] = root[w] /\ snaps' = snaps
          BY <1>0, <3>2, Zenon DEF RbdCreate, TypeCluster
        <5>2. QED
          BY Zenon, <5>1, SameMade
      <4>2. Roots'
        <5>1. ~IsClone(v) /\ images' = images \cup {v} /\ static' = static
                /\ root' = [root EXCEPT ![v] = v]
          BY Zenon, <2>4, <3>2 DEF ProvisionPlain, RbdCreate
        <5>2. root'[v] = v /\ \A w \in images : w # v => root'[w] = root[w]
          BY Zenon, <1>0, <5>1 DEF TypeCluster
        <5>3. QED
          BY Zenon, <5>1, <5>2 DEF Roots, IsClone
      <4>3. QED
        BY Zenon, <2>1, <2>2, <4>1, <4>2, Works
    <3>3. QED
      BY Zenon, <2>4, <3>1, <3>2 DEF ProvisionPlain
  <2>5. CASE ProvisionClone(v)
    <3>1. CASE UNCHANGED cluster
      BY Zenon, <2>2, <3>1, Silent
    <3>2. CASE RbdClone(v, SrcVol[v]) /\ SourceSnap(v) \in snaps
      <4>1. \A w \in Vol \ {v} : Made(w)' = Made(w)
        <5> TAKE w \in Vol \ {v}
        <5>1. /\ w \in images' <=> w \in images
              /\ size'[w] = size[w] /\ root'[w] = root[w] /\ snaps' = snaps
          BY <1>0, <3>2, Zenon DEF RbdClone, TypeCluster
        <5>2. QED
          BY Zenon, <5>1, SameMade
      <4>2. IsClone(v) /\ SrcVol[v] \in images /\ SrcVol[v] \notin static
        BY Zenon, <1>0, <2>5, <3>2, SourceSnapType DEF SnapsOnImages, Roots,
           NoStaticSource, ProvisionClone
      <4>3. Roots'
        <5>1. static' = static /\ images' = images \cup {v}
                /\ root' = [root EXCEPT ![v] = root[SrcVol[v]]]
          BY Zenon, <3>2, <4>2 DEF RbdClone
        <5>2. QED
          <6>1. /\ root'[v] = root[SrcVol[v]]
                /\ \A w \in images : w # v => root'[w] = root[w]
            BY Zenon, <1>0, <5>1 DEF TypeCluster
          <6>2. QED
            <7> SUFFICES ASSUME NEW w \in images'
                         PROVE  /\ root'[w] \in Vol /\ ~IsClone(root'[w])
                                /\ ~IsClone(w) => root'[w] = w
              BY Zenon, <5>1 DEF Roots, IsClone
            <7>1. CASE w = v
              BY Zenon, <4>2, <6>1, <7>1 DEF Roots
            <7>2. CASE w # v
              BY Zenon, <5>1, <6>1, <7>2 DEF Roots
            <7>3. QED
              BY Zenon, <7>1, <7>2
      <4>4. QED
        BY Zenon, <2>1, <2>2, <4>1, <4>3, Works
    <3>3. QED
      BY Zenon, <2>5, <3>1, <3>2 DEF ProvisionClone
  <2>6. QED
    BY Zenon, <1>4, <2>3, <2>4, <2>5
<1>5. ProvisionTmpSnap(v) \/ ProvisionPlain(v) \/ ProvisionClone(v)
        => create[v] # "idle" /\ UNCHANGED volCalls
  BY Zenon DEF ProvisionTmpSnap, ProvisionPlain, ProvisionClone
<1>6. QED
  BY Zenon, <1>1, <1>2, <1>3, <1>4, <1>5

\* CreateVolume from the stamp to the response.
LEMMA CreateEndRefines ==
    ASSUME IInv, Roots, NEW v \in Vol,
           \/ ProvisionStamp(v) \/ CreateSize(v) \/ CreateResize(v)
           \/ CreateTail(v) \/ CreateRespond(v)
    PROVE  Roots' /\ (Service!Next \/ UNCHANGED Service!vars)
<1>0. TypeCluster /\ Asked /\ CreateProgress /\ Content
  BY Zenon DEF IInv, TypeOK
<1>1. v \in Vol \ Static /\ v \in wanted \ acked
  BY Zenon, <1>0 DEF Asked, ProvisionStamp, CreateSize, CreateResize, CreateTail,
     CreateRespond
<1>2. CASE ProvisionStamp(v)
  <2>1. UNCHANGED <<images, size, root, static, snaps>>
          /\ UNCHANGED <<wanted, acked, delWanted, gone>>
    BY Zenon, <1>2 DEF ProvisionStamp, volCalls
  <2>2. QED
    BY Zenon, <2>1, RootsKept, Untouched, Invisible
<1>3. CASE CreateSize(v)
  BY Zenon, <1>3, Silent DEF CreateSize, volCalls
<1>4. CASE CreateResize(v)
  <2>1. UNCHANGED <<images, root, static, snaps>>
          /\ UNCHANGED <<wanted, acked, delWanted, gone>>
          /\ size' = [size EXCEPT ![v] = ReqSize[v]]
    BY Zenon, <1>4 DEF CreateResize, volCalls
  <2>2. \A w \in Vol \ {v} : size'[w] = size[w]
    BY Zenon, <1>0, <2>1 DEF TypeCluster
  <2>3. \A w \in Vol \ {v} : Made(w)' = Made(w)
    BY Zenon, <2>1, <2>2, SameMade
  <2>4. QED
    BY Zenon, <1>1, <2>1, <2>3, RootsKept, Works
<1>5. CASE CreateTail(v)
  <2>1. UNCHANGED <<images, size, root, static>>
          /\ UNCHANGED <<wanted, acked, delWanted, gone>>
          /\ snaps' = IF ViaTmp(v) THEN snaps \ {SourceSnap(v)} ELSE snaps
    BY Zenon, <1>5 DEF CreateTail, volCalls
  <2>2. \A w \in Vol \ {v} : ViaTmp(w) /\ ViaTmp(v)
                               => SourceSnap(w) # SourceSnap(v)
    BY Zenon, SourceSnapType DEF ViaTmp
  <2>3. \A w \in Vol \ {v} : Made(w)' = Made(w)
    BY Zenon, <2>1, <2>2, SameMade
  <2>4. QED
    BY Zenon, <1>1, <2>1, <2>3, RootsKept, Works
<1>6. CASE CreateRespond(v)
  <2>1. UNCHANGED cluster /\ UNCHANGED <<wanted, delWanted, gone>>
          /\ acked' = acked \cup {v} /\ create[v] = "respond"
    BY Zenon, <1>6 DEF CreateRespond
  <2>2. UNCHANGED <<images, size, root, static, snaps>>
    BY Zenon, <2>1 DEF cluster
  <2>3. Made(v) = "ready"
    <3>1. CreateHandler(v)
      BY Zenon, <1>0 DEF CreateProgress
    <3>2. v \in images /\ size[v] >= ReqSize[v]
            /\ (ViaTmp(v) => SourceSnap(v) \notin snaps)
      BY <2>1, <3>1, Zenon DEF CreateHandler
    <3>3. root[v] # None
      BY Zenon, <1>0, <3>2 DEF Content
    <3>4. IsClone(v) <=> root[v] # v
      BY Zenon, <3>2 DEF Roots
    <3>5. QED
      BY Zenon, <3>2, <3>3, <3>4 DEF Made, Complete
  <2>4. v \in wanted
    BY Zenon, <1>1
  <2>5. QED
    BY Zenon, <1>1, <2>1, <2>2, <2>3, <2>4, RootsKept, Untouched, Acknowledged
<1>7. QED
  BY Zenon, <1>2, <1>3, <1>4, <1>5, <1>6

\* DeleteVolume, ExpandVolume and the flatten workers.
LEMMA DeleteRefines ==
    ASSUME IInv, Roots, NEW v \in Vol,
           \/ DeleteCall(v) \/ DeleteStep(v) \/ Expand(v)
           \/ FlattenRun(v) \/ FlattenFail(v) \/ InterruptVolume(v)
    PROVE  Roots' /\ (Service!Next \/ UNCHANGED Service!vars)
<1>0. TypeCluster /\ TypeCalls /\ Asked /\ DeleteProgress /\ Owed /\ TypeOK
  BY Zenon DEF IInv, TypeOK
<1>1. CASE DeleteCall(v)
  <2>1. UNCHANGED cluster /\ UNCHANGED <<wanted, acked, gone>>
          /\ delWanted' = delWanted \cup {v} /\ v \in acked
    BY Zenon, <1>1 DEF DeleteCall
  <2>2. UNCHANGED <<images, size, root, static, snaps>>
    BY Zenon, <2>1 DEF cluster
  <2>3. Roots' /\ \A w \in Vol : Made(w)' = Made(w)
    BY Zenon, <2>2, RootsKept, Untouched
  <2>4. CASE v \in Static
    <3>1. UNCHANGED <<wanted \ Static, acked \ Static, delWanted \ Static,
                      gone \ Static>>
      BY <2>1, <2>4, Zenon
    <3>2. QED
      BY Zenon, <2>3, <3>1, Invisible
  <2>5. CASE v \notin Static
    BY Zenon, <2>1, <2>3, <2>5, DeleteRequested
  <2>6. QED
    BY Zenon, <2>4, <2>5
<1>2. CASE DeleteStatic(v)
  <2>1. UNCHANGED cluster /\ UNCHANGED <<wanted, acked, delWanted>>
          /\ (gone' = gone \/ (v \in static /\ gone' = gone \cup {v}))
    BY Zenon, <1>2 DEF DeleteStatic
  <2>2. UNCHANGED <<images, size, root, static, snaps>>
    BY Zenon, <2>1 DEF cluster
  <2>3. Roots' /\ \A w \in Vol : Made(w)' = Made(w)
    BY Zenon, <2>2, RootsKept, Untouched
  <2>4. UNCHANGED <<wanted \ Static, acked \ Static, delWanted \ Static,
                    gone \ Static>>
    <3>1. static = Static
      BY Zenon DEF Roots
    <3>2. QED
      BY Zenon, <2>1, <3>1
  <2>5. QED
    BY Zenon, <2>3, <2>4, Invisible
<1>3. CASE DeleteRemove(v)
  <2>1. UNCHANGED <<wanted, acked, delWanted>> /\ delete[v] = "rm"
    BY Zenon, <1>3 DEF DeleteRemove
  <2>2. v \in Vol \ Static /\ v \in delWanted
    BY <1>0, <2>1, Zenon DEF Asked, DeleteProgress
  <2>3. CASE UNCHANGED cluster /\ UNCHANGED gone
    BY Zenon, <2>1, <2>3, Silent
  <2>4. CASE RbdRemove(v) /\ gone' = gone \cup {v}
    <3>1. \A w \in Vol \ {v} : Made(w)' = Made(w)
      <4> TAKE w \in Vol \ {v}
      <4>1. /\ w \in images' <=> w \in images
            /\ size'[w] = size[w] /\ root'[w] = root[w] /\ snaps' = snaps
        BY <1>0, <2>4, Zenon DEF RbdRemove, TypeCluster
      <4>2. QED
        BY Zenon, <4>1, SameMade
    <3>2. Made(v)' = "absent"
      BY Zenon, <2>4 DEF Made, RbdRemove
    <3>3. Roots'
      BY <1>0, <2>2, <2>4, Zenon DEF Roots, RbdRemove, TypeCluster, IsClone
    <3>4. QED
      BY Zenon, <2>1, <2>2, <2>4, <3>1, <3>2, <3>3, DeleteAcknowledged
  <2>5. CASE v \notin images /\ gone' = gone \cup {v} /\ UNCHANGED cluster
    <3>1. UNCHANGED <<images, size, root, static, snaps>>
      BY Zenon, <2>5 DEF cluster
    <3>2. Roots' /\ \A w \in Vol : Made(w)' = Made(w)
      BY Zenon, <3>1, RootsKept, Untouched
    <3>3. Made(v)' = "absent"
      BY Zenon, <2>5, <3>1 DEF Made
    <3>4. QED
      BY Zenon, <2>1, <2>2, <2>5, <3>2, <3>3, DeleteAcknowledged
  <2>6. QED
    BY Zenon, <1>3, <2>3, <2>4, <2>5 DEF DeleteRemove
<1>4. CASE Expand(v)
  <2>1. UNCHANGED <<images, root, static, snaps>>
          /\ UNCHANGED <<wanted, acked, delWanted, gone>>
          /\ size' = [size EXCEPT ![v] = cap[v] + 1] /\ v \in acked \ delWanted
    BY Zenon, <1>4 DEF Expand
  <2>2. \A w \in Vol \ {v} : size'[w] = size[w]
    BY Zenon, <1>0, <2>1 DEF TypeCluster
  <2>3. \A w \in Vol \ {v} : Made(w)' = Made(w)
    BY Zenon, <2>1, <2>2, SameMade
  <2>4. cap[v] >= ReqSize[v] /\ size[v] >= ReqSize[v]
    BY Zenon, <1>0, <2>1 DEF Owed, OwedTo
  <2>5. size'[v] >= ReqSize[v]
    <3>1. size'[v] = cap[v] + 1
      BY Zenon, <1>0, <2>1 DEF TypeCluster
    <3>2. QED
      BY Zenon, <1>0, <2>4, <3>1, Basics, Arithmetic
  <2>6. Complete(v)' <=> Complete(v)
    BY Zenon, <2>1, <2>4, <2>5 DEF Complete, ViaTmp, IsClone, SourceSnap
  <2>7. Made(v)' = Made(v)
    BY Zenon, <2>1, <2>6 DEF Made
  <2>8. \A w \in Vol : Made(w)' = Made(w)
    BY Zenon, <2>3, <2>7
  <2>9. QED
    BY Zenon, <2>1, <2>8, RootsKept, Invisible
<1>5. CASE FlattenRun(v)
  <2>1. UNCHANGED <<images, size, root, static, snaps>>
          /\ UNCHANGED <<wanted, acked, delWanted, gone>>
    BY Zenon, <1>5 DEF FlattenRun, volCalls
  <2>2. QED
    BY Zenon, <2>1, RootsKept, Untouched, Invisible
<1>6. CASE FlattenFail(v)
  BY Zenon, <1>6, Silent DEF FlattenFail, volCalls
<1>7. CASE InterruptVolume(v)
  BY Zenon, <1>7, Silent DEF InterruptVolume, volCalls
<1>8. QED
  BY Zenon, <1>1, <1>2, <1>3, <1>4, <1>5, <1>6, <1>7 DEF DeleteStep

\* Snapshots have names of their own, so no snapshot call touches the temporary
\* snapshot of a clone.
LEMMA SnapshotRefines ==
    ASSUME IInv, Roots, NEW s \in Snap,
           \/ \E v \in Vol : SnapshotCall(s, v) \/ UnsnapCall(s, v)
           \/ SnapshotStep(s) \/ UnsnapRemove(s) \/ InterruptSnapshot(s)
    PROVE  Roots' /\ UNCHANGED Service!vars
<1>1. CASE UNCHANGED cluster /\ UNCHANGED volCalls
  BY Zenon, <1>1, Silent DEF volCalls
<1>2. ASSUME UNCHANGED <<images, size, root, static>>, UNCHANGED volCalls,
             NEW u \in Vol,
             snaps' \in {snaps \cup {<<u, s>>}, snaps \ {<<u, s>>}}
      PROVE  Roots' /\ UNCHANGED Service!vars
  <2>1. \A w \in Vol : ViaTmp(w) => SourceSnap(w) # <<u, s>>
    <3>1. <<u, s>> \in Vol \X Snap
      BY <1>2, Zenon
    <3>2. QED
      BY Zenon, <3>1, SourceSnapType DEF ViaTmp
  <2>2. \A w \in Vol :
            ViaTmp(w) => (SourceSnap(w) \in snaps' <=> SourceSnap(w) \in snaps)
    BY Zenon, <1>2, <2>1
  <2>3. \A w \in Vol : Made(w)' = Made(w)
    BY Zenon, <1>2, <2>2, SameMade
  <2>4. UNCHANGED <<wanted, acked, delWanted, gone>>
    BY Zenon, <1>2 DEF volCalls
  <2>5. QED
    BY Zenon, <1>2, <2>3, <2>4, RootsKept, Invisible
<1>3. TypePlugin /\ SnapHandlers
  BY Zenon DEF IInv, TypeOK
<1>4. CASE SnapshotCreate(s)
  <2>1. snapshot[s] \in Vol
    BY Zenon, <1>3, <1>4 DEF TypePlugin, SnapshotCreate
  <2>2. UNCHANGED <<images, size, root, static>> /\ UNCHANGED volCalls
          /\ (UNCHANGED cluster \/ snaps' = snaps \cup {<<snapshot[s], s>>})
    BY Zenon, <1>4 DEF SnapshotCreate, cluster
  <2>3. QED
    BY Zenon, <1>1, <1>2, <2>1, <2>2
<1>5. CASE UnsnapRemove(s)
  <2>1. unsnap[s] \in Vol
    BY Zenon, <1>3, <1>5 DEF TypePlugin, UnsnapRemove
  <2>2. UNCHANGED <<images, size, root, static>> /\ UNCHANGED volCalls
          /\ snaps' = snaps \ {<<unsnap[s], s>>}
    BY Zenon, <1>5 DEF UnsnapRemove
  <2>3. QED
    BY Zenon, <1>2, <2>1, <2>2
<1>6. CASE SnapshotRespond(s)
  BY Zenon, <1>1, <1>6 DEF SnapshotRespond
<1>7. CASE InterruptSnapshot(s)
  BY Zenon, <1>1, <1>7 DEF InterruptSnapshot
<1>8. ASSUME NEW v \in Vol, SnapshotCall(s, v) \/ UnsnapCall(s, v)
      PROVE  UNCHANGED cluster /\ UNCHANGED volCalls
  BY Zenon, <1>8 DEF SnapshotCall, UnsnapCall
<1>9. QED
  BY Zenon, <1>1, <1>4, <1>5, <1>6, <1>7, <1>8 DEF SnapshotStep

\* The initial states are initial states of the service.
LEMMA StartRefines == Init => Roots /\ Service!Init
<1> SUFFICES ASSUME Init PROVE Roots /\ Service!Init
  OBVIOUS
<1>1. Static \subseteq Vol /\ \A v \in Static : ~IsClone(v)
  BY Zenon, Requests
<1>2. Roots
  BY <1>1, Zenon DEF Init, Roots
<1>3. \A v \in Vol \ Static : Made(v) = "absent"
  BY Zenon DEF Init, Made
<1>4. acked \ Static = {} /\ wanted \ Static = {} /\ delWanted \ Static = {}
        /\ gone \ Static = {}
  BY Zenon DEF Init
<1>5. [v \in Vol \ Static |-> Made(v)]
        = [v \in Vol \ Static |-> IF v \in acked \ Static THEN "ready" ELSE "absent"]
  BY Zenon, <1>3, <1>4
<1>6. QED
  BY Zenon, <1>2, <1>4, <1>5 DEF Service!Init

\* Every step of CreateVolume, DeleteVolume, ExpandVolume, of the snapshot calls, of
\* the flatten workers and of the faults is a step of the service or invisible.
LEMMA StepRefines ==
    NoStaticSource /\ IInv /\ Roots /\ [Next]_vars
      => Roots' /\ [Service!Next]_(Service!vars)
<1> SUFFICES ASSUME NoStaticSource, IInv, Roots, [Next]_vars
             PROVE  Roots' /\ (Service!Next \/ UNCHANGED Service!vars)
  OBVIOUS
<1>1. CASE UNCHANGED vars
  BY Zenon, <1>1, Silent DEF vars, volCalls
<1>2. ASSUME NEW v \in Vol, CreateCall(v) \/ CreateStep(v) \/ CreateHit(v, TRUE)
      PROVE  Roots' /\ (Service!Next \/ UNCHANGED Service!vars)
  BY Zenon, <1>2, CreateStartRefines, CreateEndRefines DEF CreateStep
<1>3. ASSUME NEW v \in Vol,
             \/ DeleteCall(v) \/ DeleteStep(v) \/ Expand(v)
             \/ FlattenRun(v) \/ FlattenFail(v) \/ InterruptVolume(v)
      PROVE  Roots' /\ (Service!Next \/ UNCHANGED Service!vars)
  BY Zenon, <1>3, DeleteRefines
<1>4. ASSUME NEW s \in Snap,
             \/ \E v \in Vol : SnapshotCall(s, v) \/ UnsnapCall(s, v)
             \/ SnapshotStep(s) \/ UnsnapRemove(s) \/ InterruptSnapshot(s)
      PROVE  Roots' /\ (Service!Next \/ UNCHANGED Service!vars)
  BY Zenon, <1>4, SnapshotRefines
<1>5. CASE Restart
  BY Zenon, <1>5, Silent DEF Restart, volCalls
<1>6. QED
  BY Zenon, <1>1, <1>2, <1>3, <1>4, <1>5 DEF Next

\* CreateVolume, ExpandVolume and DeleteVolume of cephplugin.go give the guarantees
\* of ObjectService, for every instance in which no volume is cloned from an
\* administrator's image: an acknowledged volume is whole and stays whole until its
\* deletion is requested, an acknowledged deletion leaves no image and no temporary
\* snapshot, whatever was interrupted before.
THEOREM RbdServesVolumes == NoStaticSource /\ Spec => Served
<1>1. NoStaticSource /\ IInv /\ Roots /\ [Next]_vars
        => Roots' /\ [Service!Next]_(Service!vars)
  BY Zenon, StepRefines
<1>2. Init => Roots /\ Service!Init
  BY Zenon, StartRefines
<1>3. Spec => []IInv
  BY Inductive, Zenon
<1>4. NoStaticSource => []NoStaticSource
  OBVIOUS
<1>5. QED
  BY <1>1, <1>2, <1>3, <1>4, PTL DEF Spec, Served, Service!Spec
=============================================================================
