---------------------------- MODULE RbdNodeProofs ----------------------------
(***************************************************************************)
(* For every set of nodes, volumes and devices and every number of faults:  *)
(* the fence of NodeStage leaves an exclusive volume one writing node,      *)
(* NodeUnstage leaves no device of a volume behind and, where no node       *)
(* serves two volumes, mkfs erases no pod's data after a probe that         *)
(* answered.                                                                *)
(***************************************************************************)
EXTENDS RbdNode, TLAPS

\* Devices through which a volume is written, those the healer revived and those
\* whose blocklist entry expired aside.
Live(v) == {x \in Slot : kmap[x] = v} \ (dead \cup fenced \cup revived \cup expired)

\* The commands of NodeStage that lead up to the map.
Taking == {"status", "fence", "map"}

Label == {"idle", "status", "fence", "map", "record", "blkid", "mkfs", "blind",
          "mount",          "umount", "unmap", "clear", "bind", "bindro", "remount"}

Types ==
    /\ kmap \in [Slot -> Vol \cup {None}]
    /\ pc \in [Path -> Label]
    /\ seen \in [Path -> SUBSET Slot]
    /\ home \in [Vol -> Node \cup {None}]

\* Only the node the orchestrator has a volume on is about to map it.
Placed == \A n \in Node, v \in Vol : pc[<<n, v>>] \in Taking => home[v] = n

\* The live devices of a volume are on one node; all of them are still on the list
\* of a handler that fences, and there are none when it goes on to map.
Guarded(v) ==
    /\ \A x, y \in Live(v) : x[1] = y[1]
    /\ \A n \in Node : pc[<<n, v>>] = "fence" => Live(v) \subseteq seen[<<n, v>>]
    /\ \A n \in Node : pc[<<n, v>>] = "map" => Live(v) = {}

NodeInv == Types /\ Placed /\ \A v \in Exclusive : Guarded(v)

-----------------------------------------------------------------------------
\* Pairs of a node and a device or a volume.
LEMMA Pairs ==
    /\ \A n \in Node, d \in Dev : <<n, d>> \in Slot
    /\ \A n \in Node, v \in Vol : <<n, v>> \in Path
    /\ \A n, m \in Node, v, w \in Vol : <<n, v>> = <<m, w>> <=> n = m /\ v = w
    /\ Exclusive \subseteq Vol /\ None \notin Node \cup Vol
  BY Shape, Zenon DEF Slot, Path

\* A step in which no handler comes closer to a map and no device comes alive keeps
\* the invariant: unstaging, publishing, interruptions, restarts and reboots.
LEMMA Retreat ==
    ASSUME NodeInv, Types',
           \A v \in Exclusive : Live(v)' \subseteq Live(v),
           \A n \in Node, v \in Vol : pc'[<<n, v>>] \in Taking =>
               /\ pc'[<<n, v>>] = pc[<<n, v>>] /\ home'[v] = home[v]
               /\ pc[<<n, v>>] = "fence" =>
                      Live(v)' \cap seen[<<n, v>>] \subseteq seen'[<<n, v>>]
    PROVE  NodeInv'
<1>1. Placed'
  BY Zenon DEF NodeInv, Placed
<1>2. ASSUME NEW v \in Exclusive PROVE Guarded(v)'
  <2>1. v \in Vol /\ Guarded(v) /\ Live(v)' \subseteq Live(v)
    BY Pairs, Zenon DEF NodeInv
  <2>2. \A x, y \in Live(v)' : x[1] = y[1]
    BY Zenon, <2>1 DEF Guarded
  <2>3. ASSUME NEW n \in Node, pc'[<<n, v>>] = "fence"
        PROVE  Live(v)' \subseteq seen'[<<n, v>>]
    <3>1. pc[<<n, v>>] = "fence" /\ Live(v)' \cap seen[<<n, v>>] \subseteq seen'[<<n, v>>]
      BY <2>1, <2>3, Zenon DEF Taking
    <3>2. QED
      BY Zenon, <2>1, <3>1 DEF Guarded
  <2>4. ASSUME NEW n \in Node, pc'[<<n, v>>] = "map"
        PROVE  Live(v)' = {}
    <3>1. pc[<<n, v>>] = "map"
      BY <2>1, <2>4, Zenon DEF Taking
    <3>2. QED
      BY Zenon, <2>1, <3>1 DEF Guarded
  <2>5. QED
    BY Zenon, <2>2, <2>3, <2>4 DEF Guarded
<1>3. QED
  BY Zenon, <1>1, <1>2 DEF NodeInv

\* A step that leaves the devices and their clients alone makes none alive.
LEMMA SameLive ==
    ASSUME UNCHANGED <<kmap, dead, fenced, revived, expired>>
    PROVE  \A v \in Vol : Live(v)' = Live(v)
  BY Zenon DEF Live, Slot

\* Nothing is mapped at first.
LEMMA NodeStart == Init => NodeInv
<1> SUFFICES ASSUME Init PROVE NodeInv
  OBVIOUS
<1>1. Types
  BY Zenon DEF Init, Types, Label
<1>2. Placed
  BY Pairs, Zenon DEF Init, Placed, Taking
<1>3. ASSUME NEW v \in Exclusive PROVE Guarded(v)
  <2>1. Live(v) = {}
    BY Pairs DEF Init, Live
  <2>2. QED
    BY Zenon, <2>1 DEF Guarded
<1>4. QED
  BY Zenon, <1>1, <1>2, <1>3 DEF NodeInv

\* A handler goes on to a command that is none of these.
LEMMA GoesOn ==
    ASSUME NodeInv, NEW n \in Node, NEW v \in Vol, NEW label \in Label \ Taking,
           pc' = [pc EXCEPT ![<<n, v>>] = label],
           UNCHANGED <<kmap, dead, fenced, revived, expired, seen, home>>
    PROVE  NodeInv'
<1>1. Types'
  BY Zenon DEF NodeInv, Types
<1>2. \A w \in Vol : Live(w)' = Live(w)
  BY Zenon, SameLive
<1>3. ASSUME NEW m \in Node, NEW w \in Vol, pc'[<<m, w>>] \in Taking
      PROVE  pc'[<<m, w>>] = pc[<<m, w>>]
  BY <1>3, Pairs, ZenonT(30) DEF NodeInv, Types
<1>4. \A m \in Node, w \in Vol : pc'[<<m, w>>] \in Taking =>
          /\ pc'[<<m, w>>] = pc[<<m, w>>] /\ home'[w] = home[w]
          /\ Live(w)' \cap seen[<<m, w>>] \subseteq seen'[<<m, w>>]
  BY Zenon, <1>3
<1>5. \A w \in Exclusive : Live(w)' \subseteq Live(w)
  BY <1>2, Pairs
<1>6. QED
  BY Zenon, <1>1, <1>4, <1>5, Retreat

\* Devices are unmapped, or lost with the node.
LEMMA Releases ==
    ASSUME NodeInv, NEW S, Release(S), pc' \in [Path -> Label],
           \A p \in Path : pc'[p] \in Taking => pc'[p] = pc[p],
           UNCHANGED home
    PROVE  NodeInv'
<1>1. Types'
  BY Pairs, Zenon DEF NodeInv, Types, Release
<1>2. \A w \in Vol : Live(w)' \subseteq Live(w) \ S
  <2>1. \A x \in Slot : kmap'[x] = IF x \in S THEN None ELSE kmap[x]
    BY Zenon DEF Release
  <2>2. QED
    BY <2>1, Pairs, Zenon DEF Release, Live
<1>3. \A m \in Node, w \in Vol :
          pc'[<<m, w>>] \in Taking /\ pc[<<m, w>>] = "fence"
            => seen'[<<m, w>>] = seen[<<m, w>>] \ S
  <2>1. \A p \in Path : seen'[p] = IF pc'[p] = "fence" THEN seen[p] \ S ELSE {}
    BY Zenon DEF Release
  <2>2. QED
    BY Zenon, <2>1, Pairs
<1>4. \A m \in Node, w \in Vol :
          pc'[<<m, w>>] \in Taking /\ pc[<<m, w>>] = "fence"
            => Live(w)' \cap seen[<<m, w>>] \subseteq seen'[<<m, w>>]
  BY <1>2, <1>3, Zenon
<1>5. \A w \in Exclusive : Live(w)' \subseteq Live(w)
  BY <1>2, Pairs, Zenon
<1>6. QED
  BY Zenon, <1>1, <1>4, <1>5, Pairs, Retreat

-----------------------------------------------------------------------------
\* NodeStage up to the map: only the node the volume is on gets this far, the list
\* of watchers holds every live device, and none is live once the list is empty.
LEMMA StageTakes ==
    ASSUME NodeInv, NEW n \in Node, NEW v \in Vol,
           \/ StageCall(n, v) \/ StageStatus(n, v) \/ StageFence(n, v)
           \/ StageMap(n, v)
    PROVE  NodeInv'
<1>0. Types /\ Placed /\ \A w \in Exclusive : Guarded(w)
  BY Zenon DEF NodeInv
<1>1. CASE StageCall(n, v)
  <2>1. UNCHANGED <<kmap, dead, fenced, revived, expired, seen>> /\ home[v] \in {None, n}
          /\ home' = [home EXCEPT ![v] = n] /\ pc[<<n, v>>] = "idle"
    BY Zenon, <1>1 DEF StageCall, kernel, ghosts
  <2>2. PICK label \in {"blkid", "status", "map"} :
            pc' = [pc EXCEPT ![<<n, v>>] = label] /\ (label = "map" => v \notin Exclusive)
    BY <1>1, Zenon DEF StageCall, Goto, GotoOn
  <2>3. Types'
    <3>1. label \in Label
      BY <2>2, Zenon DEF Label
    <3>2. QED
      BY Zenon, <1>0, <2>1, <2>2, <3>1 DEF Types
  <2>4. \A m \in Node, w \in Vol : <<m, w>> # <<n, v>> => pc'[<<m, w>>] = pc[<<m, w>>]
    BY ZenonT(30), <1>0, <2>2, Pairs DEF Types
  <2>5. pc'[<<n, v>>] = label
    BY Zenon, <1>0, <2>2, Pairs DEF Types
  <2>6. Placed'
    <3> SUFFICES ASSUME NEW m \in Node, NEW w \in Vol, pc'[<<m, w>>] \in Taking
                 PROVE  home'[w] = m
      BY Zenon DEF Placed
    <3>1. CASE w # v
      <4>1. pc'[<<m, w>>] = pc[<<m, w>>]
        BY <2>4, <3>1, Pairs, Zenon
      <4>2. home[w] = m
        BY Zenon, <1>0, <4>1 DEF Placed
      <4>3. QED
        BY Zenon, <1>0, <2>1, <3>1, <4>2 DEF Types
    <3>2. CASE w = v /\ m # n
      <4>1. home[v] = m
        BY <1>0, <2>4, <3>2, Pairs DEF Placed
      <4>2. QED
        BY ZenonT(30), <2>1, <3>2, <4>1, Pairs
    <3>3. CASE w = v /\ m = n
      BY Zenon, <1>0, <2>1, <3>3 DEF Types
    <3>4. QED
      BY Zenon, <3>1, <3>2, <3>3
  <2>7. ASSUME NEW w \in Exclusive PROVE Guarded(w)'
    <3>1. w \in Vol
      BY Pairs, Zenon
    <3>2. Live(w)' = Live(w)
      BY Zenon, <2>1, <3>1, SameLive
    <3>3. \A m \in Node : pc'[<<m, w>>] \in {"fence", "map"} => pc[<<m, w>>] = pc'[<<m, w>>]
      BY <2>2, <2>4, <2>5, <3>1, Zenon
    <3>4. QED
      BY <1>0, <2>1, <3>2, <3>3, Zenon DEF Guarded
  <2>8. QED
    BY Zenon, <2>3, <2>6, <2>7 DEF NodeInv
<1>2. CASE StageStatus(n, v)
  <2>1. UNCHANGED <<kmap, dead, fenced, revived, expired, home>> /\ pc[<<n, v>>] = "status"
          /\ seen' = [seen EXCEPT ![<<n, v>>] = Watchers(v)]
          /\ pc' = [pc EXCEPT ![<<n, v>>] = IF Watchers(v) = {} THEN "map" ELSE "fence"]
    BY Zenon, <1>2 DEF StageStatus, Goto, kernel, ghosts, kubelet
  <2>2. Types'
    <3>1. Watchers(v) \in SUBSET Slot
      BY Zenon DEF Watchers
    <3>2. seen' \in [Path -> SUBSET Slot]
      BY Zenon, <1>0, <2>1, <3>1 DEF Types
    <3>3. pc' \in [Path -> Label]
      <4>1. (IF Watchers(v) = {} THEN "map" ELSE "fence") \in Label
        BY Zenon DEF Label
      <4>2. QED
        BY Zenon, <1>0, <2>1, <4>1 DEF Types
    <3>4. QED
      BY Zenon, <1>0, <2>1, <3>2, <3>3 DEF Types
  <2>3. \A m \in Node, w \in Vol : <<m, w>> # <<n, v>> =>
            pc'[<<m, w>>] = pc[<<m, w>>] /\ seen'[<<m, w>>] = seen[<<m, w>>]
    BY <1>0, <2>1, Pairs DEF Types
  <2>4. /\ pc'[<<n, v>>] = IF Watchers(v) = {} THEN "map" ELSE "fence"
        /\ seen'[<<n, v>>] = Watchers(v)
    BY Zenon, <1>0, <2>1, Pairs DEF Types
  <2>5. Placed'
    <3>1. home[v] = n
      BY Zenon, <1>0, <2>1 DEF Placed, Taking
    <3>2. QED
      BY <1>0, <2>1, <2>3, <3>1, Pairs DEF Placed
  <2>6. ASSUME NEW w \in Exclusive PROVE Guarded(w)'
    <3>1. w \in Vol
      BY Pairs, Zenon
    <3>2. Live(w)' = Live(w) /\ Live(v) \subseteq Watchers(v)
      BY <2>1, <3>1, SameLive, Zenon DEF Live, Watchers
    <3>3. Guarded(w)
      BY Zenon, <1>0
    <3>4. \A x, y \in Live(w)' : x[1] = y[1]
      BY Zenon, <3>2, <3>3 DEF Guarded
    <3>5. ASSUME NEW m \in Node
          PROVE  /\ pc'[<<m, w>>] = "fence" => Live(w)' \subseteq seen'[<<m, w>>]
                 /\ pc'[<<m, w>>] = "map" => Live(w)' = {}
      <4>1. CASE <<m, w>> = <<n, v>>
        <5>1. m = n /\ w = v
          BY Zenon, <3>1, <4>1, Pairs
        <5>2. QED
          BY <2>4, <3>2, <5>1, Zenon
      <4>2. CASE <<m, w>> # <<n, v>>
        BY Zenon, <2>3, <3>1, <3>2, <3>3, <4>2 DEF Guarded
      <4>3. QED
        BY Zenon, <4>1, <4>2
    <3>6. QED
      BY Zenon, <3>4, <3>5 DEF Guarded
  <2>7. QED
    BY Zenon, <2>2, <2>5, <2>6 DEF NodeInv
<1>3. CASE StageFence(n, v)
  <2>1. UNCHANGED <<kmap, dead, revived, expired, home>> /\ pc[<<n, v>>] = "fence"
    BY Zenon, <1>3 DEF StageFence, ghosts, kubelet
  <2>2. CASE seen[<<n, v>>] = {} /\ UNCHANGED <<fenced, seen>> /\ Goto(n, v, "map")
    <3>1. pc' = [pc EXCEPT ![<<n, v>>] = "map"]
      BY Zenon, <2>2 DEF Goto
    <3>2. Types'
      <4>1. "map" \in Label
        BY Zenon DEF Label
      <4>2. QED
        BY Zenon, <1>0, <2>1, <2>2, <3>1, <4>1 DEF Types
    <3>3. \A m \in Node, w \in Vol : <<m, w>> # <<n, v>> => pc'[<<m, w>>] = pc[<<m, w>>]
      BY <1>0, <3>1, Pairs DEF Types
    <3>4. Placed'
      <4>1. home[v] = n
        BY <1>0, <2>1, Zenon DEF Placed, Taking
      <4>2. QED
        BY <1>0, <2>1, <3>3, <4>1, Pairs DEF Placed
    <3>5. ASSUME NEW w \in Exclusive PROVE Guarded(w)'
      <4>1. w \in Vol
        BY Pairs, Zenon
      <4>2. Live(w)' = Live(w) /\ seen' = seen
        BY Zenon, <2>1, <2>2, <4>1, SameLive
      <4>3. Guarded(w)
        BY Zenon, <1>0
      <4>4. CASE w = v
        <5>1. Live(w) = {}
          BY <2>1, <2>2, <4>3, <4>4, Zenon DEF Guarded
        <5>2. QED
          BY Zenon, <4>2, <5>1 DEF Guarded
      <4>5. CASE w # v
        <5>1. \A m \in Node : pc'[<<m, w>>] = pc[<<m, w>>]
          BY <3>3, <4>1, <4>5, Pairs, Zenon
        <5>2. QED
          BY Zenon, <4>2, <4>3, <5>1 DEF Guarded
      <4>6. QED
        BY Zenon, <4>4, <4>5
    <3>6. QED
      BY Zenon, <3>2, <3>4, <3>5 DEF NodeInv
  <2>3. ASSUME NEW x \in seen[<<n, v>>], fenced' = fenced \cup {x},
               seen' = [seen EXCEPT ![<<n, v>>] = seen[<<n, v>>] \ {x}], UNCHANGED pc
        PROVE  NodeInv'
    <3>1. seen' \in [Path -> SUBSET Slot]
      BY <1>0, <2>3, Pairs, Zenon DEF Types
    <3>2. Types'
      BY Zenon, <1>0, <2>1, <2>3, <3>1 DEF Types
    <3>3. \A w \in Vol : Live(w)' = Live(w) \ {x}
      BY <2>1, <2>3, Zenon DEF Live
    <3>4. \A m \in Node, w \in Vol : seen[<<m, w>>] \ {x} \subseteq seen'[<<m, w>>]
      <4>1. ASSUME NEW m \in Node, NEW w \in Vol
            PROVE  seen[<<m, w>>] \ {x} \subseteq seen'[<<m, w>>]
        <5>1. CASE <<m, w>> = <<n, v>>
          BY Zenon, <1>0, <2>3, <5>1, Pairs DEF Types
        <5>2. CASE <<m, w>> # <<n, v>>
          BY ZenonT(30), <1>0, <2>3, <5>2, Pairs DEF Types
        <5>3. QED
          BY Zenon, <5>1, <5>2
      <4>2. QED
        BY Zenon, <4>1
    <3>5. \A m \in Node, w \in Vol : Live(w)' \cap seen[<<m, w>>] \subseteq seen'[<<m, w>>]
      BY <3>3, <3>4, Zenon
    <3>6. \A w \in Exclusive : Live(w)' \subseteq Live(w)
      BY <3>3, Pairs
    <3>7. QED
      BY Zenon, <2>1, <2>3, <3>2, <3>5, <3>6, Retreat
  <2>4. QED
    BY Zenon, <1>3, <2>2, <2>3 DEF StageFence
<1>4. CASE StageMap(n, v)
  <2>1. UNCHANGED <<dead, fenced, revived, expired, seen, home>> /\ pc[<<n, v>>] = "map"
    BY Zenon, <1>4 DEF StageMap, ghosts, kubelet
  <2>2. CASE Goto(n, v, "idle") /\ UNCHANGED kmap
    <3>1. "idle" \in Label \ Taking
      BY Zenon DEF Label, Taking
    <3>2. QED
      BY Zenon, <2>1, <2>2, <3>1, GoesOn DEF Goto
  <2>3. ASSUME NEW d \in Dev, ~Mapped(n, d), kmap' = [kmap EXCEPT ![<<n, d>>] = v],
               GotoOn(n, v, d, "record")
        PROVE  NodeInv'
    <3>1. pc' = [pc EXCEPT ![<<n, v>>] = "record"]
      BY Zenon, <2>3 DEF GotoOn
    <3>2. Types'
      <4>1. "record" \in Label
        BY Zenon DEF Label
      <4>2. pc' \in [Path -> Label]
        BY Zenon, <1>0, <3>1, <4>1 DEF Types
      <4>3. kmap' \in [Slot -> Vol \cup {None}]
        BY Zenon, <1>0, <2>3 DEF Types
      <4>4. QED
        BY Zenon, <1>0, <2>1, <4>2, <4>3 DEF Types
    <3>3. \A m \in Node, w \in Vol : <<m, w>> # <<n, v>> => pc'[<<m, w>>] = pc[<<m, w>>]
      BY <1>0, <3>1, Pairs DEF Types
    <3>4. pc'[<<n, v>>] = "record"
      BY <1>0, <3>1, Pairs, Zenon DEF Types
    <3>5. Placed'
      BY <1>0, <2>1, <3>3, <3>4, Zenon DEF Placed, Taking
    <3>6. \A w \in Vol \ {v} : Live(w)' \subseteq Live(w)
      BY <1>0, <2>1, <2>3, Pairs DEF Live, Types
    <3>7. Live(v)' \subseteq Live(v) \cup {<<n, d>>}
      BY <1>0, <2>1, <2>3, Pairs DEF Live, Types
    <3>8. ASSUME NEW w \in Exclusive PROVE Guarded(w)'
      <4>1. w \in Vol /\ Guarded(w)
        BY <1>0, Pairs, Zenon
      <4>2. CASE w = v
        <5>1. Live(v) = {}
          BY Zenon, <2>1, <4>1, <4>2 DEF Guarded
        <5>2. \A x, y \in Live(v)' : x[1] = y[1]
          BY <3>7, <5>1, Zenon
        <5>3. \A m \in Node : m # n => home[v] # m
          BY Zenon, <1>0, <2>1 DEF Placed, Taking
        <5>4. \A m \in Node : pc'[<<m, v>>] \notin Taking
          BY <1>0, <3>3, <3>4, <5>3, Pairs, ZenonT(30) DEF Placed, Taking
        <5>5. \A m \in Node : pc'[<<m, v>>] # "fence" /\ pc'[<<m, v>>] # "map"
          BY <5>4, Zenon DEF Taking
        <5>6. QED
          BY Zenon, <4>2, <5>2, <5>5 DEF Guarded
      <4>3. CASE w # v
        <5>1. \A m \in Node : pc'[<<m, w>>] = pc[<<m, w>>]
          BY <3>3, <4>1, <4>3, Pairs, Zenon
        <5>2. Live(w)' \subseteq Live(w) /\ seen' = seen
          BY Zenon, <2>1, <3>6, <4>1, <4>3
        <5>3. QED
          BY <4>1, <5>1, <5>2, Zenon DEF Guarded
      <4>4. QED
        BY Zenon, <4>2, <4>3
    <3>9. QED
      BY Zenon, <3>2, <3>5, <3>8 DEF NodeInv
  <2>4. QED
    BY Zenon, <1>4, <2>2, <2>3 DEF StageMap
<1>5. QED
  BY Zenon, <1>1, <1>2, <1>3, <1>4

\* The rest of NodeStage, NodeUnstage, NodePublish and NodeUnpublish.
LEMMA HandlersGoOn ==
    ASSUME NodeInv, NEW n \in Node, NEW v \in Vol,
           \/ StageRecord(n, v) \/ (\E fails \in BOOLEAN : StageBlkid(n, v, fails))
           \/ StageMkfs(n, v)
           \/ StageMount(n, v) \/ UnstageStep(n, v) \/ PublishStep(n, v)
    PROVE  NodeInv'
<1>0. Types
  BY Zenon DEF NodeInv
<1>1. {"blkid", "mkfs", "blind", "mount", "idle", "umount", "unmap", "clear", "bind",
       "bindro", "remount"} \subseteq Label \ Taking
  BY Zenon DEF Label, Taking
<1>2. CASE \/ StageRecord(n, v) \/ (\E fails \in BOOLEAN : StageBlkid(n, v, fails))
           \/ StageMkfs(n, v) \/ StageMount(n, v)
  <2>1. UNCHANGED <<kmap, dead, fenced, revived, expired, seen, home>>
    BY Zenon, <1>2 DEF StageRecord, StageBlkid, StageMkfs, StageMount, kernel,
       ghosts, kubelet
  <2>2. \E label \in {"blkid", "mkfs", "blind", "mount", "idle"} : Goto(n, v, label)
    BY Zenon, <1>2 DEF StageRecord, StageBlkid, StageMkfs, StageMount
  <2>3. PICK label \in {"blkid", "mkfs", "blind", "mount", "idle"} :
            pc' = [pc EXCEPT ![<<n, v>>] = label]
    BY Zenon, <2>2 DEF Goto
  <2>4. label \in Label \ Taking
    BY <1>1, Zenon
  <2>5. QED
    BY Zenon, <2>1, <2>3, <2>4, GoesOn
<1>3. CASE UnstageCall(n, v)
  <2>1. UNCHANGED <<kmap, dead, fenced, revived, expired, seen, home>>
    BY Zenon, <1>3 DEF UnstageCall, kernel, ghosts
  <2>2. pc' = [pc EXCEPT ![<<n, v>>] = "umount"]
    BY Zenon, <1>3 DEF UnstageCall, GotoOn
  <2>3. QED
    BY Zenon, <1>1, <2>1, <2>2, GoesOn
<1>4. ASSUME NEW S, NEW label \in Label \ Taking, Release(S),
             pc' = [pc EXCEPT ![<<n, v>>] = label], UNCHANGED home
      PROVE  NodeInv'
  <2>1. pc' \in [Path -> Label]
    BY Zenon, <1>0, <1>4 DEF Types
  <2>2. \A p \in Path : pc'[p] \in Taking => pc'[p] = pc[p]
    BY <1>0, <1>4, Pairs DEF Types
  <2>3. QED
    BY Zenon, <1>4, <2>1, <2>2, Releases
<1>5. CASE UnstageUmount(n, v)
  <2>1. pc' = [pc EXCEPT ![<<n, v>>] = "unmap"] /\ UNCHANGED home
    BY Zenon, <1>5 DEF UnstageUmount, Goto, kubelet
  <2>2. \E S : Release(S)
    BY Zenon, <1>5 DEF UnstageUmount
  <2>3. QED
    BY Zenon, <1>1, <1>4, <2>1, <2>2
<1>6. ASSUME NEW fails \in BOOLEAN, UnstageUnmap(n, v, fails) PROVE NodeInv'
  <2>1. (\E S : Release(S)) /\ UNCHANGED home
    BY Zenon, <1>6 DEF UnstageUnmap, kubelet
  <2>2. \E label \in {"idle", "clear"} : Goto(n, v, label)
    BY Zenon, <1>6 DEF UnstageUnmap
  <2>3. PICK label \in {"idle", "clear"} : pc' = [pc EXCEPT ![<<n, v>>] = label]
    BY Zenon, <2>2 DEF Goto
  <2>4. label \in Label \ Taking
    BY <1>1, Zenon
  <2>5. QED
    BY Zenon, <1>4, <2>1, <2>3, <2>4
<1>7. CASE UnstageClear(n, v)
  <2>1. UNCHANGED <<kmap, dead, fenced, revived, expired, seen>>
          /\ pc' = [pc EXCEPT ![<<n, v>>] = "idle"] /\ pc[<<n, v>>] = "clear"
          /\ home' = IF home[v] = n THEN [home EXCEPT ![v] = None] ELSE home
    BY Zenon, <1>7 DEF UnstageClear, Goto, kernel, ghosts
  <2>2. Types'
    <3>1. pc' \in [Path -> Label]
      BY Zenon, <1>0, <1>1, <2>1 DEF Types
    <3>2. home' \in [Vol -> Node \cup {None}]
      BY Zenon, <1>0, <2>1 DEF Types
    <3>3. QED
      BY Zenon, <1>0, <2>1, <3>1, <3>2 DEF Types
  <2>3. \A m \in Node, w \in Vol : pc'[<<m, w>>] \in Taking =>
            pc'[<<m, w>>] = pc[<<m, w>>] /\ <<m, w>> # <<n, v>>
    BY <1>0, <1>1, <2>1, Pairs DEF Types
  <2>4. \A m \in Node, w \in Vol : pc'[<<m, w>>] \in Taking => home'[w] = home[w]
    <3> SUFFICES ASSUME NEW m \in Node, NEW w \in Vol, pc'[<<m, w>>] \in Taking
                 PROVE  home'[w] = home[w]
      OBVIOUS
    <3>1. home[w] = m
      BY Zenon, <2>3 DEF NodeInv, Placed
    <3>2. w # v \/ home[v] # n
      BY <2>3, <3>1, Zenon
    <3>3. QED
      BY Zenon, <1>0, <2>1, <3>2 DEF Types
  <2>5. \A w \in Vol : Live(w)' = Live(w)
    BY Zenon, <2>1, SameLive
  <2>6. \A w \in Exclusive : Live(w)' \subseteq Live(w)
    BY <2>5, Pairs, Zenon
  <2>7. QED
    BY Zenon, <2>1, <2>2, <2>3, <2>4, <2>6, Retreat
<1>8. CASE PublishStep(n, v)
  <2>1. UNCHANGED <<kmap, dead, fenced, revived, expired, seen, home>>
    BY Zenon, <1>8 DEF PublishStep, PublishCall, PublishBind, PublishRemount,
       Unpublish, PodWrite, kernel, ghosts, kubelet, handler
  <2>2. UNCHANGED pc \/ \E label \in {"bind", "bindro", "remount", "idle"} :
                            Goto(n, v, label)
    BY Zenon, <1>8 DEF PublishStep, PublishCall, PublishBind, PublishRemount,
       Unpublish, PodWrite, handler
  <2>3. CASE UNCHANGED pc
    <3>1. Types' /\ \A w \in Vol : Live(w)' = Live(w)
      BY Zenon, <1>0, <2>1, <2>3, SameLive DEF Types
    <3>2. \A w \in Exclusive : Live(w)' \subseteq Live(w)
      BY <3>1, Pairs, Zenon
    <3>3. QED
      BY Zenon, <2>1, <2>3, <3>1, <3>2, Retreat
  <2>4. CASE \E label \in {"bind", "bindro", "remount", "idle"} : Goto(n, v, label)
    <3>1. PICK label \in {"bind", "bindro", "remount", "idle"} :
              pc' = [pc EXCEPT ![<<n, v>>] = label]
      BY Zenon, <2>4 DEF Goto
    <3>2. label \in Label \ Taking
      BY <1>1, Zenon
    <3>3. QED
      BY Zenon, <2>1, <3>1, <3>2, GoesOn
  <2>5. QED
    BY Zenon, <2>2, <2>3, <2>4
<1>9. QED
  BY Zenon, <1>2, <1>3, <1>5, <1>6, <1>7, <1>8 DEF UnstageStep

\* Handlers end; the healer gives a device a new client, which is a revived one;
\* a restarted plugin loses its rbd-nbd devices, a rebooted node all of them; the
\* orchestrator gives a volume up on a node when no call runs there; a client whose
\* blocklist entry expires is no live one.
LEMMA FaultsRetreat ==
    ASSUME NodeInv,
           \/ \E n \in Node, v \in Vol : Interrupt(n, v)
           \/ \E n \in Node : \/ HealScan(n) \/ HealDrop(n) \/ Restart(n) \/ Reboot(n)
                               \/ \E r \in pending[n] : HealCheck(n, r)
           \/ \E v \in Vol : Failover(v)
           \/ \E x \in Slot : FenceExpires(x)
    PROVE  NodeInv'
<1>0. Types
  BY Zenon DEF NodeInv
<1>1. "idle" \in Label /\ "idle" \notin Taking
  BY Zenon DEF Label, Taking
<1>2. ASSUME NEW n \in Node, NEW v \in Vol, Interrupt(n, v) PROVE NodeInv'
  <2>1. UNCHANGED <<kmap, dead, fenced, revived, expired, home>>
          /\ seen' = [seen EXCEPT ![<<n, v>>] = {}]
          /\ pc' = [p \in Path |-> IF p \in {<<n, v>>} THEN "idle" ELSE pc[p]]
    BY Zenon, <1>2 DEF Interrupt, Stop, kernel, kubelet
  <2>2. Types'
    <3>1. pc' \in [Path -> Label]
      BY Zenon, <1>0, <1>1, <2>1 DEF Types
    <3>2. seen' \in [Path -> SUBSET Slot]
      <4>1. {} \in SUBSET Slot
        OBVIOUS
      <4>2. QED
        BY Zenon, <1>0, <2>1, <4>1 DEF Types
    <3>3. QED
      BY Zenon, <1>0, <2>1, <3>1, <3>2 DEF Types
  <2>3. \A w \in Vol : Live(w)' = Live(w)
    BY Zenon, <2>1, SameLive
  <2>4. \A w \in Exclusive : Live(w)' \subseteq Live(w)
    BY <2>3, Pairs, Zenon
  <2>5. \A p \in Path : pc'[p] \in Taking => pc'[p] = pc[p] /\ p # <<n, v>>
    BY Zenon, <1>1, <2>1
  <2>6. \A p \in Path : pc'[p] \in Taking => seen'[p] = seen[p]
    BY Zenon, <1>0, <2>1, <2>5 DEF Types
  <2>7. QED
    BY Zenon, <2>1, <2>2, <2>4, <2>5, <2>6, Pairs, Retreat
<1>3. ASSUME UNCHANGED <<kmap, dead, fenced, revived, expired, pc, seen, home>> PROVE NodeInv'
  <2>1. Types' /\ \A w \in Vol : Live(w)' = Live(w)
    BY Zenon, <1>0, <1>3, SameLive DEF Types
  <2>2. \A w \in Exclusive : Live(w)' \subseteq Live(w)
    BY <2>1, Pairs, Zenon
  <2>3. QED
    BY Zenon, <1>3, <2>1, <2>2, Retreat
<1>4. ASSUME NEW n \in Node, HealScan(n) \/ HealDrop(n) PROVE NodeInv'
  BY Zenon, <1>3, <1>4 DEF HealScan, HealDrop, kernel, handler, kubelet, ghosts
<1>5. ASSUME NEW n \in Node, NEW r \in pending[n], HealCheck(n, r) PROVE NodeInv'
  <2>1. UNCHANGED <<kmap, expired, pc, seen, home>>
    BY Zenon, <1>5 DEF HealCheck, handler, kubelet
  <2>2. PICK x : \/ UNCHANGED <<dead, fenced, revived>>
                 \/ fenced' = fenced \ {x} /\ dead' = dead \ {x} /\ revived' = revived \cup {x}
    BY Zenon, <1>5 DEF HealCheck
  <2>3. Types'
    BY Zenon, <1>0, <2>1 DEF Types
  <2>4. \A w \in Vol : Live(w)' \subseteq Live(w)
    BY <2>1, <2>2, Zenon DEF Live
  <2>5. \A w \in Exclusive : Live(w)' \subseteq Live(w)
    BY <2>4, Pairs, Zenon
  <2>6. QED
    BY Zenon, <2>1, <2>3, <2>5, Retreat
<1>6. ASSUME NEW n \in Node, Restart(n) PROVE NodeInv'
  <2>1. PICK down, held :
            /\ kmap' = [x \in Slot |-> IF x \in down \ held THEN None ELSE kmap[x]]
            /\ dead' = dead \cup held
            /\ fenced' = fenced \ (down \ held)
            /\ revived' = revived \ down /\ expired' = expired \ down
            /\ seen' = [p \in Path |-> IF p[1] = n THEN {} ELSE seen[p] \ down]
    BY Zenon, <1>6 DEF Restart
  <2>2. pc' = [p \in Path |-> IF p \in {n} \X Vol THEN "idle" ELSE pc[p]]
          /\ UNCHANGED home
    BY Zenon, <1>6 DEF Restart, Stop, kubelet
  <2>3. Types'
    <3>1. pc' \in [Path -> Label]
      BY Zenon, <1>0, <1>1, <2>2 DEF Types
    <3>2. seen' \in [Path -> SUBSET Slot]
      BY <1>0, <2>1, Zenon DEF Types
    <3>3. kmap' \in [Slot -> Vol \cup {None}]
      BY Zenon, <1>0, <2>1 DEF Types
    <3>4. QED
      BY Zenon, <1>0, <2>2, <3>1, <3>2, <3>3 DEF Types
  <2>4. \A w \in Vol : Live(w)' \subseteq Live(w) \ down
    <3>1. \A x \in Slot : kmap'[x] = IF x \in down \ held THEN None ELSE kmap[x]
      BY Zenon, <2>1
    <3>2. QED
      BY <2>1, <3>1, Pairs, Zenon DEF Live
  <2>5. \A w \in Exclusive : Live(w)' \subseteq Live(w)
    BY <2>4, Pairs, Zenon
  <2>6. \A m \in Node, w \in Vol : pc'[<<m, w>>] \in Taking =>
            pc'[<<m, w>>] = pc[<<m, w>>] /\ m # n
    <3>1. \A m \in Node, w \in Vol : <<m, w>> \in {n} \X Vol <=> m = n
      OBVIOUS
    <3>2. QED
      BY Zenon, <1>1, <2>2, <3>1, Pairs
  <2>7. \A m \in Node, w \in Vol : m # n => seen'[<<m, w>>] = seen[<<m, w>>] \ down
    BY <2>1, Pairs, Zenon
  <2>8. \A m \in Node, w \in Vol :
            m # n => Live(w)' \cap seen[<<m, w>>] \subseteq seen'[<<m, w>>]
    BY Zenon, <2>4, <2>7
  <2>9. QED
    BY Zenon, <2>2, <2>3, <2>5, <2>6, <2>8, Retreat
<1>7. ASSUME NEW n \in Node, Reboot(n) PROVE NodeInv'
  <2>1. pc' = [p \in Path |-> IF p[1] = n THEN "idle" ELSE pc[p]]
          /\ UNCHANGED home /\ Release({n} \X Dev)
    BY Zenon, <1>7 DEF Reboot
  <2>2. pc' \in [Path -> Label]
    BY Zenon, <1>0, <1>1, <2>1 DEF Types
  <2>3. \A p \in Path : pc'[p] \in Taking => pc'[p] = pc[p]
    BY Zenon, <1>1, <2>1
  <2>4. QED
    BY Zenon, <2>1, <2>2, <2>3, Releases
<1>8. ASSUME NEW v \in Vol, Failover(v) PROVE NodeInv'
  <2>1. UNCHANGED <<kmap, dead, fenced, revived, expired, pc, seen>> /\ home[v] # None
          /\ pc[<<home[v], v>>] = "idle" /\ home' = [home EXCEPT ![v] = None]
    BY Zenon, <1>8 DEF Failover, kernel, handler, ghosts
  <2>2. Types'
    BY Zenon, <1>0, <2>1 DEF Types
  <2>3. \A m \in Node, w \in Vol : pc[<<m, w>>] \in Taking => home'[w] = home[w]
    <3> SUFFICES ASSUME NEW m \in Node, NEW w \in Vol, pc[<<m, w>>] \in Taking
                 PROVE  home'[w] = home[w]
      OBVIOUS
    <3>1. home[w] = m
      BY Zenon DEF NodeInv, Placed
    <3>2. w # v
      BY Zenon, <1>1, <2>1, <3>1
    <3>3. QED
      BY Zenon, <1>0, <2>1, <3>2 DEF Types
  <2>4. \A w \in Vol : Live(w)' = Live(w)
    BY Zenon, <2>1, SameLive
  <2>5. \A w \in Exclusive : Live(w)' \subseteq Live(w)
    BY <2>4, Pairs, Zenon
  <2>6. QED
    BY Zenon, <2>1, <2>2, <2>3, <2>5, Retreat
<1>9. ASSUME NEW x, FenceExpires(x) PROVE NodeInv'
  <2>1. /\ UNCHANGED <<kmap, dead, revived, pc, seen, home>>
        /\ fenced' = fenced \ {x} /\ expired' = expired \cup {x}
    BY Zenon, <1>9 DEF FenceExpires, handler, kubelet
  <2>2. Types'
    BY Zenon, <1>0, <2>1 DEF Types
  <2>3. \A w \in Vol : Live(w)' \subseteq Live(w)
    BY <2>1, Zenon DEF Live
  <2>4. \A w \in Exclusive : Live(w)' \subseteq Live(w)
    BY <2>3, Pairs, Zenon
  <2>5. QED
    BY Zenon, <2>1, <2>2, <2>4, Retreat
<1>10. QED
  BY Zenon, <1>2, <1>4, <1>5, <1>6, <1>7, <1>8, <1>9

\* Every step of every handler, of the healer and of the faults keeps it.
LEMMA NodeStep == NodeInv /\ [Next]_vars => NodeInv'
<1> SUFFICES ASSUME NodeInv, [Next]_vars PROVE NodeInv'
  OBVIOUS
<1>1. CASE UNCHANGED vars
  <2>1. UNCHANGED <<kmap, dead, fenced, revived, expired, pc, seen, home>>
    BY Zenon, <1>1 DEF vars, kernel, handler, kubelet, ghosts
  <2>2. Types' /\ \A w \in Vol : Live(w)' = Live(w)
    BY Zenon, <2>1, SameLive DEF NodeInv, Types
  <2>3. \A w \in Exclusive : Live(w)' \subseteq Live(w)
    BY <2>2, Pairs, Zenon
  <2>4. QED
    BY Zenon, <2>1, <2>2, <2>3, Retreat
<1>2. ASSUME NEW n \in Node, NEW v \in Vol,
             StageStep(n, v) \/ UnstageStep(n, v) \/ PublishStep(n, v)
      PROVE  NodeInv'
  BY Zenon, <1>2, StageTakes, HandlersGoOn DEF StageStep
<1>3. QED
  BY Zenon, <1>1, <1>2, FaultsRetreat DEF Next

\* No step of the node plugins, their healers or the orchestrator leads out of the
\* invariant.
THEOREM NodeInductive == Spec => []NodeInv
  BY NodeStart, NodeStep, PTL DEF Spec

-----------------------------------------------------------------------------
(* What NodeUnstage frees *)

\* The device a staging path keeps track of: the one just mapped, which is not yet
\* recorded, or the recorded one; NodeStage looks for one before it maps, and
\* NodeUnstage clears the record when there is none.
Tracks(p, d) ==
    /\ p \in touched /\ pc[p] \notin Taking \cup {"clear"}
    /\ IF pc[p] = "record" THEN work[p] = d ELSE record[p] = d

Tracked(n, v) ==
    /\ \A d \in Dev : kmap[<<n, d>>] = v => <<n, v>> \in lapsed \/ Tracks(<<n, v>>, d)
    /\ pc[<<n, v>>] \in {"umount", "unmap"} =>
           record[<<n, v>>] \in {None, work[<<n, v>>]}
    /\ pc[<<n, v>>] \in Taking \cup {"record"} => <<n, v>> \in touched

DevOrNone == Dev \cup {None}

Files == /\ record \in [Path -> DevOrNone] /\ work \in [Path -> DevOrNone]
         /\ mount \in [Path -> DevOrNone]

TrackInv == Types /\ Files /\ \A n \in Node, v \in Vol : Tracked(n, v)

\* A staging path whose handler and record a step leaves alone.
LEMMA OthersTracked ==
    ASSUME NEW n \in Node, NEW v \in Vol, Tracked(n, v),
           pc'[<<n, v>>] = pc[<<n, v>>], work'[<<n, v>>] = work[<<n, v>>],
           record'[<<n, v>>] = record[<<n, v>>],
           <<n, v>> \in lapsed => <<n, v>> \in lapsed',
           <<n, v>> \in touched => <<n, v>> \in touched',
           \A d \in Dev : kmap'[<<n, d>>] = v => kmap[<<n, d>>] = v
    PROVE  Tracked(n, v)'
  BY Zenon DEF Tracked, Tracks

\* A handler goes on without touching record or devices.
LEMMA HandlerTracked ==
    ASSUME NEW n \in Node, NEW v \in Vol, Tracked(n, v),
           pc[<<n, v>>] \notin Taking \cup {"record", "clear"},
           pc'[<<n, v>>] \notin Taking \cup {"record", "clear"},
           record'[<<n, v>>] = record[<<n, v>>],
           pc'[<<n, v>>] \in {"umount", "unmap"} =>
               record[<<n, v>>] \in {None, work'[<<n, v>>]},
           <<n, v>> \in lapsed => <<n, v>> \in lapsed',
           <<n, v>> \in touched => <<n, v>> \in touched',
           \A d \in Dev : kmap'[<<n, d>>] = v => kmap[<<n, d>>] = v
    PROVE  Tracked(n, v)'
  BY Zenon DEF Tracked, Tracks

LEMMA Labels ==
    /\ "idle" \in Label /\ "status" \in Label /\ "fence" \in Label /\ "map" \in Label
    /\ "record" \in Label /\ "blkid" \in Label /\ "mkfs" \in Label /\ "blind" \in Label
    /\ "mount" \in Label
    /\ "umount" \in Label /\ "unmap" \in Label /\ "clear" \in Label
    /\ "bind" \in Label /\ "bindro" \in Label /\ "remount" \in Label
  BY Zenon DEF Label

\* One path's handler makes a step and the others stay where they are.
Moved(n, v, label) ==
    /\ pc'[<<n, v>>] = label /\ work' \in [Path -> DevOrNone]
    /\ \A m \in Node, w \in Vol : <<m, w>> # <<n, v>> =>
           pc'[<<m, w>>] = pc[<<m, w>>] /\ work'[<<m, w>>] = work[<<m, w>>]

LEMMA WentOn ==
    ASSUME Types, Files, NEW n \in Node, NEW v \in Vol, NEW label \in Label,
           NEW d \in DevOrNone, GotoOn(n, v, d, label)
    PROVE  Moved(n, v, label) /\ work'[<<n, v>>] = d
<1>1. pc \in [Path -> Label] /\ work \in [Path -> DevOrNone] /\ <<n, v>> \in Path
  BY Pairs, Zenon DEF Types, Files
<1>2. pc' = [pc EXCEPT ![<<n, v>>] = label] /\ work' = [work EXCEPT ![<<n, v>>] = d]
  BY Zenon DEF GotoOn
<1>3. \A q \in Path : q # <<n, v>> => pc'[q] = pc[q] /\ work'[q] = work[q]
  BY <1>1, <1>2, Zenon
<1>. QED  BY <1>1, <1>2, <1>3, Pairs DEF Moved

LEMMA Went ==
    ASSUME Types, Files, NEW n \in Node, NEW v \in Vol, NEW label \in Label,
           Goto(n, v, label)
    PROVE  Moved(n, v, label) /\ (label # "idle" => work' = work)
<1>1. CASE label = "idle"
  <2>1. GotoOn(n, v, None, label)
    BY <1>1, Zenon DEF Goto, GotoOn
  <2>2. None \in DevOrNone
    BY Zenon DEF DevOrNone
  <2>. QED  BY <1>1, <2>1, <2>2, WentOn, Zenon
<1>2. CASE label # "idle"
  <2>1. work' = work /\ work = [work EXCEPT ![<<n, v>>] = work[<<n, v>>]]
    BY <1>2, Pairs, ZenonT(30) DEF Goto, Files
  <2>2. GotoOn(n, v, work[<<n, v>>], label)
    BY <2>1, Zenon DEF Goto, GotoOn
  <2>3. work[<<n, v>>] \in DevOrNone
    BY Pairs, Zenon DEF Files
  <2>. QED  BY <2>1, <2>2, <2>3, WentOn, Zenon
<1>. QED  BY <1>1, <1>2, Zenon

LEMMA PathTracked ==
    ASSUME TrackInv, Types', Files', NEW n \in Node, NEW v \in Vol, Tracked(n, v)',
           \A m \in Node, w \in Vol : <<m, w>> # <<n, v>> =>
               /\ pc'[<<m, w>>] = pc[<<m, w>>] /\ work'[<<m, w>>] = work[<<m, w>>]
               /\ record'[<<m, w>>] = record[<<m, w>>]
               /\ \A d \in Dev : kmap'[<<m, d>>] = w => kmap[<<m, d>>] = w,
           lapsed \subseteq lapsed', touched \subseteq touched' \cup {<<n, v>>}
    PROVE  TrackInv'
<1>1. ASSUME NEW m \in Node, NEW w \in Vol, <<m, w>> # <<n, v>> PROVE Tracked(m, w)'
  <2>1. /\ <<m, w>> \in lapsed => <<m, w>> \in lapsed'
        /\ <<m, w>> \in touched => <<m, w>> \in touched'
    BY <1>1, Zenon
  <2>2. Tracked(m, w)
    BY Zenon DEF TrackInv
  <2>. QED  BY <1>1, <2>1, <2>2, OthersTracked, Zenon
<1>2. \A m \in Node, w \in Vol : <<m, w>> = <<n, v>> => Tracked(m, w)'
  BY Pairs, Zenon
<1>. QED  BY <1>1, <1>2, Zenon DEF TrackInv

\* NodeStage finds no device of the volume before it maps one.
LEMMA StageTracks ==
    ASSUME TrackInv, NodeInv', NEW n \in Node, NEW v \in Vol, StageStep(n, v)
    PROVE  TrackInv'
<1>0. /\ Types /\ Files /\ Types' /\ Tracked(n, v)
      /\ work[<<n, v>>] \in DevOrNone /\ record[<<n, v>>] \in DevOrNone
  BY Pairs, Zenon DEF TrackInv, NodeInv, Files
<1>1. CASE StageCall(n, v)
  <2>1. PICK label \in {"blkid", "status", "map"} :
           Moved(n, v, label) /\ (label # "blkid" => ~ Mapped(n, record[<<n, v>>]))
    <3>1. CASE Mapped(n, record[<<n, v>>])
      BY <1>0, <1>1, <3>1, WentOn, Labels, Zenon DEF StageCall
    <3>2. CASE ~ Mapped(n, record[<<n, v>>])
      BY <1>0, <1>1, <3>2, Went, Labels, Zenon DEF StageCall
    <3>. QED  BY <3>1, <3>2, Zenon
  <2>2. /\ pc[<<n, v>>] = "idle" /\ touched' = touched \cup {<<n, v>>}
        /\ UNCHANGED <<kmap, mount, record, lapsed>>
    BY <1>1, Zenon DEF StageCall, kernel, ghosts
  <2>5. Files'
    BY <1>0, <2>1, <2>2, Zenon DEF Files, Moved
  <2>6. \A e \in Dev : kmap[<<n, e>>] = v => <<n, v>> \in lapsed \/ record[<<n, v>>] = e
    BY <1>0, <2>2, Zenon DEF Tracked, Tracks
  <2>7. label # "blkid" => \A e \in Dev : kmap[<<n, e>>] = v => record[<<n, v>>] # e
    BY <2>1, Shape, Zenon DEF Mapped
  <2>8. Tracked(n, v)'
    BY <2>1, <2>2, <2>6, <2>7, Zenon DEF Tracked, Tracks, Taking, Moved
  <2>. QED  BY <1>0, <2>1, <2>2, <2>5, <2>8, PathTracked, Zenon DEF Moved
<1>2. CASE StageStatus(n, v) \/ StageFence(n, v)
  <2>1. /\ pc[<<n, v>>] \in {"status", "fence"}
        /\ UNCHANGED <<kmap, mount, record, lapsed, touched>>
    BY <1>2, Zenon DEF StageStatus, StageFence, kernel, ghosts, kubelet
  <2>2. UNCHANGED <<pc, work>> \/ \E label \in {"fence", "map"} : Goto(n, v, label)
    BY <1>2, Zenon DEF StageStatus, StageFence
  <2>3. PICK label \in Taking : Moved(n, v, label)
    <3>1. CASE UNCHANGED <<pc, work>>
      BY <1>0, <2>1, <3>1, Zenon DEF Taking, Moved, Files
    <3>2. CASE \E label \in {"fence", "map"} : Goto(n, v, label)
      BY <1>0, <3>2, Labels, Went, Zenon DEF Taking
    <3>. QED  BY <2>2, <3>1, <3>2, Zenon
  <2>5. Files'
    BY <1>0, <2>1, <2>3, Zenon DEF Files, Moved
  <2>7. Tracked(n, v)'
    BY <1>0, <2>1, <2>3, Zenon DEF Tracked, Tracks, Taking, Moved
  <2>. QED  BY <1>0, <2>1, <2>3, <2>5, <2>7, PathTracked, Zenon DEF Moved
<1>3. CASE StageMap(n, v)
  <2>1. /\ pc[<<n, v>>] = "map" /\ UNCHANGED <<mount, record, lapsed, touched>>
    BY <1>3, Zenon DEF StageMap, ghosts, kubelet
  <2>2. \A e \in Dev : kmap[<<n, e>>] = v => <<n, v>> \in lapsed
    BY <1>0, <2>1, Zenon DEF Tracked, Tracks, Taking
  <2>3. <<n, v>> \in touched
    BY <1>0, <2>1, Zenon DEF Tracked, Taking
  <2>4. CASE Goto(n, v, "idle") /\ UNCHANGED kmap
    <3>3. Moved(n, v, "idle")
      BY <1>0, <2>4, Labels, Went, Zenon
    <3>4. Files'
      BY <1>0, <2>1, <3>3, Zenon DEF Files, Moved
    <3>5. Tracked(n, v)'
      BY <2>1, <2>2, <2>4, <3>3, Zenon DEF Tracked, Taking, Moved
    <3>. QED  BY <1>0, <2>1, <2>4, <3>3, <3>4, <3>5, PathTracked, Zenon DEF Moved
  <2>5. ASSUME NEW d \in Dev, kmap' = [kmap EXCEPT ![<<n, d>>] = v],
               GotoOn(n, v, d, "record")
        PROVE  TrackInv'
    <3>1. d \in DevOrNone
      BY Zenon DEF DevOrNone
    <3>3. Moved(n, v, "record") /\ work'[<<n, v>>] = d
      BY <1>0, <2>5, <3>1, Labels, WentOn, Zenon
    <3>4. Files'
      BY <1>0, <2>1, <3>3, Zenon DEF Files, Moved
    <3>5. \A x \in Slot : kmap'[x] = IF x = <<n, d>> THEN v ELSE kmap[x]
      BY <1>0, <2>5, Zenon DEF Types
    <3>6. Tracked(n, v)'
      <4>1. \A e \in Dev : kmap'[<<n, e>>] = v => e = d \/ kmap[<<n, e>>] = v
        BY <3>5, Pairs, Zenon
      <4>. QED  BY <2>1, <2>2, <2>3, <3>3, <4>1, Zenon DEF Tracked, Tracks, Taking, Moved
    <3>7. \A m \in Node, w \in Vol : <<m, w>> # <<n, v>> =>
             \A e \in Dev : kmap'[<<m, e>>] = w => kmap[<<m, e>>] = w
      BY <3>5, Pairs, Zenon
    <3>. QED  BY <1>0, <2>1, <3>3, <3>4, <3>6, <3>7, PathTracked DEF Moved
  <2>. QED  BY <1>3, <2>4, <2>5, Zenon DEF StageMap
<1>4. CASE StageRecord(n, v)
  <2>1. /\ pc[<<n, v>>] = "record" /\ UNCHANGED <<kmap, mount, lapsed, touched>>
        /\ record' = [record EXCEPT ![<<n, v>>] = work[<<n, v>>]] /\ Goto(n, v, "blkid")
    BY <1>4, Zenon DEF StageRecord, kernel, ghosts, kubelet
  <2>4. Moved(n, v, "blkid") /\ work' = work
    BY <1>0, <2>1, Labels, Went, Zenon
  <2>5. /\ record' \in [Path -> DevOrNone] /\ record'[<<n, v>>] = work[<<n, v>>]
        /\ \A m \in Node, w \in Vol : <<m, w>> # <<n, v>> => record'[<<m, w>>] = record[<<m, w>>]
    BY <1>0, <2>1, Pairs, ZenonT(30) DEF Files
  <2>6. Files'
    BY <1>0, <2>1, <2>4, <2>5, Zenon DEF Files
  <2>7. Tracked(n, v)'
    BY <1>0, <2>1, <2>4, <2>5, Zenon DEF Tracked, Tracks, Taking, Moved
  <2>. QED  BY <1>0, <2>1, <2>4, <2>5, <2>6, <2>7, PathTracked DEF Moved
<1>5. CASE \/ \E fails \in BOOLEAN : StageBlkid(n, v, fails)
           \/ StageMkfs(n, v) \/ StageMount(n, v)
  <2>1. /\ pc[<<n, v>>] \in {"blkid", "mkfs", "blind", "mount"}
        /\ UNCHANGED <<kmap, record, lapsed, touched>>
    BY <1>5, Zenon DEF StageBlkid, StageMkfs, StageMount, kernel, ghosts, kubelet
  <2>2. \E label \in {"mkfs", "blind", "mount", "idle"} : Goto(n, v, label)
    BY <1>5, Zenon DEF StageBlkid, StageMkfs, StageMount
  <2>3. PICK label \in {"mkfs", "blind", "mount", "idle"} : Moved(n, v, label)
    BY <1>0, <2>2, Labels, Went, Zenon
  <2>6. mount' \in [Path -> DevOrNone]
    <3>1. mount' = mount \/ mount' = [mount EXCEPT ![<<n, v>>] = work[<<n, v>>]]
      BY <1>5, Zenon DEF StageBlkid, StageMkfs, StageMount, kernel
    <3>. QED  BY <1>0, <3>1, Pairs, ZenonT(30) DEF Files
  <2>7. Files'
    BY <1>0, <2>1, <2>3, <2>6, Zenon DEF Files, Moved
  <2>8. Tracked(n, v)'
    BY <1>0, <2>1, <2>3, HandlerTracked, Zenon DEF Taking, Moved
  <2>. QED  BY <1>0, <2>1, <2>3, <2>7, <2>8, PathTracked, Zenon DEF Moved
<1>. QED  BY <1>1, <1>2, <1>3, <1>4, <1>5, Zenon DEF StageStep

\* Devices lose their map; no other one becomes a volume's.
LEMMA ReleaseShrinks ==
    ASSUME Types, NEW S, Release(S)
    PROVE  /\ \A n \in Node, w \in Vol, d \in Dev : kmap'[<<n, d>>] = w =>
                  kmap[<<n, d>>] = w /\ <<n, d>> \notin S
<1>1. \A x \in Slot : kmap'[x] = IF x \in S THEN None ELSE kmap[x]
  BY Zenon DEF Release
<1>. QED  BY <1>1, Pairs

\* NodeUnstage works on the recorded device, and clears the record only once that
\* device is unmapped.
LEMMA UnstageTracks ==
    ASSUME TrackInv, NodeInv', NEW n \in Node, NEW v \in Vol, UnstageStep(n, v)
    PROVE  TrackInv'
<1>0. /\ Types /\ Files /\ Types' /\ Tracked(n, v)
      /\ work[<<n, v>>] \in DevOrNone /\ record[<<n, v>>] \in DevOrNone
      /\ mount[<<n, v>>] \in DevOrNone
  BY Pairs, Zenon DEF TrackInv, NodeInv, Files
<1>1. CASE UnstageCall(n, v)
  <2>1. /\ pc[<<n, v>>] = "idle" /\ UNCHANGED <<kmap, mount, record, lapsed, touched>>
        /\ GotoOn(n, v, IF record[<<n, v>>] # None THEN record[<<n, v>>]
                                                  ELSE mount[<<n, v>>], "umount")
    BY <1>1, Zenon DEF UnstageCall, kernel, ghosts
  <2>2. PICK d \in DevOrNone : GotoOn(n, v, d, "umount") /\ record[<<n, v>>] \in {None, d}
    BY <1>0, <2>1, Zenon
  <2>3. Moved(n, v, "umount") /\ work'[<<n, v>>] = d
    BY <1>0, <2>2, Labels, WentOn, Zenon
  <2>4. Files'
    BY <1>0, <2>1, <2>3, Zenon DEF Files, Moved
  <2>5. Tracked(n, v)'
    BY <1>0, <2>1, <2>2, <2>3, HandlerTracked, Zenon DEF Taking, Moved
  <2>. QED  BY <1>0, <2>1, <2>3, <2>4, <2>5, PathTracked, Zenon DEF Moved
<1>2. CASE UnstageUmount(n, v)
  <2>1. /\ pc[<<n, v>>] = "umount" /\ UNCHANGED <<record, lapsed, touched>>
        /\ mount' = [mount EXCEPT ![<<n, v>>] = None] /\ Goto(n, v, "unmap")
    BY <1>2, Zenon DEF UnstageUmount, kubelet
  <2>2. \A m \in Node, w \in Vol, d \in Dev : kmap'[<<m, d>>] = w => kmap[<<m, d>>] = w
    <3>1. PICK S : Release(S)
      BY <1>2, Zenon DEF UnstageUmount
    <3>. QED  BY <1>0, <3>1, ReleaseShrinks, Zenon
  <2>3. Moved(n, v, "unmap") /\ work' = work
    BY <1>0, <2>1, Labels, Went, Zenon
  <2>4. Files'
    <3>1. mount' \in [Path -> DevOrNone]
      BY <1>0, <2>1, Pairs, Zenon DEF Files, DevOrNone
    <3>. QED  BY <1>0, <2>1, <2>3, <3>1, Zenon DEF Files
  <2>5. Tracked(n, v)'
    <3>1. record[<<n, v>>] \in {None, work[<<n, v>>]}
      BY <1>0, <2>1, Zenon DEF Tracked
    <3>. QED  BY <1>0, <2>1, <2>2, <2>3, <3>1, HandlerTracked, Zenon DEF Taking, Moved
  <2>. QED  BY <1>0, <2>1, <2>2, <2>3, <2>4, <2>5, PathTracked DEF Moved
<1>3. ASSUME NEW fails \in BOOLEAN, UnstageUnmap(n, v, fails) PROVE TrackInv'
  <2>1. PICK freed \in BOOLEAN :
           /\ Goto(n, v, IF Mapped(n, work[<<n, v>>]) /\ ~freed THEN "idle" ELSE "clear")
           /\ Release(IF freed THEN {<<n, work[<<n, v>>]>>} ELSE {})
    BY <1>3, Zenon DEF UnstageUnmap
  <2>2. /\ pc[<<n, v>>] = "unmap" /\ UNCHANGED <<mount, record, lapsed, touched>>
    BY <1>3, Zenon DEF UnstageUnmap, kubelet
  <2>3. \A m \in Node, w \in Vol, d \in Dev : kmap'[<<m, d>>] = w =>
           kmap[<<m, d>>] = w /\ (freed => <<m, d>> # <<n, work[<<n, v>>]>>)
    <3>1. CASE freed
      <4>1. Release({<<n, work[<<n, v>>]>>})
        BY <2>1, <3>1, Zenon
      <4>. QED  BY <1>0, <4>1, ReleaseShrinks
    <3>2. CASE ~freed
      <4>1. Release({})
        BY <2>1, <3>2, Zenon
      <4>. QED  BY <1>0, <3>2, <4>1, ReleaseShrinks, Zenon
    <3>. QED  BY <3>1, <3>2, Zenon
  <2>4. record[<<n, v>>] \in {None, work[<<n, v>>]}
    BY <1>0, <2>2, Zenon DEF Tracked
  <2>5. \A d \in Dev : kmap[<<n, d>>] = v => <<n, v>> \in lapsed \/ record[<<n, v>>] = d
    BY <1>0, <2>2, Zenon DEF Tracked, Tracks
  <2>6. PICK label \in {"idle", "clear"} :
           Moved(n, v, label) /\ (label = "clear" => freed \/ ~Mapped(n, work[<<n, v>>]))
    <3>1. CASE Mapped(n, work[<<n, v>>]) /\ ~freed
      BY <1>0, <2>1, <3>1, Labels, Went, Zenon
    <3>2. CASE ~(Mapped(n, work[<<n, v>>]) /\ ~freed)
      BY <1>0, <2>1, <3>2, Labels, Went, Zenon
    <3>. QED  BY <3>1, <3>2, Zenon
  <2>7. Files'
    BY <1>0, <2>2, <2>6, Zenon DEF Files, Moved
  <2>8. Tracked(n, v)'
    <3>1. CASE label = "idle"
      BY <1>0, <2>2, <2>3, <2>4, <2>6, <3>1, HandlerTracked, Zenon DEF Taking, Moved
    <3>2. CASE label = "clear"
      <4>1. ASSUME NEW d \in Dev, kmap'[<<n, d>>] = v PROVE <<n, v>> \in lapsed
        <5>1. kmap[<<n, d>>] = v /\ (freed => d # work[<<n, v>>])
          BY <2>3, <4>1, Zenon
        <5>2. d # None /\ Mapped(n, d)
          BY <5>1, Shape, Zenon DEF Mapped
        <5>. QED  BY <2>4, <2>5, <2>6, <3>2, <5>1, <5>2, Zenon
      <4>. QED  BY <2>2, <2>6, <3>2, <4>1, Zenon DEF Tracked, Taking, Moved
    <3>. QED  BY <3>1, <3>2, Zenon
  <2>. QED  BY <1>0, <2>2, <2>3, <2>6, <2>7, <2>8, PathTracked DEF Moved
<1>4. CASE UnstageClear(n, v)
  <2>1. /\ pc[<<n, v>>] = "clear" /\ UNCHANGED <<kmap, mount, lapsed>>
        /\ record' = [record EXCEPT ![<<n, v>>] = None]
        /\ touched' = touched \ {<<n, v>>} /\ Goto(n, v, "idle")
    BY <1>4, Zenon DEF UnstageClear, kernel, ghosts
  <2>2. Moved(n, v, "idle")
    BY <1>0, <2>1, Labels, Went, Zenon
  <2>3. /\ record' \in [Path -> DevOrNone]
        /\ \A m \in Node, w \in Vol : <<m, w>> # <<n, v>> => record'[<<m, w>>] = record[<<m, w>>]
    BY <1>0, <2>1, Pairs DEF Files, DevOrNone
  <2>4. Files'
    BY <1>0, <2>1, <2>2, <2>3, Zenon DEF Files, Moved
  <2>5. Tracked(n, v)'
    BY <1>0, <2>1, <2>2, Zenon DEF Tracked, Tracks, Taking, Moved
  <2>6. touched \subseteq touched' \cup {<<n, v>>}
    BY <2>1, Zenon
  <2>. QED  BY <1>0, <2>1, <2>2, <2>3, <2>4, <2>5, <2>6, PathTracked DEF Moved
<1>. QED  BY <1>1, <1>2, <1>3, <1>4, Zenon DEF UnstageStep

\* A step that only the pods, the healer or the orchestrator notice.
LEMMA NothingTracked ==
    ASSUME TrackInv, Types', UNCHANGED <<kmap, pc, work, mount, record, lapsed, touched>>
    PROVE  TrackInv'
<1>1. Files'
  BY Zenon DEF TrackInv, Files
<1>2. \A n \in Node, v \in Vol : Tracked(n, v)'
  BY OthersTracked, Zenon DEF TrackInv
<1>. QED  BY <1>1, <1>2, Zenon DEF TrackInv

LEMMA PublishTracks ==
    ASSUME TrackInv, NodeInv', NEW n \in Node, NEW v \in Vol, PublishStep(n, v)
    PROVE  TrackInv'
<1>0. Types /\ Files /\ Types' /\ Tracked(n, v)
  BY Zenon DEF TrackInv, NodeInv
<1>1. UNCHANGED <<kmap, mount, record, lapsed, touched>>
  BY Zenon DEF PublishStep, PublishCall, PublishBind, PublishRemount,
       Unpublish, PodWrite, kernel, ghosts, kubelet
<1>2. \/ UNCHANGED <<pc, work>>
      \/ /\ pc[<<n, v>>] \in {"idle", "bind", "bindro", "remount"}
         /\ \E label \in {"bind", "bindro", "remount", "idle"} : Goto(n, v, label)
  BY Zenon DEF PublishStep, PublishCall, PublishBind, PublishRemount,
       Unpublish, PodWrite, handler
<1>3. CASE UNCHANGED <<pc, work>>
  BY <1>0, <1>1, <1>3, NothingTracked, Zenon
<1>4. ASSUME pc[<<n, v>>] \in {"idle", "bind", "bindro", "remount"},
             NEW label \in {"bind", "bindro", "remount", "idle"}, Goto(n, v, label)
      PROVE  TrackInv'
  <2>1. Moved(n, v, label)
    BY <1>0, <1>4, Labels, Went, Zenon
  <2>2. Files'
    BY <1>0, <1>1, <2>1, Zenon DEF Files, Moved
  <2>3. Tracked(n, v)'
    BY <1>0, <1>1, <1>4, <2>1, HandlerTracked, Zenon DEF Taking, Moved
  <2>. QED  BY <1>0, <1>1, <2>1, <2>2, <2>3, PathTracked, Zenon DEF Moved
<1>. QED  BY <1>2, <1>3, <1>4, Zenon

\* Handlers die, and what they had mapped and not recorded counts as lost; a
\* restarted plugin loses devices; a rebooted node loses all of them; the healer
\* removes the record of a mapped device only with the path counted as lost.
LEMMA FaultsTrack ==
    ASSUME TrackInv, NodeInv',
           \/ \E n \in Node, v \in Vol : Interrupt(n, v)
           \/ \E n \in Node : \/ HealScan(n) \/ HealDrop(n) \/ Restart(n) \/ Reboot(n)
                               \/ \E r \in pending[n] : HealCheck(n, r)
           \/ \E v \in Vol : Failover(v)
           \/ \E x \in Slot : FenceExpires(x)
    PROVE  TrackInv'
<1>0. Types /\ Files /\ Types' /\ (\A m \in Node, w \in Vol : Tracked(m, w))
  BY Zenon DEF TrackInv, NodeInv
<1>1. ASSUME NEW S, Stop(S), UNCHANGED <<record, mount, touched>>,
             \A m \in Node, w \in Vol, d \in Dev : kmap'[<<m, d>>] = w => kmap[<<m, d>>] = w
      PROVE  TrackInv'
  <2>1. \A p \in Path : /\ pc'[p] = IF p \in S THEN "idle" ELSE pc[p]
                        /\ work'[p] = IF p \in S THEN None ELSE work[p]
    BY <1>1, Zenon DEF Stop
  <2>2. /\ lapsed \subseteq lapsed'
        /\ \A p \in Path : p \in S /\ pc[p] = "record" => p \in lapsed'
    BY <1>1, Zenon DEF Stop
  <2>3. Files'
    <3>1. work' \in [Path -> DevOrNone]
      BY <1>0, <1>1, Zenon DEF Files, DevOrNone, Stop
    <3>. QED  BY <1>0, <1>1, <3>1, Zenon DEF Files
  <2>4. ASSUME NEW m \in Node, NEW w \in Vol PROVE Tracked(m, w)'
    <3>1. /\ Tracked(m, w) /\ <<m, w>> \in Path
          /\ <<m, w>> \in lapsed => <<m, w>> \in lapsed'
      BY <1>0, <2>2, Pairs, Zenon
    <3>2. CASE <<m, w>> \in S
      <4>1. pc'[<<m, w>>] = "idle" /\ (pc[<<m, w>>] = "record" => <<m, w>> \in lapsed')
        BY <2>1, <2>2, <3>1, <3>2, Zenon
      <4>. QED  BY <1>1, <3>1, <4>1, ZenonT(30) DEF Tracked, Tracks, Taking
    <3>3. CASE <<m, w>> \notin S
      <4>1. pc'[<<m, w>>] = pc[<<m, w>>] /\ work'[<<m, w>>] = work[<<m, w>>]
        BY <2>1, <3>1, <3>3, Zenon
      <4>. QED  BY <1>1, <3>1, <4>1, OthersTracked, Zenon
    <3>. QED  BY <3>2, <3>3, Zenon
  <2>. QED  BY <1>0, <2>3, <2>4, Zenon DEF TrackInv
<1>2. ASSUME NEW n \in Node, NEW v \in Vol, Interrupt(n, v) PROVE TrackInv'
  <2>1. Stop({<<n, v>>}) /\ UNCHANGED <<kmap, record, mount, touched>>
    BY <1>2, Zenon DEF Interrupt, kernel, kubelet
  <2>. QED  BY <1>1, <2>1, Zenon
<1>3. ASSUME NEW n \in Node, Restart(n) PROVE TrackInv'
  <2>1. Stop({n} \X Vol) /\ UNCHANGED <<record, mount, touched>>
    BY <1>3, Zenon DEF Restart, kubelet
  <2>2. \E S : kmap' = [x \in Slot |-> IF x \in S THEN None ELSE kmap[x]]
    BY <1>3, Zenon DEF Restart
  <2>3. \A m \in Node, w \in Vol, d \in Dev : kmap'[<<m, d>>] = w => kmap[<<m, d>>] = w
    BY <2>2, Pairs
  <2>. QED  BY <1>1, <2>1, <2>3, Zenon
<1>4. ASSUME NEW n \in Node, Reboot(n) PROVE TrackInv'
  <2>0. record' = record /\ touched' = touched
    BY <1>4, Zenon DEF Reboot
  <2>1. /\ lapsed' = {p \in lapsed : p[1] # n}
        /\ \A p \in Path : /\ pc'[p] = IF p[1] = n THEN "idle" ELSE pc[p]
                           /\ work'[p] = IF p[1] = n THEN None ELSE work[p]
    BY <1>4, Zenon DEF Reboot
  <2>2. Files'
    BY <1>0, <1>4, Zenon DEF Files, DevOrNone, Reboot
  <2>3. \A m \in Node, w \in Vol, d \in Dev : kmap'[<<m, d>>] = w =>
           kmap[<<m, d>>] = w /\ m # n
    <3>1. Release({n} \X Dev)
      BY <1>4, Zenon DEF Reboot
    <3>. QED  BY <1>0, <3>1, ReleaseShrinks
  <2>4. ASSUME NEW m \in Node, NEW w \in Vol PROVE Tracked(m, w)'
    <3>1. Tracked(m, w) /\ <<m, w>> \in Path /\ <<m, w>>[1] = m
      BY <1>0, Pairs, Zenon
    <3>2. CASE m = n
      <4>1. pc'[<<m, w>>] = "idle" /\ \A d \in Dev : kmap'[<<m, d>>] # w
        BY <2>1, <2>3, <3>1, <3>2, Zenon
      <4>. QED  BY <4>1, Zenon DEF Tracked, Taking
    <3>3. CASE m # n
      <4>1. /\ pc'[<<m, w>>] = pc[<<m, w>>] /\ work'[<<m, w>>] = work[<<m, w>>]
            /\ <<m, w>> \in lapsed => <<m, w>> \in lapsed'
        BY <2>1, <3>1, <3>3, Zenon
      <4>2. /\ record'[<<m, w>>] = record[<<m, w>>]
            /\ <<m, w>> \in touched => <<m, w>> \in touched'
            /\ \A d \in Dev : kmap'[<<m, d>>] = w => kmap[<<m, d>>] = w
        BY <2>0, <2>3, Zenon
      <4>. QED  BY <3>1, <4>1, <4>2, OthersTracked, Zenon
    <3>. QED  BY <3>2, <3>3, Zenon
  <2>. QED  BY <1>0, <2>2, <2>4, Zenon DEF TrackInv
<1>5. ASSUME NEW n \in Node, HealDrop(n) PROVE TrackInv'
  <2>1. PICK v : /\ lapsed' = IF Mapped(n, record[<<n, v>>])
                               THEN lapsed \cup {<<n, v>>} ELSE lapsed
                 /\ record' = [record EXCEPT ![<<n, v>>] = None]
    BY <1>5, Zenon DEF HealDrop
  <2>2. UNCHANGED <<kmap, pc, work, mount, touched>>
    BY <1>5, Zenon DEF HealDrop, kernel, handler, kubelet
  <2>3. /\ record' \in [Path -> DevOrNone]
        /\ \A p \in Path : record'[p] = IF p = <<n, v>> THEN None ELSE record[p]
    BY <1>0, <2>1, Zenon DEF Files, DevOrNone
  <2>4. Files'
    BY <1>0, <2>2, <2>3, Zenon DEF Files
  <2>5. ASSUME NEW m \in Node, NEW w \in Vol PROVE Tracked(m, w)'
    <3>1. /\ Tracked(m, w) /\ <<m, w>> \in Path
          /\ <<m, w>> \in lapsed => <<m, w>> \in lapsed'
      BY <1>0, <2>1, Pairs, Zenon
    <3>2. CASE <<m, w>> = <<n, v>>
      <4>0. m = n /\ w = v
        BY <3>2, Zenon
      <4>1. record'[<<m, w>>] = None
        BY <2>3, <3>1, <3>2, Zenon
      <4>2. ASSUME NEW d \in Dev, kmap[<<m, d>>] = w, record[<<m, w>>] = d
            PROVE  <<m, w>> \in lapsed'
        <5>1. Mapped(n, record[<<n, v>>])
          BY <4>0, <4>2, Shape, Zenon DEF Mapped
        <5>. QED  BY <2>1, <3>2, <5>1, Zenon
      <4>. QED  BY <2>2, <3>1, <4>1, <4>2, Zenon DEF Tracked, Tracks
    <3>3. CASE <<m, w>> # <<n, v>>
      <4>1. record'[<<m, w>>] = record[<<m, w>>]
        BY <2>3, <3>1, <3>3, Zenon
      <4>. QED  BY <2>2, <3>1, <4>1, OthersTracked, Zenon
    <3>. QED  BY <3>2, <3>3, Zenon
  <2>. QED  BY <1>0, <2>4, <2>5, Zenon DEF TrackInv
<1>6. ASSUME \/ \E n \in Node : HealScan(n) \/ \E r \in pending[n] : HealCheck(n, r)
             \/ \E v \in Vol : Failover(v)
             \/ \E x \in Slot : FenceExpires(x)
      PROVE  TrackInv'
  <2>1. UNCHANGED <<kmap, pc, work, mount, record, lapsed, touched>>
    BY <1>6, ZenonT(30) DEF HealScan, HealCheck, Failover, FenceExpires, kernel, handler, kubelet, ghosts
  <2>. QED  BY <1>0, <2>1, NothingTracked, Zenon
<1>. QED  BY <1>2, <1>3, <1>4, <1>5, <1>6, Zenon

LEMMA TrackStart == Init => TrackInv
<1> SUFFICES ASSUME Init PROVE TrackInv
  OBVIOUS
<1>1. Types
  BY NodeStart, Zenon DEF NodeInv
<1>2. Files
  BY Zenon DEF Init, Files, DevOrNone
<1>3. ASSUME NEW n \in Node, NEW v \in Vol PROVE Tracked(n, v)
  BY Pairs, Zenon DEF Init, Tracked, Taking
<1>. QED  BY <1>1, <1>2, <1>3, Zenon DEF TrackInv

LEMMA TrackStep == TrackInv /\ NodeInv' /\ [Next]_vars => TrackInv'
<1> SUFFICES ASSUME TrackInv, NodeInv', [Next]_vars PROVE TrackInv'
  OBVIOUS
<1>1. CASE UNCHANGED vars
  <2>1. UNCHANGED <<kmap, pc, work, mount, record, lapsed, touched>>
    BY <1>1, Zenon DEF vars, kernel, handler, kubelet, ghosts
  <2>. QED  BY <2>1, NothingTracked, Zenon DEF NodeInv
<1>2. ASSUME NEW n \in Node, NEW v \in Vol,
             StageStep(n, v) \/ UnstageStep(n, v) \/ PublishStep(n, v)
      PROVE  TrackInv'
  BY <1>2, StageTracks, UnstageTracks, PublishTracks, Zenon
<1>. QED  BY <1>1, <1>2, FaultsTrack, Zenon DEF Next

\* Every mapped device stays on record, or its path counts as lost.
THEOREM TrackInductive == Spec => []TrackInv
  BY TrackStart, TrackStep, NodeInductive, PTL DEF Spec

\* NodeUnstage leaves no device of the volume behind, whatever the volumes that
\* share a node and the faults, lost records aside (NodeUnstage, clearDevice).
THEOREM UnstageLeavesNoDevice == Spec => []UnstageFrees
<1>1. TrackInv => UnstageFrees
  <2> SUFFICES ASSUME TrackInv, NEW p \in Path \ (touched \cup lapsed), NEW d \in Dev,
                      kmap[<<p[1], d>>] = p[2]
               PROVE  FALSE
    BY Zenon DEF UnstageFrees
  <2>1. PICK n \in Node, v \in Vol : p = <<n, v>>
    BY DEF Path
  <2>2. Tracked(n, v) /\ kmap[<<n, d>>] = v
    BY <2>1, Zenon DEF TrackInv
  <2>. QED  BY <2>1, <2>2, Zenon DEF Tracked, Tracks
<1>. QED  BY <1>1, TrackInductive, PTL

-----------------------------------------------------------------------------
(* What mkfs may erase *)

\* No node serves two volumes.
Apart == \A v, w \in Vol : v # w => Place[v] \cap Place[w] = {}

\* The commands of NodeStage.
Staging == Taking \cup {"record", "blkid", "mkfs", "blind", "mount"}

Contents == {"blank", "formatted", "data"}

\* A path that is staged belongs to the volume's node; what is or will be mounted
\* has a filesystem, and what blkid found blank stays so up to mkfs.
Safe(n, v) ==
    /\ pc[<<n, v>>] \in Staging => home[v] = n /\ n \in Place[v]
    /\ mount[<<n, v>>] # None => n \in Place[v] /\ fs[v] # "blank"
    /\ pc[<<n, v>>] = "mount" => fs[v] # "blank"
    /\ pc[<<n, v>>] = "mkfs" => fs[v] = "blank"

\* A device of a volume is on a node of the volume.
Disk(n, d) == \A v \in Vol : kmap[<<n, d>>] = v => n \in Place[v]

DataInv ==
    /\ Types /\ Files /\ fs \in [Vol -> Contents] /\ wiped = {}
    /\ (\A n \in Node, v \in Vol : Safe(n, v)) /\ (\A n \in Node, d \in Dev : Disk(n, d))

\* What a step does to a path it is not about: its handler stays or ends and its
\* mount stays or goes.
Quiet(n, v) ==
    /\ pc'[<<n, v>>] \in Staging => pc'[<<n, v>>] = pc[<<n, v>>] /\ home'[v] = home[v]
    /\ mount'[<<n, v>>] \in {None, mount[<<n, v>>]}

LEMMA QuietSafe ==
    ASSUME NEW n \in Node, NEW v \in Vol, Safe(n, v), Quiet(n, v), fs'[v] = fs[v]
    PROVE  Safe(n, v)'
<1>1. "mkfs" \in Staging /\ "mount" \in Staging
  BY Zenon DEF Staging
<1>. QED  BY <1>1, Zenon DEF Safe, Quiet

\* A step that maps no device of a volume anew.
LEMMA DataSafe ==
    ASSUME DataInv, Types', Files', fs' \in [Vol -> Contents], wiped' = {},
           \A n \in Node, v \in Vol : Safe(n, v)',
           \A n \in Node, w \in Vol, d \in Dev : kmap'[<<n, d>>] = w => kmap[<<n, d>>] = w
    PROVE  DataInv'
<1>1. ASSUME NEW n \in Node, NEW d \in Dev PROVE Disk(n, d)'
  BY Zenon DEF DataInv, Disk
<1>. QED  BY <1>1, Zenon DEF DataInv

\* On a node without a second volume, the device at work is the volume's own.
LEMMA OwnDevice ==
    ASSUME Apart, DataInv, NEW n \in Node, NEW v \in Vol, pc[<<n, v>>] \in Staging,
           Reachable(n, work[<<n, v>>])
    PROVE  kmap[<<n, work[<<n, v>>]>>] = v
<1>1. PICK d : d = work[<<n, v>>]
  BY Zenon
<1>2. d \in Dev /\ kmap[<<n, d>>] # None
  BY <1>1, Pairs, Zenon DEF Reachable, Mapped, DataInv, Files, DevOrNone
<1>3. PICK w \in Vol : w = kmap[<<n, d>>]
  BY <1>2, Pairs DEF DataInv, Types
<1>4. n \in Place[w] /\ n \in Place[v]
  BY <1>2, <1>3, Zenon DEF DataInv, Disk, Safe
<1>. QED  BY <1>1, <1>3, <1>4, Zenon DEF Apart

\* One path's handler makes a step that leaves devices, mounts and images alone.
LEMMA SamePath ==
    ASSUME DataInv, Types', Files', UNCHANGED <<kmap, mount, fs, wiped>>,
           NEW n \in Node, NEW v \in Vol, NEW label, Moved(n, v, label), Safe(n, v)',
           \A m \in Node, w \in Vol : <<m, w>> # <<n, v>> /\ pc[<<m, w>>] \in Staging
               => home'[w] = home[w]
    PROVE  DataInv'
<1>1. ASSUME NEW m \in Node, NEW w \in Vol, <<m, w>> # <<n, v>> PROVE Safe(m, w)'
  <2>1. Quiet(m, w)
    BY <1>1, Zenon DEF Quiet, Moved
  <2>2. Safe(m, w)
    BY Zenon DEF DataInv
  <2>. QED  BY <2>1, <2>2, QuietSafe, Zenon
<1>2. ASSUME NEW m \in Node, NEW w \in Vol PROVE Safe(m, w)'
  <2>1. CASE <<m, w>> = <<n, v>>
    BY <2>1, Pairs, Zenon
  <2>. QED  BY <1>1, <2>1, Zenon
<1>. QED  BY <1>2, DataSafe, Zenon DEF DataInv

\* NodeStage up to the recorded device.
LEMMA StageTakesData ==
    ASSUME DataInv, Types', Files', NEW n \in Node, NEW v \in Vol,
           \/ StageCall(n, v) \/ StageStatus(n, v) \/ StageFence(n, v)
           \/ StageRecord(n, v)
    PROVE  DataInv'
<1>0. /\ Types /\ Files /\ Safe(n, v)
      /\ work[<<n, v>>] \in DevOrNone /\ record[<<n, v>>] \in DevOrNone
  BY Pairs, Zenon DEF DataInv, Files
<1>1. CASE StageCall(n, v)
  <2>1. PICK label \in {"blkid", "status", "map"} : Moved(n, v, label)
    <3>1. CASE Mapped(n, record[<<n, v>>])
      BY <1>0, <1>1, <3>1, WentOn, Labels, Zenon DEF StageCall
    <3>2. CASE ~ Mapped(n, record[<<n, v>>])
      BY <1>0, <1>1, <3>2, Went, Labels, Zenon DEF StageCall
    <3>. QED  BY <3>1, <3>2, Zenon
  <2>2. /\ n \in Place[v] /\ home[v] \in {None, n} /\ home' = [home EXCEPT ![v] = n]
        /\ UNCHANGED <<kmap, mount, fs, wiped>>
    BY <1>1, Zenon DEF StageCall, kernel, ghosts
  <2>3. home'[v] = n /\ \A w \in Vol : w # v => home'[w] = home[w]
    BY <1>0, <2>2, Zenon DEF Types
  <2>4. Safe(n, v)'
    BY <1>0, <2>1, <2>2, <2>3, Zenon DEF Safe, Moved
  <2>5. ASSUME NEW m \in Node, NEW w \in Vol, <<m, w>> # <<n, v>>, pc[<<m, w>>] \in Staging
        PROVE  home'[w] = home[w]
    <3>1. home[w] = m
      BY <2>5, Zenon DEF DataInv, Safe
    <3>. QED  BY <2>2, <2>3, <2>5, <3>1, Pairs
  <2>. QED  BY <2>1, <2>2, <2>4, <2>5, SamePath
<1>2. CASE StageStatus(n, v) \/ StageFence(n, v)
  <2>1. /\ pc[<<n, v>>] \in {"status", "fence"}
        /\ UNCHANGED <<kmap, mount, fs, wiped, home>>
    BY <1>2, Zenon DEF StageStatus, StageFence, kernel, ghosts, kubelet
  <2>2. UNCHANGED <<pc, work>> \/ \E label \in {"fence", "map"} : Goto(n, v, label)
    BY <1>2, Zenon DEF StageStatus, StageFence
  <2>3. PICK label \in Taking : Moved(n, v, label)
    <3>1. CASE UNCHANGED <<pc, work>>
      BY <1>0, <2>1, <3>1, Zenon DEF Taking, Moved, Files
    <3>2. CASE \E label \in {"fence", "map"} : Goto(n, v, label)
      BY <1>0, <3>2, Labels, Went, Zenon DEF Taking
    <3>. QED  BY <2>2, <3>1, <3>2, Zenon
  <2>4. Safe(n, v)'
    BY <1>0, <2>1, <2>3, Zenon DEF Safe, Moved, Staging, Taking
  <2>. QED  BY <2>1, <2>3, <2>4, SamePath, Zenon
<1>3. CASE StageRecord(n, v)
  <2>1. /\ pc[<<n, v>>] = "record" /\ Goto(n, v, "blkid")
        /\ UNCHANGED <<kmap, mount, fs, wiped, home>>
    BY <1>3, Zenon DEF StageRecord, kernel, ghosts, kubelet
  <2>2. Moved(n, v, "blkid")
    BY <1>0, <2>1, Labels, Went, Zenon
  <2>3. Safe(n, v)'
    BY <1>0, <2>1, <2>2, Zenon DEF Safe, Moved, Staging
  <2>. QED  BY <2>1, <2>2, <2>3, SamePath, Zenon
<1>. QED  BY <1>1, <1>2, <1>3, Zenon

\* A free device becomes the volume's.
LEMMA StageMapData ==
    ASSUME DataInv, Types', Files', NEW n \in Node, NEW v \in Vol, StageMap(n, v)
    PROVE  DataInv'
<1>0. Types /\ Files /\ Safe(n, v) /\ fs \in [Vol -> Contents] /\ wiped = {}
  BY Zenon DEF DataInv
<1>1. pc[<<n, v>>] = "map" /\ UNCHANGED <<mount, fs, wiped, home>>
  BY Zenon DEF StageMap, ghosts, kubelet
<1>2. home[v] = n /\ n \in Place[v]
  BY <1>0, <1>1, Zenon DEF Safe, Staging, Taking
<1>3. CASE Goto(n, v, "idle") /\ UNCHANGED kmap
  <2>1. Moved(n, v, "idle")
    BY <1>0, <1>1, <1>3, Labels, Went, Zenon
  <2>2. Safe(n, v)'
    BY <1>0, <1>1, <2>1, Zenon DEF Safe, Moved, Staging, Taking
  <2>. QED  BY <1>1, <1>3, <2>1, <2>2, SamePath, Zenon
<1>4. ASSUME NEW d \in Dev, kmap' = [kmap EXCEPT ![<<n, d>>] = v],
             GotoOn(n, v, d, "record")
      PROVE  DataInv'
  <2>1. d \in DevOrNone
    BY Zenon DEF DevOrNone
  <2>2. Moved(n, v, "record")
    BY <1>0, <1>4, <2>1, Labels, WentOn, Zenon
  <2>3. Safe(n, v)'
    BY <1>0, <1>1, <1>2, <2>2, Zenon DEF Safe, Moved, Staging
  <2>4. \A x \in Slot : kmap'[x] = IF x = <<n, d>> THEN v ELSE kmap[x]
    BY <1>0, <1>4, Zenon DEF Types
  <2>5. ASSUME NEW m \in Node, NEW w \in Vol PROVE Safe(m, w)'
    <3>1. CASE <<m, w>> = <<n, v>>
      BY <2>3, <3>1, Pairs, Zenon
    <3>2. CASE <<m, w>> # <<n, v>>
      <4>1. Safe(m, w) /\ Quiet(m, w)
        BY <1>1, <2>2, <3>2, Zenon DEF DataInv, Quiet, Moved
      <4>. QED  BY <1>1, <4>1, QuietSafe, Zenon
    <3>. QED  BY <3>1, <3>2, Zenon
  <2>6. ASSUME NEW m \in Node, NEW e \in Dev PROVE Disk(m, e)'
    <3>1. Disk(m, e) /\ <<m, e>> \in Slot
      BY Pairs, Zenon DEF DataInv
    <3>2. \A w \in Vol : kmap'[<<m, e>>] = w => kmap[<<m, e>>] = w \/ (w = v /\ m = n)
      BY <2>4, <3>1, Zenon
    <3>. QED  BY <1>2, <3>1, <3>2, Zenon DEF Disk
  <2>. QED  BY <1>0, <1>1, <2>5, <2>6, Zenon DEF DataInv
<1>. QED  BY <1>3, <1>4, Zenon DEF StageMap

\* blkid finds the volume's filesystem or finds none; mkfs after a probe that answered
\* gets at a blank image only, and what is mounted has been found or made.
LEMMA StageFormatData ==
    ASSUME Apart, DataInv, Types', Files', NEW n \in Node, NEW v \in Vol,
           \/ \E fails \in BOOLEAN : StageBlkid(n, v, fails)
           \/ StageMkfs(n, v) \/ StageMount(n, v)
    PROVE  DataInv'
<1>0. /\ Types /\ Files /\ Safe(n, v) /\ wiped = {} /\ work[<<n, v>>] \in DevOrNone
      /\ fs \in [Vol -> Contents]
  BY Pairs, Zenon DEF DataInv, Files
<1>1. UNCHANGED <<kmap, home>>
  BY Zenon DEF StageBlkid, StageMkfs, StageMount, kernel, ghosts, kubelet
<1>2. pc[<<n, v>>] \in Staging /\ home[v] = n /\ n \in Place[v]
  <2>1. pc[<<n, v>>] \in {"blkid", "mkfs", "blind", "mount"}
    BY Zenon DEF StageBlkid, StageMkfs, StageMount
  <2>. QED  BY <1>0, <2>1, Zenon DEF Staging, Safe
<1>3. ASSUME NEW fails \in BOOLEAN, StageBlkid(n, v, fails) PROVE DataInv'
  <2>1. UNCHANGED <<mount, fs, wiped>>
    BY <1>3, Zenon DEF StageBlkid, kernel, ghosts
  <2>2. CASE fails \/ ~Reachable(n, work[<<n, v>>])
    <3>1. Goto(n, v, "blind")
      BY <1>3, <2>2, Zenon DEF StageBlkid
    <3>2. Moved(n, v, "blind")
      BY <1>0, <3>1, Labels, Went, Zenon
    <3>3. Safe(n, v)'
      BY <1>0, <1>1, <1>2, <2>1, <3>2, Zenon DEF Safe, Moved
    <3>. QED  BY <1>1, <2>1, <3>2, <3>3, SamePath, Zenon
  <2>3. CASE ~fails /\ Reachable(n, work[<<n, v>>])
    <3>1. PICK label \in {"mkfs", "mount"} :
             Goto(n, v, label) /\ (label = "mkfs" <=> fs[v] = "blank")
      <4>1. Content(n, work[<<n, v>>]) = fs[v]
        BY <1>2, <2>3, OwnDevice, Zenon DEF Content
      <4>. QED  BY <1>3, <2>3, <4>1, Zenon DEF StageBlkid
    <3>2. Moved(n, v, label)
      BY <1>0, <3>1, Labels, Went, Zenon
    <3>3. Safe(n, v)'
      BY <1>0, <1>1, <1>2, <2>1, <3>1, <3>2, Zenon DEF Safe, Moved
    <3>. QED  BY <1>1, <2>1, <3>2, <3>3, SamePath, Zenon
  <2>. QED  BY <2>2, <2>3, Zenon
<1>4. CASE StageMkfs(n, v)
  <2>1. pc[<<n, v>>] \in {"mkfs", "blind"} /\ UNCHANGED mount
    BY <1>4, Zenon DEF StageMkfs, kernel
  <2>2. CASE ~(Reachable(n, work[<<n, v>>]) /\ ~Busy(n, work[<<n, v>>]))
    <3>1. Goto(n, v, "idle") /\ UNCHANGED <<fs, wiped>>
      BY <1>4, <2>2, Zenon DEF StageMkfs
    <3>2. Moved(n, v, "idle")
      BY <1>0, <3>1, Labels, Went, Zenon
    <3>3. Safe(n, v)'
      BY <1>0, <2>1, <3>1, <3>2, Zenon DEF Safe, Moved, Staging, Taking
    <3>. QED  BY <1>1, <2>1, <3>1, <3>2, <3>3, SamePath, Zenon
  <2>3. CASE Reachable(n, work[<<n, v>>]) /\ ~Busy(n, work[<<n, v>>])
    <3>1. PICK i : /\ i = kmap[n, work[<<n, v>>]]
                   /\ fs' = [fs EXCEPT ![i] = "formatted"]
                   /\ wiped' = IF fs[i] = "data" /\ pc[<<n, v>>] = "mkfs"
                               THEN wiped \cup {i} ELSE wiped
                   /\ Goto(n, v, "mount")
      BY <1>4, <2>3, Zenon DEF StageMkfs
    <3>2. i = v /\ (pc[<<n, v>>] = "mkfs" => fs[v] = "blank")
      BY <1>0, <1>2, <2>3, <3>1, OwnDevice, Zenon DEF Safe
    <3>3. wiped' = {}
      BY <1>0, <3>1, <3>2, Zenon
    <3>4. /\ fs' \in [Vol -> Contents]
          /\ fs'[v] = "formatted" /\ \A w \in Vol : w # v => fs'[w] = fs[w]
      BY <1>0, <3>1, <3>2, Zenon DEF Contents
    <3>5. Moved(n, v, "mount")
      BY <1>0, <3>1, Labels, Went, Zenon
    <3>6. Safe(n, v)'
      BY <1>0, <1>1, <1>2, <2>1, <3>4, <3>5, Zenon DEF Safe, Moved
    <3>7. ASSUME NEW m \in Node, NEW w \in Vol, <<m, w>> # <<n, v>> PROVE Safe(m, w)'
      <4>1. Safe(m, w) /\ Quiet(m, w)
        BY <1>1, <2>1, <3>5, <3>7, Zenon DEF DataInv, Quiet, Moved
      <4>2. CASE w # v
        BY <3>4, <4>1, <4>2, QuietSafe, Zenon
      <4>3. CASE w = v
        <5>1. pc'[<<m, w>>] \notin Staging
          BY <1>2, <3>5, <3>7, <4>1, <4>3, Zenon DEF Moved, Safe
        <5>2. mount'[<<m, w>>] = mount[<<m, w>>] /\ fs'[w] # "blank"
          BY <2>1, <3>4, <4>3, Zenon
        <5>. QED  BY <4>1, <5>1, <5>2, Zenon DEF Safe, Staging
      <4>. QED  BY <4>2, <4>3, Zenon
    <3>8. ASSUME NEW m \in Node, NEW w \in Vol PROVE Safe(m, w)'
      <4>1. CASE <<m, w>> = <<n, v>>
        BY <3>6, <4>1, Pairs, Zenon
      <4>. QED  BY <3>7, <4>1, Zenon
    <3>. QED  BY <1>1, <3>3, <3>4, <3>8, DataSafe, Zenon
  <2>. QED  BY <2>2, <2>3, Zenon
<1>5. CASE StageMount(n, v)
  <2>1. pc[<<n, v>>] = "mount" /\ UNCHANGED <<fs, wiped>> /\ Goto(n, v, "idle")
    BY <1>5, Zenon DEF StageMount, ghosts
  <2>2. Moved(n, v, "idle") /\ fs[v] # "blank"
    BY <1>0, <2>1, Labels, Went, Zenon DEF Safe
  <2>3. \/ mount' = mount
        \/ mount[<<n, v>>] = None /\ mount' = [mount EXCEPT ![<<n, v>>] = work[<<n, v>>]]
    BY <1>5, Zenon DEF StageMount
  <2>4. \A m \in Node, w \in Vol : <<m, w>> # <<n, v>> => mount'[<<m, w>>] = mount[<<m, w>>]
    BY <1>0, <2>3, Pairs DEF Files
  <2>5. Safe(n, v)'
    BY <1>2, <2>1, <2>2, Zenon DEF Safe, Moved, Staging, Taking
  <2>6. ASSUME NEW m \in Node, NEW w \in Vol, <<m, w>> # <<n, v>> PROVE Safe(m, w)'
    <3>1. Quiet(m, w) /\ Safe(m, w)
      BY <1>1, <2>2, <2>4, <2>6, Zenon DEF Quiet, Moved, DataInv
    <3>. QED  BY <2>1, <3>1, QuietSafe, Zenon
  <2>7. ASSUME NEW m \in Node, NEW w \in Vol PROVE Safe(m, w)'
    <3>1. CASE <<m, w>> = <<n, v>>
      BY <2>5, <3>1, Pairs, Zenon
    <3>. QED  BY <2>6, <3>1, Zenon
  <2>. QED  BY <1>0, <1>1, <2>1, <2>7, DataSafe, Zenon
<1>. QED  BY <1>3, <1>4, <1>5, Zenon

\* NodeUnstage: the path is no longer staged, and devices are released.
LEMMA UnstageData ==
    ASSUME DataInv, Types', Files', NEW n \in Node, NEW v \in Vol, UnstageStep(n, v)
    PROVE  DataInv'
<1>0. /\ Types /\ Files /\ Safe(n, v) /\ wiped = {}
      /\ record[<<n, v>>] \in DevOrNone /\ mount[<<n, v>>] \in DevOrNone
      /\ fs \in [Vol -> Contents]
  BY Pairs, Zenon DEF DataInv, Files
<1>1. CASE UnstageCall(n, v)
  <2>1. /\ UNCHANGED <<kmap, mount, fs, wiped, home>>
        /\ GotoOn(n, v, IF record[<<n, v>>] # None THEN record[<<n, v>>]
                                                  ELSE mount[<<n, v>>], "umount")
    BY <1>1, Zenon DEF UnstageCall, kernel, ghosts
  <2>2. PICK d \in DevOrNone : GotoOn(n, v, d, "umount")
    BY <1>0, <2>1, Zenon
  <2>3. Moved(n, v, "umount")
    BY <1>0, <2>2, Labels, WentOn, Zenon
  <2>4. Safe(n, v)'
    BY <1>0, <2>1, <2>3, Zenon DEF Safe, Moved, Staging, Taking
  <2>. QED  BY <2>1, <2>3, <2>4, SamePath, Zenon
<1>2. ASSUME NEW label \in {"idle", "unmap", "clear"}, NEW S, Moved(n, v, label), Release(S),
             UNCHANGED <<fs, wiped, home>>,
             mount' = mount \/ mount' = [mount EXCEPT ![<<n, v>>] = None]
      PROVE  DataInv'
  <2>1. /\ mount'[<<n, v>>] \in {None, mount[<<n, v>>]}
        /\ \A m \in Node, w \in Vol : <<m, w>> # <<n, v>> => mount'[<<m, w>>] = mount[<<m, w>>]
    BY <1>0, <1>2, Pairs DEF Files
  <2>2. ASSUME NEW m \in Node, NEW w \in Vol PROVE Safe(m, w)'
    <3>1. CASE <<m, w>> = <<n, v>>
      <4>1. Safe(n, v)'
        BY <1>0, <1>2, <2>1, Zenon DEF Safe, Moved, Staging, Taking
      <4>. QED  BY <3>1, <4>1, Pairs, Zenon
    <3>2. CASE <<m, w>> # <<n, v>>
      <4>1. Safe(m, w) /\ Quiet(m, w)
        BY <1>2, <2>1, <3>2, Zenon DEF DataInv, Quiet, Moved
      <4>. QED  BY <1>2, <4>1, QuietSafe, Zenon
    <3>. QED  BY <3>1, <3>2, Zenon
  <2>3. \A m \in Node, w \in Vol, d \in Dev : kmap'[<<m, d>>] = w => kmap[<<m, d>>] = w
    BY <1>0, <1>2, ReleaseShrinks, Zenon
  <2>. QED  BY <1>0, <1>2, <2>2, <2>3, DataSafe, Zenon
<1>3. CASE UnstageUmount(n, v)
  <2>1. /\ Goto(n, v, "unmap") /\ UNCHANGED <<fs, wiped, home>>
        /\ mount' = [mount EXCEPT ![<<n, v>>] = None] /\ \E S : Release(S)
    BY <1>3, Zenon DEF UnstageUmount, kubelet
  <2>2. Moved(n, v, "unmap")
    BY <1>0, <2>1, Labels, Went, Zenon
  <2>. QED  BY <1>2, <2>1, <2>2, Zenon
<1>4. ASSUME NEW fails \in BOOLEAN, UnstageUnmap(n, v, fails) PROVE DataInv'
  <2>1. /\ \E S : Release(S)
        /\ Goto(n, v, "idle") \/ Goto(n, v, "clear")
        /\ UNCHANGED <<mount, fs, wiped, home>>
    BY <1>4, Zenon DEF UnstageUnmap, kubelet
  <2>2. PICK label \in {"idle", "clear"} : Moved(n, v, label)
    BY <1>0, <2>1, Labels, Went, Zenon
  <2>. QED  BY <1>2, <2>1, <2>2, Zenon
<1>5. CASE UnstageClear(n, v)
  <2>1. /\ UNCHANGED <<kmap, mount, fs, wiped>> /\ Goto(n, v, "idle")
        /\ home' = IF home[v] = n THEN [home EXCEPT ![v] = None] ELSE home
    BY <1>5, Zenon DEF UnstageClear, kernel, ghosts
  <2>2. Moved(n, v, "idle")
    BY <1>0, <2>1, Labels, Went, Zenon
  <2>3. Safe(n, v)'
    BY <1>0, <2>1, <2>2, Zenon DEF Safe, Moved, Staging, Taking
  <2>4. ASSUME NEW m \in Node, NEW w \in Vol, <<m, w>> # <<n, v>>, pc[<<m, w>>] \in Staging
        PROVE  home'[w] = home[w]
    <3>1. home[w] = m
      BY <2>4, Zenon DEF DataInv, Safe
    <3>. QED  BY <1>0, <2>1, <2>4, <3>1, Pairs DEF Types
  <2>. QED  BY <2>1, <2>2, <2>3, <2>4, SamePath
<1>. QED  BY <1>1, <1>3, <1>4, <1>5, Zenon DEF UnstageStep

\* What a pod writes, it writes to a mounted filesystem.
LEMMA PublishData ==
    ASSUME DataInv, Types', Files', NEW n \in Node, NEW v \in Vol, PublishStep(n, v)
    PROVE  DataInv'
<1>0. /\ Types /\ Files /\ Safe(n, v) /\ wiped = {} /\ fs \in [Vol -> Contents]
  BY Zenon DEF DataInv
<1>1. UNCHANGED <<kmap, mount, home, wiped>>
  BY Zenon DEF PublishStep, PublishCall, PublishBind, PublishRemount,
       Unpublish, PodWrite, kernel, ghosts, kubelet
<1>2. CASE PodWrite(n, v)
  <2>1. /\ UNCHANGED <<pc, work>> /\ fs' = [fs EXCEPT ![v] = "data"]
        /\ Reachable(n, mount[<<n, v>>])
    BY <1>2, Zenon DEF PodWrite, handler
  <2>2. fs[v] # "blank"
    BY <1>0, <2>1, Zenon DEF Reachable, Mapped, Safe
  <2>3. /\ fs' \in [Vol -> Contents]
        /\ fs'[v] = "data" /\ \A w \in Vol : w # v => fs'[w] = fs[w]
    BY <1>0, <2>1, Zenon DEF Contents
  <2>4. ASSUME NEW m \in Node, NEW w \in Vol PROVE Safe(m, w)'
    <3>1. Safe(m, w)
      BY Zenon DEF DataInv
    <3>2. CASE w # v
      <4>1. Quiet(m, w)
        BY <1>1, <2>1, Zenon DEF Quiet
      <4>. QED  BY <2>3, <3>1, <3>2, <4>1, QuietSafe, Zenon
    <3>3. CASE w = v
      BY <1>1, <2>1, <2>2, <2>3, <3>1, <3>3, Zenon DEF Safe
    <3>. QED  BY <3>2, <3>3, Zenon
  <2>. QED  BY <1>0, <1>1, <2>3, <2>4, DataSafe, Zenon
<1>3. CASE ~PodWrite(n, v)
  <2>1. /\ UNCHANGED fs
        /\ \/ UNCHANGED <<pc, work>>
           \/ \E label \in {"bind", "bindro", "remount", "idle"} : Goto(n, v, label)
    BY <1>3, Zenon DEF PublishStep, PublishCall, PublishBind, PublishRemount,
         Unpublish, handler
  <2>2. CASE UNCHANGED <<pc, work>>
    <3>1. Moved(n, v, pc[<<n, v>>])
      BY <1>0, <2>2, Zenon DEF Moved, Files
    <3>2. Safe(n, v)'
      BY <1>0, <1>1, <2>1, <2>2, Zenon DEF Safe
    <3>. QED  BY <1>1, <2>1, <3>1, <3>2, SamePath, Zenon
  <2>3. ASSUME NEW label \in {"bind", "bindro", "remount", "idle"}, Goto(n, v, label)
        PROVE  DataInv'
    <3>1. Moved(n, v, label)
      BY <1>0, <2>3, Labels, Went, Zenon
    <3>2. Safe(n, v)'
      BY <1>0, <1>1, <2>1, <3>1, Zenon DEF Safe, Moved, Staging, Taking
    <3>. QED  BY <1>1, <2>1, <3>1, <3>2, SamePath, Zenon
  <2>. QED  BY <2>1, <2>2, <2>3, Zenon
<1>. QED  BY <1>2, <1>3, Zenon

\* Handlers end; a restarted plugin and a rebooted node lose devices; the healer
\* reattaches one and a fence expires; the orchestrator gives a volume up.
LEMMA FaultsData ==
    ASSUME DataInv, Types', Files',
           \/ \E n \in Node, v \in Vol : Interrupt(n, v)
           \/ \E n \in Node : \/ HealScan(n) \/ HealDrop(n) \/ Restart(n) \/ Reboot(n)
                               \/ \E r \in pending[n] : HealCheck(n, r)
           \/ \E v \in Vol : Failover(v)
           \/ \E x \in Slot : FenceExpires(x)
    PROVE  DataInv'
<1>0. /\ Types /\ Files /\ wiped = {} /\ fs \in [Vol -> Contents]
      /\ \A m \in Node, w \in Vol : Safe(m, w)
  BY Zenon DEF DataInv
<1>1. ASSUME UNCHANGED <<fs, wiped>>, \A m \in Node, w \in Vol : Quiet(m, w),
             \A m \in Node, w \in Vol, d \in Dev : kmap'[<<m, d>>] = w => kmap[<<m, d>>] = w
      PROVE  DataInv'
  <2>1. \A m \in Node, w \in Vol : Safe(m, w)'
    BY <1>0, <1>1, QuietSafe, Zenon
  <2>. QED  BY <1>0, <1>1, <2>1, DataSafe, Zenon
<1>2. "idle" \notin Staging
  BY Zenon DEF Staging, Taking
<1>3. ASSUME NEW S, Stop(S), UNCHANGED <<mount, fs, wiped, home>>,
             \A m \in Node, w \in Vol, d \in Dev : kmap'[<<m, d>>] = w => kmap[<<m, d>>] = w
      PROVE  DataInv'
  <2>1. \A p \in Path : pc'[p] # "idle" => pc'[p] = pc[p]
    BY <1>3, Zenon DEF Stop
  <2>2. ASSUME NEW m \in Node, NEW w \in Vol PROVE Quiet(m, w)
    BY <1>2, <1>3, <2>1, Pairs, ZenonT(30) DEF Quiet
  <2>. QED  BY <1>1, <1>3, <2>2, Zenon
<1>4. ASSUME NEW n \in Node, NEW v \in Vol, Interrupt(n, v) PROVE DataInv'
  <2>1. UNCHANGED <<kmap, mount, fs, wiped, home>> /\ Stop({<<n, v>>})
    BY <1>4, Zenon DEF Interrupt, kernel, kubelet
  <2>. QED  BY <1>3, <2>1, Zenon
<1>5. ASSUME NEW n \in Node, Restart(n) PROVE DataInv'
  <2>1. /\ Stop({n} \X Vol) /\ UNCHANGED <<mount, fs, wiped, home>>
        /\ \E S : kmap' = [x \in Slot |-> IF x \in S THEN None ELSE kmap[x]]
    BY <1>5, Zenon DEF Restart, kubelet
  <2>2. \A m \in Node, w \in Vol, d \in Dev : kmap'[<<m, d>>] = w => kmap[<<m, d>>] = w
    BY <2>1, Pairs
  <2>. QED  BY <1>3, <2>1, <2>2, Zenon
<1>6. ASSUME NEW n \in Node, Reboot(n) PROVE DataInv'
  <2>1. /\ UNCHANGED <<fs, wiped, home>> /\ Release({n} \X Dev)
        /\ \A p \in Path : /\ pc'[p] = IF p[1] = n THEN "idle" ELSE pc[p]
                           /\ mount'[p] = IF p[1] = n THEN None ELSE mount[p]
    BY <1>6, Zenon DEF Reboot
  <2>2. ASSUME NEW m \in Node, NEW w \in Vol PROVE Quiet(m, w)
    BY <1>2, <2>1, Pairs, ZenonT(30) DEF Quiet
  <2>3. PICK S : Release(S)
    BY <2>1, Zenon
  <2>4. \A m \in Node, w \in Vol, d \in Dev : kmap'[<<m, d>>] = w => kmap[<<m, d>>] = w
    BY <1>0, <2>3, ReleaseShrinks, Zenon
  <2>. QED  BY <1>1, <2>1, <2>2, <2>4, Zenon
<1>7. ASSUME \/ \E n \in Node : \/ HealScan(n) \/ HealDrop(n)
                                \/ \E r \in pending[n] : HealCheck(n, r)
             \/ \E x \in Slot : FenceExpires(x)
      PROVE  DataInv'
  <2>1. UNCHANGED <<kmap, mount, fs, wiped, home, pc>>
    BY <1>7, ZenonT(30) DEF HealScan, HealDrop, HealCheck, FenceExpires, kernel, handler,
       kubelet, ghosts
  <2>2. ASSUME NEW m \in Node, NEW w \in Vol PROVE Quiet(m, w)
    BY <2>1, Zenon DEF Quiet
  <2>. QED  BY <1>1, <2>1, <2>2, Zenon
<1>8. ASSUME NEW v \in Vol, Failover(v) PROVE DataInv'
  <2>1. /\ UNCHANGED <<kmap, mount, fs, wiped, pc>>
        /\ pc[<<home[v], v>>] = "idle" /\ home' = [home EXCEPT ![v] = None]
    BY <1>8, Zenon DEF Failover, kernel, handler, ghosts
  <2>2. ASSUME NEW m \in Node, NEW w \in Vol, pc[<<m, w>>] \in Staging
        PROVE  home'[w] = home[w]
    <3>1. home[w] = m
      BY <1>0, <2>2, Zenon DEF Safe
    <3>. QED  BY <1>0, <1>2, <2>1, <2>2, <3>1, Zenon DEF Types
  <2>3. ASSUME NEW m \in Node, NEW w \in Vol PROVE Quiet(m, w)
    BY <2>1, <2>2, Zenon DEF Quiet
  <2>. QED  BY <1>1, <2>1, <2>3, Zenon
<1>. QED  BY <1>4, <1>5, <1>6, <1>7, <1>8, Zenon

LEMMA DataStart == Init => DataInv
<1> SUFFICES ASSUME Init PROVE DataInv
  OBVIOUS
<1>1. Types /\ Files
  BY TrackStart, Zenon DEF TrackInv
<1>2. fs \in [Vol -> Contents] /\ wiped = {}
  BY Zenon DEF Init, Contents
<1>3. ASSUME NEW n \in Node, NEW v \in Vol PROVE Safe(n, v)
  <2>1. pc[<<n, v>>] = "idle" /\ mount[<<n, v>>] = None
    BY Pairs, Zenon DEF Init
  <2>. QED  BY <2>1, Zenon DEF Safe, Staging, Taking
<1>4. ASSUME NEW n \in Node, NEW d \in Dev PROVE Disk(n, d)
  BY Pairs, Zenon DEF Init, Disk
<1>. QED  BY <1>1, <1>2, <1>3, <1>4, Zenon DEF DataInv

LEMMA DataStep ==
    ASSUME Apart, DataInv, NodeInv', TrackInv', [Next]_vars PROVE DataInv'
<1>0. Types' /\ Files'
  BY Zenon DEF NodeInv, TrackInv
<1>1. CASE UNCHANGED vars
  <2>1. UNCHANGED <<kmap, mount, fs, wiped, home, pc>>
    BY <1>1, Zenon DEF vars, kernel, handler, kubelet, ghosts
  <2>2. \A m \in Node, w \in Vol : Quiet(m, w)
    BY <2>1, Zenon DEF Quiet
  <2>3. \A m \in Node, w \in Vol : Safe(m, w)'
    BY <2>1, <2>2, QuietSafe, Zenon DEF DataInv
  <2>. QED  BY <1>0, <2>1, <2>3, DataSafe, Zenon DEF DataInv
<1>2. ASSUME NEW n \in Node, NEW v \in Vol,
             StageStep(n, v) \/ UnstageStep(n, v) \/ PublishStep(n, v)
      PROVE  DataInv'
  BY <1>0, <1>2, StageTakesData, StageMapData, StageFormatData, UnstageData,
     PublishData, Zenon DEF StageStep
<1>. QED  BY <1>0, <1>1, <1>2, FaultsData, Zenon DEF Next

\* Where no node serves two volumes, NodeStage formats an image that holds a pod's data
\* only after a blkid that failed, whatever is interrupted, restarted, rebooted or
\* failed over (ensureFormatted).  Where one does, a device record that outlives a
\* reboot may name a device that is another volume's by then.
THEOREM StageSparesData == ASSUME Apart PROVE Spec => []DataSurvivesStage
<1>1. DataInv /\ NodeInv' /\ TrackInv' /\ [Next]_vars => DataInv'
  BY DataStep, Zenon
<1>2. DataInv => DataSurvivesStage
  BY Zenon DEF DataInv, DataSurvivesStage
<1>. QED  BY <1>1, <1>2, DataStart, NodeInductive, TrackInductive, PTL DEF Spec

-----------------------------------------------------------------------------
(* One writer *)

FS == INSTANCE FiniteSetTheorems

\* The library's theorems, for the Cardinality the modules use.
LEMMA OneAtMost == Cardinality({}) <= 1 /\ \A x : Cardinality({x}) <= 1
<1>1. \A S : FS!Cardinality(S) = Cardinality(S)
  BY Zenon DEF FS!Cardinality, Cardinality
<1>2. Cardinality({}) = 0 /\ \A x : Cardinality({x}) = 1
  BY <1>1, FS!FS_EmptySet, FS!FS_Singleton, Zenon
<1>3. QED
  BY <1>2

\* The fence of NodeStage keeps every exclusive volume at one writing node, however
\* many nodes, volumes, devices and faults there are, for as long as the entries of
\* the clients it fenced last and the healer revives none (fenceStaleWatchers).
THEOREM OneWriter == Spec => []SingleWriter
<1>1. NodeInv => SingleWriter
  <2> SUFFICES ASSUME NodeInv, NEW v \in Exclusive
               PROVE  Cardinality(Writers(v, revived \cup expired)) <= 1
    BY Zenon DEF SingleWriter
  <2>1. Guarded(v) /\ v \in Vol
    BY Pairs, Zenon DEF NodeInv
  <2>2. \A n \in Writers(v, revived \cup expired) : \E d \in Dev : <<n, d>> \in Live(v)
    BY Pairs, Zenon DEF Writers, Live
  <2>3. \A m, n \in Writers(v, revived \cup expired) : m = n
    <3> SUFFICES ASSUME NEW m \in Writers(v, revived \cup expired), NEW n \in Writers(v, revived \cup expired)
                 PROVE  m = n
      OBVIOUS
    <3>1. PICK d \in Dev : <<m, d>> \in Live(v)
      BY Zenon, <2>2
    <3>2. PICK e \in Dev : <<n, e>> \in Live(v)
      BY Zenon, <2>2
    <3>3. <<m, d>>[1] = <<n, e>>[1]
      BY Zenon, <2>1, <3>1, <3>2 DEF Guarded
    <3>4. QED
      BY <3>3, Zenon
  <2>4. CASE Writers(v, revived \cup expired) = {}
    BY <2>4, OneAtMost, Zenon
  <2>5. ASSUME NEW n \in Writers(v, revived \cup expired) PROVE Cardinality(Writers(v, revived \cup expired)) <= 1
    <3>1. Writers(v, revived \cup expired) = {n}
      BY <2>3, Zenon
    <3>2. QED
      BY <3>1, OneAtMost, Zenon
  <2>6. QED
    BY Zenon, <2>4, <2>5
<1>2. QED
  BY <1>1, NodeInductive, PTL

=============================================================================
