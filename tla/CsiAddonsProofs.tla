-------------------------- MODULE CsiAddonsProofs --------------------------
(***************************************************************************)
(* Mirroring and volume groups, for every set of networks, scenarios,       *)
(* groups and images: the application never writes on two sites, planned    *)
(* relocations keep every write, and what the driver last replied about a   *)
(* group is what the group holds.                                           *)
(***************************************************************************)
EXTENDS CsiAddons, TLAPS

\* Functions on the sites, by their values.
OnSites(f) == f = [s \in Site |-> f[s]]

Roles == {"absent", "off", "primary", "demoted", "secondary"}

MirrorTypes ==
    /\ forces \in Nat
    /\ OnSites(role) /\ OnSites(data) /\ OnSites(snap) /\ OnSites(caught)
    /\ \A s \in Site : role[s] \in Roles

\* What an acknowledged fence means, and how far one that is served has come.
FenceInv ==
    /\ OnSites(fstep) /\ OnSites(todo) /\ OnSites(blocked)
    /\ \A s \in Site :
          /\ todo[s] \subseteq Nodes /\ blocked[s] \subseteq Nodes
          /\ s \in fenced /\ s \notin lapsed => fstep[s] = "idle" /\ blocked[s] = Nodes
          /\ fstep[s] = "fence" => Nodes \ todo[s] \subseteq blocked[s]
          /\ fstep[s] = "unfence" => s \notin fenced

\* The sites where the application runs, and those where it would write but for a
\* fence.
Running == {s \in Site : Runs(s)}

Live(s) == s \in Running /\ role[s] \in {"off", "primary"}

\* The image at s and its peer p: a demotion that arrived is of a site the
\* application has left for good, and two sites are live by force alone, one of
\* them fenced.
Follows(s, p) ==
    /\ role[s] = "primary" => s \in Running
    /\ role[s] \in {"absent", "demoted"} => s \notin Running
    /\ caught[s] => role[s] \in {"off", "primary", "secondary"}
    /\ caught[s] /\ role[s] = "secondary" => role[p] \in {"demoted", "off"} /\ p \notin Running
    /\ Live(s) /\ Live(p) => severed \/ (forces # 0 /\ (s \in fenced \/ p \in fenced))

\* Without force the site that leads, or led last, holds every write.
Holds(s, p) ==
    /\ role[s] = "absent" => data[s] = {}
    /\ Live(s) => data[p] \subseteq data[s] /\ snap[p] \subseteq data[s] /\ snap[s] \subseteq data[s]
    /\ role[s] = "demoted" /\ role[p] \in {"absent", "secondary"} =>
          data[p] \subseteq data[s] /\ snap[p] \subseteq data[s] /\ snap[s] = data[s]
    /\ caught[s] /\ role[s] = "secondary" =>
          data[s] = data[p] /\ snap[p] \subseteq data[s] /\ snap[s] \subseteq data[s]

Unforced == forces = 0 /\ ~severed

Failover == \A s \in Site : Follows(s, Peer(s)) /\ (Unforced => Holds(s, Peer(s)))

MirrorInv == MirrorTypes /\ FenceInv /\ Failover

\* The two sites are each other's peers.
LEMMA Peers ==
    \A s \in Site : /\ Peer(s) \in Site /\ Peer(s) # s /\ Peer(Peer(s)) = s
                    /\ \A x \in Site : x = s \/ x = Peer(s)
<1>1. \A s \in Site : \E o \in Site : o # s
  BY TwoSites, Zenon
<1>2. \A s \in Site : Peer(s) \in Site /\ Peer(s) # s
  BY <1>1, Zenon DEF Peer
<1>3. \A s \in Site : \A x \in Site : x = s \/ x = Peer(s)
  BY <1>2, TwoSites, Zenon
<1>. QED  BY <1>2, <1>3, Zenon

\* Each step changes the images of one site, or ends what both caught.
LEMMA TypesStep ==
    ASSUME MirrorTypes, Next
    PROVE  MirrorTypes'
<1>1. ASSUME Flatten PROVE MirrorTypes'
  BY <1>1, Zenon DEF Flatten, mirrorVars, MirrorTypes, OnSites
<1>2. ASSUME NEW s \in Site, SiteNext(s) PROVE MirrorTypes'
  <2>1. forces' \in Nat
    <3>1. forces' = forces \/ forces' = forces + 1
      BY <1>2, Zenon DEF SiteNext, mirrorVars, callVars, flattenVars, fenceVars, appVars, EnableImage, EnableSchedule,
        DisableSchedule, DisableImage, Promote, PromoteForced, Demote, Resync, Fence, Unfence,
        BlocklistRange, FenceReply, FenceExpires, Interrupt, Write, MirrorSnapshot, Replay
    <3>. QED  BY <3>1 DEF MirrorTypes
  <2>2. OnSites(role)' /\ \A x \in Site : role'[x] \in Roles
    <3>1. role' = role \/ \E r \in Roles : role' = [role EXCEPT ![s] = r]
      BY <1>2, Zenon DEF Roles, SiteNext, mirrorVars, callVars, flattenVars, fenceVars, appVars, EnableImage, EnableSchedule,
        DisableSchedule, DisableImage, Promote, PromoteForced, Demote, Resync, Fence, Unfence,
        BlocklistRange, FenceReply, FenceExpires, Interrupt, Write, MirrorSnapshot, Replay
    <3>. QED  BY <3>1, Zenon DEF MirrorTypes, OnSites
  <2>3. OnSites(data)'
    <3>1. data' = data \/ \E r : data' = [data EXCEPT ![s] = r]
      BY <1>2, Zenon DEF SiteNext, mirrorVars, callVars, flattenVars, fenceVars, appVars, EnableImage, EnableSchedule,
        DisableSchedule, DisableImage, Promote, PromoteForced, Demote, Resync, Fence, Unfence,
        BlocklistRange, FenceReply, FenceExpires, Interrupt, Write, MirrorSnapshot, Replay
    <3>. QED  BY <3>1, Zenon DEF MirrorTypes, OnSites
  <2>4. OnSites(snap)'
    <3>1. snap' = snap \/ \E r : snap' = [snap EXCEPT ![s] = r]
      BY <1>2, Zenon DEF SiteNext, mirrorVars, callVars, flattenVars, fenceVars, appVars, EnableImage, EnableSchedule,
        DisableSchedule, DisableImage, Promote, PromoteForced, Demote, Resync, Fence, Unfence,
        BlocklistRange, FenceReply, FenceExpires, Interrupt, Write, MirrorSnapshot, Replay
    <3>. QED  BY <3>1, Zenon DEF MirrorTypes, OnSites
  <2>5. OnSites(caught)'
    <3>1. \/ caught' = caught \/ \E r : caught' = [caught EXCEPT ![s] = r]
          \/ caught' = [o \in Site |-> FALSE]
      BY <1>2, Zenon DEF SiteNext, mirrorVars, callVars, flattenVars, fenceVars, appVars, EnableImage, EnableSchedule,
        DisableSchedule, DisableImage, Promote, PromoteForced, Demote, Resync, Fence, Unfence,
        BlocklistRange, FenceReply, FenceExpires, Interrupt, Write, MirrorSnapshot, Replay
    <3>. QED  BY <3>1, Zenon DEF MirrorTypes, OnSites
  <2>. QED  BY <2>1, <2>2, <2>3, <2>4, <2>5, Zenon DEF MirrorTypes
<1>. QED  BY <1>1, <1>2, Zenon DEF Next

\* A fence is acknowledged when every network is blocked, and lifted before one is
\* let in; an entry that lapses is remembered.
LEMMA FenceStep ==
    ASSUME FenceInv, Next
    PROVE  FenceInv'
<1>1. ASSUME fstep' = fstep, todo' = todo, blocked' = blocked, fenced' = fenced, lapsed' = lapsed
      PROVE FenceInv'
  BY <1>1, Zenon DEF FenceInv, OnSites
<1>2. ASSUME Flatten PROVE FenceInv'
  BY <1>1, <1>2, Zenon DEF Flatten, fenceVars
<1>3. ASSUME NEW s \in Site, SiteNext(s) PROVE FenceInv'
  <2>1. CASE \/ EnableImage(s) \/ EnableSchedule(s) \/ DisableSchedule(s) \/ DisableImage(s)
             \/ Promote(s) \/ PromoteForced(s) \/ Demote(s)
    BY <1>1, <2>1, Zenon DEF fenceVars, EnableImage, EnableSchedule, DisableSchedule, DisableImage,
        Promote, PromoteForced, Demote
  <2>2. CASE Resync(s) \/ Write(s) \/ MirrorSnapshot(s) \/ Replay(s)
    BY <1>1, <2>2, Zenon DEF callVars, fenceVars, Resync, Write, MirrorSnapshot, Replay
  <2>3. CASE Fence(s)
    BY <2>3, Zenon DEF FenceInv, OnSites, Fence
  <2>4. CASE Unfence(s)
    BY <2>4, Zenon DEF FenceInv, OnSites, Unfence
  <2>5. CASE BlocklistRange(s)
    <3>1. PICK n \in todo[s] :
              /\ blocked' = [blocked EXCEPT ![s] = IF fstep[s] = "fence" THEN @ \cup {n} ELSE @ \ {n}]
              /\ todo' = [todo EXCEPT ![s] = @ \ {n}]
      BY <2>5, Zenon DEF BlocklistRange
    <3>2. /\ fstep' = fstep /\ fenced' = fenced /\ lapsed' = lapsed
          /\ fstep[s] \in {"fence", "unfence"}
      BY <2>5, Zenon DEF BlocklistRange
    <3>3. /\ n \in Nodes /\ ~(s \in fenced /\ s \notin lapsed)
          /\ todo'[s] = todo[s] \ {n} /\ OnSites(todo)' /\ OnSites(blocked)'
          /\ blocked'[s] = IF fstep[s] = "fence" THEN blocked[s] \cup {n} ELSE blocked[s] \ {n}
          /\ \A x \in Site \ {s} : todo'[x] = todo[x] /\ blocked'[x] = blocked[x]
      BY <3>1, <3>2, Zenon DEF FenceInv, OnSites
    <3>. QED  BY <3>2, <3>3, ZenonT(30) DEF FenceInv, OnSites
  <2>6. CASE FenceReply(s)
    BY <2>6, Zenon DEF FenceInv, OnSites, FenceReply
  <2>7. CASE Interrupt(s)
    BY <2>7, Zenon DEF FenceInv, OnSites, Interrupt
  <2>8. CASE FenceExpires(s)
    <3>1. PICK n \in blocked[s] :
              /\ fstep[s] = "fence" => n \in todo[s]
              /\ blocked' = [blocked EXCEPT ![s] = @ \ {n}]
      BY <2>8, Zenon DEF FenceExpires
    <3>2. /\ fstep' = fstep /\ fenced' = fenced /\ lapsed' = lapsed \cup (fenced \cap {s})
          /\ todo' = todo
      BY <2>8, Zenon DEF FenceExpires
    <3>3. /\ ~(s \in fenced' /\ s \notin lapsed') /\ OnSites(blocked)'
          /\ blocked'[s] = blocked[s] \ {n}
          /\ \A x \in Site \ {s} : blocked'[x] = blocked[x] /\ (x \in lapsed' <=> x \in lapsed)
      BY <3>1, <3>2, Zenon DEF FenceInv, OnSites
    <3>. QED  BY <3>1, <3>2, <3>3, ZenonT(30) DEF FenceInv, OnSites
  <2>. QED  BY <1>3, <2>1, <2>2, <2>3, <2>4, <2>5, <2>6, <2>7, <2>8, Zenon DEF SiteNext
<1>. QED  BY <1>2, <1>3, Zenon DEF Next

-----------------------------------------------------------------------------
(* Failovers *)

\* The application runs where it did, until it is sent elsewhere.
LEMMA StillRunning ==
    ASSUME promoted' = promoted, moved' = moved
    PROVE  Running' = Running
BY Zenon DEF Running, Runs

LEMMA SentTo ==
    ASSUME NEW s \in Site, promoted' = promoted \cup {s}, moved' = moved
    PROVE  Running' = Running \cup {s}
BY Zenon DEF Running, Runs

LEMMA Left ==
    ASSUME NEW s \in Site, promoted' = promoted \ {s}, moved' = (moved \/ s = Home)
    PROVE  Running' = Running \ {s}
BY Zenon DEF Running, Runs

\* A call that leaves the images alone and takes no fence off a live one.
LEMMA Quiet ==
    ASSUME Failover, role' = role, data' = data, snap' = snap, caught' = caught, forces' = forces,
           severed' = severed, Running' = Running,
           \A x \in fenced : Live(x) => x \in fenced'
    PROVE  Failover'
<1>. SUFFICES ASSUME NEW s \in Site
              PROVE  Follows(s, Peer(s))' /\ (Unforced' => Holds(s, Peer(s))')
  BY Zenon DEF Failover
<1>1. Follows(s, Peer(s)) /\ (Unforced => Holds(s, Peer(s)))
  BY Zenon DEF Failover
<1>2. Unforced' => Holds(s, Peer(s))'
  BY <1>1, Zenon DEF Holds, Unforced, Live
<1>3. Follows(s, Peer(s))'
  BY <1>1, Peers, Zenon DEF Follows, Live
<1>. QED  BY <1>2, <1>3, Zenon

\* The schedules, the fence calls, interruptions and the flatten are such calls.
LEMMA QuietCalls ==
    ASSUME Failover,
           \/ Flatten
           \/ \E s \in Site : \/ EnableSchedule(s) \/ DisableSchedule(s)
                              \/ Fence(s) \/ Unfence(s) \/ BlocklistRange(s) \/ FenceReply(s)
                              \/ FenceExpires(s) \/ Interrupt(s)
    PROVE  Failover'
<1>1. ASSUME Flatten PROVE Failover'
  <2>1. /\ role' = role /\ data' = data /\ snap' = snap /\ caught' = caught /\ forces' = forces
        /\ severed' = severed /\ promoted' = promoted /\ moved' = moved /\ fenced' = fenced
    BY <1>1, Zenon DEF Flatten, mirrorVars, fenceVars, appVars
  <2>. QED  BY <2>1, StillRunning, Quiet, Zenon
<1>2. ASSUME NEW s \in Site,
             \/ EnableSchedule(s) \/ DisableSchedule(s) \/ Fence(s) \/ Unfence(s)
             \/ BlocklistRange(s) \/ FenceReply(s) \/ FenceExpires(s) \/ Interrupt(s)
      PROVE Failover'
  <2>1. /\ role' = role /\ data' = data /\ snap' = snap /\ caught' = caught /\ forces' = forces
        /\ severed' = severed /\ promoted' = promoted /\ moved' = moved
    BY <1>2, Zenon DEF mirrorVars, appVars, EnableSchedule, DisableSchedule, Fence, Unfence,
        BlocklistRange, FenceReply, FenceExpires, Interrupt
  <2>2. \/ fenced' = fenced \/ fenced' = fenced \cup {s}
        \/ (fenced' = fenced \ {s} /\ (~Runs(s) \/ role[s] \in {"demoted", "secondary"}))
    BY <1>2, Zenon DEF fenceVars, EnableSchedule, DisableSchedule, Fence, Unfence,
        BlocklistRange, FenceReply, FenceExpires, Interrupt
  <2>3. \A x \in fenced : Live(x) => x \in fenced'
    BY <2>2, Zenon DEF Live, Running
  <2>. QED  BY <2>1, <2>3, StillRunning, Quiet, Zenon
<1>. QED  BY <1>1, <1>2, Zenon

\* One site's image changes: the pair is looked at from both sides.
LEMMA BothSides ==
    ASSUME NEW s \in Site, NEW p \in Site, p = Peer(s),
           Follows(s, p)', Follows(p, s)', Unforced' => Holds(s, p)' /\ Holds(p, s)'
    PROVE  Failover'
<1>1. Peer(p) = s /\ \A x \in Site : x = s \/ x = p
  BY Peers, Zenon
<1>2. ASSUME NEW x \in Site PROVE Follows(x, Peer(x))' /\ (Unforced' => Holds(x, Peer(x))')
  <2>1. CASE x = s
    BY <2>1, Zenon
  <2>2. CASE x = p
    BY <2>2, <1>1, Zenon
  <2>. QED  BY <1>1, <2>1, <2>2, Zenon
<1>. QED  BY <1>2, Zenon DEF Failover

LEMMA Sides ==
    ASSUME Failover, NEW s \in Site
    PROVE  \E p \in Site : /\ p = Peer(s) /\ Peer(p) = s /\ p # s
                           /\ Follows(s, p) /\ Follows(p, s)
                           /\ Unforced => Holds(s, p) /\ Holds(p, s)
<1>1. PICK p \in Site : p = Peer(s)
  BY Peers, Zenon
<1>2. Peer(p) = s /\ p # s
  BY <1>1, Peers, Zenon
<1>3. Follows(s, p) /\ (Unforced => Holds(s, p))
  BY <1>1, Zenon DEF Failover
<1>4. Follows(p, s) /\ (Unforced => Holds(p, s))
  BY <1>2, Zenon DEF Failover
<1>. QED  BY <1>1, <1>2, <1>3, <1>4, Zenon

\* An image is enabled where the application already writes to it.
LEMMA EnableKeeps ==
    ASSUME MirrorTypes, Failover, NEW s \in Site, EnableImage(s)
    PROVE  Failover'
<1>1. /\ data' = data /\ caught' = caught /\ forces' = forces /\ fenced' = fenced
      /\ severed' = severed /\ promoted' = promoted /\ moved' = moved
  BY Zenon DEF EnableImage, fenceVars, appVars
<1>2. Running' = Running
  BY <1>1, StillRunning, Zenon
<1>3. CASE role' = role /\ snap' = snap
  BY <1>1, <1>2, <1>3, Quiet, Zenon
<1>4. CASE /\ role[s] = "off" /\ Runs(s)
           /\ role' = [role EXCEPT ![s] = "primary"] /\ snap' = [snap EXCEPT ![s] = data[s]]
  <2>1. PICK p \in Site : /\ p = Peer(s) /\ Peer(p) = s /\ p # s
                          /\ Follows(s, p) /\ Follows(p, s)
                          /\ Unforced => Holds(s, p) /\ Holds(p, s)
    BY Sides, Zenon
  <2>2. /\ role'[s] = "primary" /\ role'[p] = role[p] /\ snap'[s] = data[s] /\ snap'[p] = snap[p]
        /\ s \in Running
    BY <1>4, <2>1, Zenon DEF MirrorTypes, OnSites, Running
  <2>3. Follows(s, p)' /\ Follows(p, s)'
    BY <1>1, <1>2, <1>4, <2>1, <2>2, Zenon DEF Follows, Live
  <2>4. Unforced' => Holds(s, p)' /\ Holds(p, s)'
    BY <1>1, <1>2, <1>4, <2>1, <2>2, Zenon DEF Holds, Follows, Live, Unforced
  <2>. QED  BY <2>1, <2>3, <2>4, BothSides, Zenon
<1>. QED  BY <1>3, <1>4, Zenon DEF EnableImage

\* An image that is disabled is written to where the application runs, and nowhere
\* else.
LEMMA DisableKeeps ==
    ASSUME MirrorTypes, Failover, NEW s \in Site, DisableImage(s)
    PROVE  Failover'
<1>1. /\ data' = data /\ snap' = snap /\ caught' = caught /\ forces' = forces /\ fenced' = fenced
      /\ promoted' = promoted /\ moved' = moved
      /\ severed' = (severed \/ (role[s] = "secondary" /\ ~caught[s] /\ Runs(s)))
      /\ role' = [role EXCEPT ![s] = "off"]
  BY Zenon DEF DisableImage, fenceVars
<1>2. Running' = Running
  BY <1>1, StillRunning, Zenon
<1>3. PICK p \in Site : /\ p = Peer(s) /\ Peer(p) = s /\ p # s
                        /\ Follows(s, p) /\ Follows(p, s)
                        /\ Unforced => Holds(s, p) /\ Holds(p, s)
  BY Sides, Zenon
<1>4. /\ role'[s] = "off" /\ role'[p] = role[p] /\ role[s] \in Roles
      /\ Runs(s) <=> s \in Running
  BY <1>1, <1>3, Zenon DEF MirrorTypes, OnSites, Running
<1>5. Follows(s, p)' /\ Follows(p, s)'
  BY <1>1, <1>2, <1>3, <1>4, Zenon DEF Follows, Live, Roles
<1>6. Unforced' => Holds(s, p)' /\ Holds(p, s)'
  BY <1>1, <1>2, <1>3, <1>4, Zenon DEF Holds, Follows, Live, Unforced, Roles
<1>. QED  BY <1>3, <1>5, <1>6, BothSides, Zenon

\* An unforced promotion takes effect only where the demotion of the peer arrived.
LEMMA PromoteKeeps ==
    ASSUME MirrorTypes, Failover, NEW s \in Site, Promote(s)
    PROVE  Failover'
<1>1. /\ data' = data /\ caught' = caught /\ forces' = forces /\ fenced' = fenced
      /\ snap' = snap /\ severed' = severed /\ role[s] \in {"primary", "secondary"}
      /\ promoted' = promoted \cup {s} /\ moved' = moved
      /\ role' = IF caught[s] THEN [role EXCEPT ![s] = "primary"] ELSE role
  BY Zenon DEF Promote, fenceVars
<1>2. Running' = Running \cup {s}
  BY <1>1, SentTo, Zenon
<1>3. PICK p \in Site : /\ p = Peer(s) /\ Peer(p) = s /\ p # s
                        /\ Follows(s, p) /\ Follows(p, s)
                        /\ Unforced => Holds(s, p) /\ Holds(p, s)
  BY Sides, Zenon
<1>4. /\ role'[p] = role[p]
      /\ \/ role'[s] = role[s] /\ (role[s] = "primary" \/ ~caught[s])
         \/ role'[s] = "primary" /\ role[s] = "secondary" /\ caught[s]
  BY <1>1, <1>3, Zenon DEF MirrorTypes, OnSites
<1>5. Follows(s, p)' /\ Follows(p, s)'
  BY <1>1, <1>2, <1>3, <1>4, Zenon DEF Follows, Live
<1>6. Unforced' => Holds(s, p)' /\ Holds(p, s)'
  BY <1>1, <1>2, <1>3, <1>4, Zenon DEF Holds, Follows, Live, Unforced
<1>. QED  BY <1>3, <1>5, <1>6, BothSides, Zenon

\* A forced one makes a second live site, beside a fenced one.
LEMMA ForceKeeps ==
    ASSUME MirrorTypes, Failover, NEW s \in Site, PromoteForced(s)
    PROVE  Failover'
<1>1. /\ caught' = caught /\ forces' = forces + 1 /\ fenced' = fenced
      /\ role[s] = "secondary" /\ role' = [role EXCEPT ![s] = "primary"] /\ Peer(s) \in fenced
      /\ promoted' = promoted \cup {s} /\ moved' = moved
  BY Zenon DEF PromoteForced, fenceVars
<1>2. forces' # 0
  BY <1>1 DEF MirrorTypes
<1>3. Running' = Running \cup {s}
  BY <1>1, SentTo, Zenon
<1>4. PICK p \in Site : /\ p = Peer(s) /\ Peer(p) = s /\ p # s
                        /\ Follows(s, p) /\ Follows(p, s)
                        /\ Unforced => Holds(s, p) /\ Holds(p, s)
  BY Sides, Zenon
<1>5. role'[s] = "primary" /\ role'[p] = role[p]
  BY <1>1, <1>4, Zenon DEF MirrorTypes, OnSites
<1>6. Follows(s, p)' /\ Follows(p, s)'
  BY <1>1, <1>2, <1>3, <1>4, <1>5, Zenon DEF Follows, Live
<1>7. ~Unforced'
  BY <1>2, Zenon DEF Unforced
<1>. QED  BY <1>4, <1>6, <1>7, BothSides, Zenon

\* A demotion ends what any site caught before.
LEMMA DemoteKeeps ==
    ASSUME MirrorTypes, Failover, NEW s \in Site, Demote(s)
    PROVE  Failover'
<1>1. /\ data' = data /\ forces' = forces /\ fenced' = fenced /\ severed' = severed
      /\ promoted' = promoted \ {s} /\ moved' = (moved \/ s = Home)
      /\ role[s] \in {"primary", "demoted", "secondary"}
  BY Zenon DEF Demote, fenceVars
<1>2. Running' = Running \ {s}
  BY <1>1, Left, Zenon
<1>3. PICK p \in Site : /\ p = Peer(s) /\ Peer(p) = s /\ p # s
                        /\ Follows(s, p) /\ Follows(p, s)
                        /\ Unforced => Holds(s, p) /\ Holds(p, s)
  BY Sides, Zenon
<1>4. CASE role' = role /\ snap' = snap /\ caught' = caught /\ role[s] # "primary"
  <2>1. Follows(s, p)' /\ Follows(p, s)'
    BY <1>1, <1>2, <1>3, <1>4, Zenon DEF Follows, Live
  <2>2. Unforced' => Holds(s, p)' /\ Holds(p, s)'
    BY <1>1, <1>2, <1>3, <1>4, Zenon DEF Holds, Live, Unforced
  <2>. QED  BY <1>3, <2>1, <2>2, BothSides, Zenon
<1>5. CASE /\ role[s] = "primary" /\ role' = [role EXCEPT ![s] = "demoted"]
           /\ snap' = [snap EXCEPT ![s] = data[s]] /\ caught' = [o \in Site |-> FALSE]
  <2>1. /\ role'[s] = "demoted" /\ role'[p] = role[p] /\ snap'[s] = data[s] /\ snap'[p] = snap[p]
        /\ ~caught'[s] /\ ~caught'[p]
    BY <1>3, <1>5, Zenon DEF MirrorTypes, OnSites
  <2>2. Follows(s, p)' /\ Follows(p, s)'
    BY <1>1, <1>2, <1>3, <1>5, <2>1, Zenon DEF Follows, Live
  <2>3. Unforced' => Holds(s, p)' /\ Holds(p, s)'
    BY <1>1, <1>2, <1>3, <1>5, <2>1, Zenon DEF Holds, Follows, Live, Unforced
  <2>. QED  BY <1>3, <2>2, <2>3, BothSides, Zenon
<1>. QED  BY <1>4, <1>5, Zenon DEF Demote

\* The content of a site that follows is replaced by the leader's last snapshot.
LEMMA ReplayFollows ==
    ASSUME MirrorTypes, Failover, NEW s \in Site, Resync(s) \/ Replay(s)
    PROVE  Failover'
<1>1. /\ snap' = snap /\ forces' = forces /\ fenced' = fenced /\ severed' = severed
      /\ promoted' = promoted /\ moved' = moved
      /\ role' = [role EXCEPT ![s] = "secondary"] /\ data' = [data EXCEPT ![s] = snap[Peer(s)]]
  BY Zenon DEF Resync, Replay, callVars, fenceVars, appVars
<1>2. Running' = Running
  BY <1>1, StillRunning, Zenon
<1>3. PICK p \in Site : /\ p = Peer(s) /\ Peer(p) = s /\ p # s
                        /\ Follows(s, p) /\ Follows(p, s)
                        /\ Unforced => Holds(s, p) /\ Holds(p, s)
  BY Sides, Zenon
<1>4. /\ role'[s] = "secondary" /\ role'[p] = role[p]
      /\ data'[s] = snap[p] /\ data'[p] = data[p]
  BY <1>1, <1>3, Zenon DEF MirrorTypes, OnSites
<1>5. \/ role[p] = "primary"
      \/ role[p] = "demoted" /\ role[s] \in {"absent", "secondary"}
  BY <1>3, Zenon DEF Resync, Replay
<1>6. ASSUME role[p] = "primary" PROVE ~caught'[s] /\ (caught'[p] <=> caught[p])
  <2>1. ASSUME Resync(s) PROVE ~caught[s] /\ caught' = caught
    BY <1>3, <2>1, Zenon DEF Resync, Follows
  <2>2. ASSUME Replay(s) PROVE caught' = [caught EXCEPT ![s] = role[p] = "demoted"]
    BY <1>3, <2>2, Zenon DEF Replay
  <2>3. ASSUME Replay(s) PROVE caught'[s] = (role[p] = "demoted") /\ caught'[p] = caught[p]
    BY <1>3, <2>2, <2>3, Zenon DEF MirrorTypes, OnSites
  <2>. QED  BY <1>6, <2>1, <2>3, Zenon
<1>7. ASSUME role[p] = "demoted" PROVE caught'[p] <=> caught[p]
  <2>1. ASSUME Resync(s) PROVE FALSE
    BY <1>3, <1>7, <2>1, Zenon DEF Resync
  <2>2. ASSUME Replay(s) PROVE caught' = [caught EXCEPT ![s] = role[p] = "demoted"]
    BY <1>3, <2>2, Zenon DEF Replay
  <2>3. ASSUME Replay(s) PROVE caught'[p] = caught[p]
    BY <1>3, <2>2, <2>3, Zenon DEF MirrorTypes, OnSites
  <2>. QED  BY <2>1, <2>3, Zenon
<1>8. Follows(s, p)' /\ Follows(p, s)'
  BY <1>1, <1>2, <1>3, <1>4, <1>5, <1>6, <1>7, Zenon DEF Follows, Live
<1>9. Unforced' => Holds(s, p)' /\ Holds(p, s)'
  BY <1>1, <1>2, <1>3, <1>4, <1>5, <1>6, <1>7, Zenon DEF Holds, Follows, Live, Unforced
<1>. QED  BY <1>3, <1>8, <1>9, BothSides, Zenon

\* A write and the leader's own snapshots.
LEMMA WriteHeld ==
    ASSUME MirrorTypes, Failover, NEW s \in Site, Write(s) \/ MirrorSnapshot(s)
    PROVE  Failover'
<1>1. /\ role' = role /\ caught' = caught /\ forces' = forces /\ fenced' = fenced
      /\ severed' = severed /\ promoted' = promoted /\ moved' = moved
      /\ role[s] = "primary" \/ (role[s] = "off" /\ Runs(s))
  BY Zenon DEF Write, MirrorSnapshot, Writable, callVars, fenceVars, appVars
<1>2. Running' = Running
  BY <1>1, StillRunning, Zenon
<1>3. PICK p \in Site : /\ p = Peer(s) /\ Peer(p) = s /\ p # s
                        /\ Follows(s, p) /\ Follows(p, s)
                        /\ Unforced => Holds(s, p) /\ Holds(p, s)
  BY Sides, Zenon
<1>4. \/ \E d : data' = [data EXCEPT ![s] = @ \cup d] /\ snap' = snap
      \/ data' = data /\ snap' = [snap EXCEPT ![s] = data[s]]
  BY Zenon DEF Write, MirrorSnapshot
<1>5. /\ data'[p] = data[p] /\ snap'[p] = snap[p] /\ data[s] \subseteq data'[s]
      /\ snap'[s] = snap[s] \/ snap'[s] = data'[s]
  BY <1>3, <1>4 DEF MirrorTypes, OnSites
<1>6. Live(s)
  BY <1>1, <1>3, Zenon DEF Live, Running, Follows
<1>7. Follows(s, p)' /\ Follows(p, s)'
  BY <1>1, <1>2, <1>3, Zenon DEF Follows, Live
<1>8. Unforced' => Holds(s, p)' /\ Holds(p, s)'
  BY <1>1, <1>2, <1>3, <1>5, <1>6, Zenon DEF Holds, Follows, Live, Unforced
<1>. QED  BY <1>3, <1>7, <1>8, BothSides, Zenon

\* Every step.
LEMMA FailoverStep ==
    ASSUME MirrorTypes, Failover, Next
    PROVE  Failover'
BY QuietCalls, EnableKeeps, DisableKeeps, PromoteKeeps, ForceKeeps, DemoteKeeps, ReplayFollows,
   WriteHeld, Zenon DEF Next, SiteNext

\* MirrorInv is inductive.
LEMMA MirrorStart == CsiInit => MirrorInv
<1>. SUFFICES ASSUME Init PROVE MirrorInv
  BY Zenon DEF CsiInit
<1>1. MirrorTypes
  BY Zenon DEF Init, MirrorTypes, OnSites, Roles
<1>2. FenceInv
  BY Zenon DEF Init, FenceInv, OnSites
<1>3. ASSUME NEW s \in Site PROVE Follows(s, Peer(s)) /\ Holds(s, Peer(s))
  <2>1. Peer(s) \in Site /\ Peer(s) # s
    BY Peers, Zenon
  <2>. QED  BY <2>1, Zenon DEF Init, Follows, Holds, Live, Running, Runs
<1>. QED  BY <1>1, <1>2, <1>3, Zenon DEF MirrorInv, Failover

LEMMA MirrorStep ==
    ASSUME MirrorInv, [CsiNext]_addonVars
    PROVE  MirrorInv'
<1>1. CASE UNCHANGED vars
  <2>1. /\ role' = role /\ data' = data /\ snap' = snap /\ caught' = caught /\ forces' = forces
        /\ severed' = severed /\ promoted' = promoted /\ moved' = moved
    BY <1>1, Zenon DEF vars, mirrorVars, callVars, appVars
  <2>2. fstep' = fstep /\ todo' = todo /\ blocked' = blocked /\ fenced' = fenced /\ lapsed' = lapsed
    BY <1>1, Zenon DEF vars, callVars, fenceVars
  <2>3. MirrorTypes' /\ FenceInv'
    BY <2>1, <2>2, Zenon DEF MirrorInv, MirrorTypes, FenceInv, OnSites
  <2>4. Failover'
    BY <2>1, <2>2, StillRunning, Quiet, Zenon DEF MirrorInv
  <2>. QED  BY <2>3, <2>4, Zenon DEF MirrorInv
<1>2. CASE Next
  BY <1>2, TypesStep, FenceStep, FailoverStep, Zenon DEF MirrorInv
<1>. QED  BY <1>1, <1>2, Zenon DEF CsiNext, addonVars

LEMMA MirrorSafe == MirrorInv => OneWritableSite /\ RelocationKeepsWrites
<1>. SUFFICES ASSUME MirrorInv PROVE OneWritableSite /\ RelocationKeepsWrites
  OBVIOUS
<1>1. ASSUME NEW s \in Site, NEW o \in Site, s # o, Writable(s), Writable(o), Runs(s), Runs(o)
      PROVE severed \/ s \in lapsed \/ o \in lapsed
  <2>1. o = Peer(s) /\ Live(s) /\ Live(o)
    BY <1>1, Peers, Zenon DEF Live, Running, Writable
  <2>2. severed \/ s \in fenced \/ o \in fenced
    BY <2>1, Zenon DEF MirrorInv, Failover, Follows
  <2>. QED  BY <1>1, <2>2, Zenon DEF Writable, MirrorInv, FenceInv
<1>2. ASSUME forces = 0, ~severed, NEW s \in Site, role[s] = "primary", NEW o \in Site
      PROVE data[o] \subseteq data[s]
  <2>1. o = s \/ o = Peer(s)
    BY Peers, Zenon
  <2>2. Live(s) /\ Holds(s, Peer(s))
    BY <1>2, Zenon DEF MirrorInv, Failover, Follows, Live, Unforced
  <2>. QED  BY <2>1, <2>2, Zenon DEF Holds
<1>3. OneWritableSite
  BY <1>1, Zenon DEF OneWritableSite
<1>4. RelocationKeepsWrites
  BY <1>2, Zenon DEF RelocationKeepsWrites
<1>. QED  BY <1>3, <1>4, Zenon

\* FenceClusterNetwork, PromoteVolume and DisableVolumeReplication (networkfence.go,
\* replication.go), for any number of networks, calls, faults, lapses and forced
\* failovers: until an acknowledged fence lapses, or an image the application was
\* sent to too early is disabled, never can it write on both sites.
THEOREM OneSiteWrites == FairSpec => []OneWritableSite
<1>1. MirrorInv /\ [CsiNext]_addonVars => MirrorInv'
  BY MirrorStep, Zenon
<1>2. MirrorInv => OneWritableSite
  BY MirrorSafe, Zenon
<1>. QED  BY <1>1, <1>2, MirrorStart, PTL DEF FairSpec

\* PromoteVolume, DemoteVolume and DisableVolumeReplication (replication.go): until
\* someone forces, however often the image moves between the sites and whichever of
\* them it is disabled on, the primary holds every write made.
THEOREM RelocationsKeepWrites == FairSpec => []RelocationKeepsWrites
<1>1. MirrorInv /\ [CsiNext]_addonVars => MirrorInv'
  BY MirrorStep, Zenon
<1>2. MirrorInv => RelocationKeepsWrites
  BY MirrorSafe, Zenon
<1>. QED  BY <1>1, <1>2, MirrorStart, PTL DEF FairSpec

-----------------------------------------------------------------------------
(* Volume groups *)

\* A group that is being worked on has no reply outstanding.
GroupInv ==
    /\ DOMAIN gstep = Group /\ DOMAIN told = Group
    /\ \A g \in Group : gstep[g] # "idle" => told[g] = Untold
    /\ GroupReplyTrue

\* A call on g that leaves it without a reply, and the other groups alone.
LEMMA Retracted ==
    ASSUME GroupInv, NEW g \in Group, told[g] = Untold \/ told' = [told EXCEPT ![g] = Untold],
           told' \in {told, [told EXCEPT ![g] = Untold]},
           DOMAIN gstep' = Group, \A h \in Group \ {g} : gstep'[h] = gstep[h],
           \A h \in Group \ {g} : /\ Exists(h)' <=> Exists(h)
                                  /\ Exists(h) => members'[h] = members[h]
    PROVE  GroupInv'
<1>1. /\ DOMAIN told' = Group /\ told'[g] = Untold
      /\ \A h \in Group \ {g} : told'[h] = told[h]
  BY Zenon DEF GroupInv
<1>2. \A h \in Group : gstep'[h] # "idle" => told'[h] = Untold
  BY <1>1, Zenon DEF GroupInv
<1>3. \A h \in Group : told'[h] # Untold => Exists(h)' /\ told'[h] = members'[h]
  BY <1>1, Zenon DEF GroupInv, GroupReplyTrue
<1>. QED  BY <1>1, <1>2, <1>3, Zenon DEF GroupInv, GroupReplyTrue

LEMMA CallsRetract ==
    ASSUME GroupInv, NEW g \in Group,
           \/ \E want \in SUBSET Image : CreateVolumeGroup(g, want) \/ ModifyVolumeGroup(g, want)
           \/ DeleteVolumeGroup(g)
    PROVE  GroupInv'
<1>1. ASSUME NEW want \in SUBSET Image, CreateVolumeGroup(g, want) PROVE GroupInv'
  <2>1. /\ told' = [told EXCEPT ![g] = Untold] /\ gstep' = [gstep EXCEPT ![g] = "add"]
        /\ members' = [h \in DOMAIN members \cup {g} |-> IF Exists(h) THEN members[h] ELSE {}]
    BY <1>1, Zenon DEF CreateVolumeGroup, Begin
  <2>2. DOMAIN gstep' = Group /\ \A h \in Group \ {g} : gstep'[h] = gstep[h]
    BY <2>1, Zenon DEF GroupInv
  <2>3. \A h \in Group \ {g} : /\ Exists(h)' <=> Exists(h)
                               /\ Exists(h) => members'[h] = members[h]
    BY <2>1, Zenon DEF Exists
  <2>4. told' \in {told, [told EXCEPT ![g] = Untold]}
    BY <2>1, Zenon
  <2>. QED  BY <2>1, <2>2, <2>3, <2>4, Retracted, Zenon
<1>2. ASSUME NEW want \in SUBSET Image, ModifyVolumeGroup(g, want) PROVE GroupInv'
  <2>1. /\ told' = [told EXCEPT ![g] = Untold] /\ gstep' = [gstep EXCEPT ![g] = "add"]
        /\ members' = members
    BY <1>2, Zenon DEF ModifyVolumeGroup, Begin
  <2>2. DOMAIN gstep' = Group /\ \A h \in Group \ {g} : gstep'[h] = gstep[h]
    BY <2>1, Zenon DEF GroupInv
  <2>3. \A h \in Group \ {g} : /\ Exists(h)' <=> Exists(h)
                               /\ Exists(h) => members'[h] = members[h]
    BY <2>1, Zenon DEF Exists
  <2>4. told' \in {told, [told EXCEPT ![g] = Untold]}
    BY <2>1, Zenon
  <2>. QED  BY <2>1, <2>2, <2>3, <2>4, Retracted, Zenon
<1>3. ASSUME DeleteVolumeGroup(g) PROVE GroupInv'
  <2>1. /\ told' = [told EXCEPT ![g] = Untold] /\ gstep' = gstep
        /\ members' = [h \in DOMAIN members \ {g} |-> members[h]]
    BY <1>3, Zenon DEF DeleteVolumeGroup
  <2>2. DOMAIN gstep' = Group /\ \A h \in Group \ {g} : gstep'[h] = gstep[h]
    BY <2>1, Zenon DEF GroupInv
  <2>3. \A h \in Group \ {g} : /\ Exists(h)' <=> Exists(h)
                               /\ Exists(h) => members'[h] = members[h]
    BY <2>1, Zenon DEF Exists
  <2>4. told' \in {told, [told EXCEPT ![g] = Untold]}
    BY <2>1, Zenon
  <2>. QED  BY <2>1, <2>2, <2>3, <2>4, Retracted, Zenon
<1>. QED  BY <1>1, <1>2, <1>3, Zenon

\* Every image added or removed is one of the group being worked on.
LEMMA WorkStaysHome ==
    ASSUME GroupInv, NEW g \in Group,
           \/ GroupImageAdd(g) \/ GroupImagesAdded(g) \/ GroupImageRemove(g)
           \/ GroupInterrupt(g)
    PROVE  GroupInv'
<1>1. gstep[g] # "idle" /\ told' = told
  BY Zenon DEF GroupImageAdd, GroupImagesAdded, GroupImageRemove, GroupInterrupt
<1>2. told[g] = Untold
  BY <1>1, Zenon DEF GroupInv
<1>3. DOMAIN gstep' = Group /\ \A h \in Group \ {g} : gstep'[h] = gstep[h]
  BY Zenon DEF GroupInv, GroupImageAdd, GroupImagesAdded, GroupImageRemove, GroupInterrupt
<1>4. members' = members \/ \E M : members' = [members EXCEPT ![g] = M]
  BY Zenon DEF GroupImageAdd, GroupImagesAdded, GroupImageRemove, GroupInterrupt
<1>5. \A h \in Group \ {g} : /\ Exists(h)' <=> Exists(h)
                             /\ Exists(h) => members'[h] = members[h]
  BY <1>4, Zenon DEF Exists
<1>6. told' \in {told, [told EXCEPT ![g] = Untold]}
  BY <1>1, Zenon
<1>. QED  BY <1>2, <1>3, <1>5, <1>6, Retracted, Zenon

LEMMA ReplyListsAgain ==
    ASSUME GroupInv, NEW g \in Group, GroupReply(g)
    PROVE  GroupInv'
<1>1. /\ Exists(g) /\ told' = [told EXCEPT ![g] = members[g]]
      /\ gstep' = [gstep EXCEPT ![g] = "idle"] /\ members' = members
  BY Zenon DEF GroupReply
<1>2. /\ DOMAIN told' = Group /\ told'[g] = members[g] /\ DOMAIN gstep' = Group
      /\ gstep'[g] = "idle"
      /\ \A h \in Group \ {g} : told'[h] = told[h] /\ gstep'[h] = gstep[h]
  BY <1>1, Zenon DEF GroupInv
<1>3. \A h \in Group : Exists(h)' <=> Exists(h)
  BY <1>1, Zenon DEF Exists
<1>4. \A h \in Group : gstep'[h] # "idle" => told'[h] = Untold
  BY <1>2, Zenon DEF GroupInv
<1>5. \A h \in Group : told'[h] # Untold => Exists(h)' /\ told'[h] = members'[h]
  BY <1>1, <1>2, <1>3, Zenon DEF GroupInv, GroupReplyTrue
<1>. QED  BY <1>2, <1>4, <1>5, Zenon DEF GroupInv, GroupReplyTrue

\* GroupInv is inductive.
LEMMA GroupStep == GroupInv /\ [CsiNext]_addonVars => GroupInv'
<1>1. ASSUME GroupInv, UNCHANGED groupVars PROVE GroupInv'
  BY <1>1, Zenon DEF groupVars, GroupInv, GroupReplyTrue, Exists
<1>2. ASSUME GroupInv, GroupNext PROVE GroupInv'
  BY <1>2, CallsRetract, WorkStaysHome, ReplyListsAgain, Zenon DEF GroupNext
<1>. QED  BY <1>1, <1>2, Zenon DEF CsiNext, addonVars

\* CreateVolumeGroup and ModifyVolumeGroup (volumegroup.go): the members they reply
\* with are those of the group, whichever images other groups kept, whatever calls
\* run on other groups and wherever earlier attempts died.
THEOREM GroupRepliesTrue == FairSpec => []GroupReplyTrue
<1>1. CsiInit => GroupInv
  BY Zenon DEF CsiInit, GroupInit, GroupInv, GroupReplyTrue
<1>2. GroupInv => GroupReplyTrue
  BY Zenon DEF GroupInv
<1>. QED  BY <1>1, <1>2, GroupStep, PTL DEF FairSpec
=============================================================================
