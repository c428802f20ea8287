------------------------------ MODULE RbdMirror ------------------------------
(***************************************************************************)
(* Disaster recovery of one RBD image between two Ceph clusters: the        *)
(* csi-addons replication calls (internal/cephplugin/replication.go) and    *)
(* network fencing (networkfence.go), each site's driver called by its own  *)
(* csi-addons controller, over two clusters that mirror by snapshots.       *)
(*                                                                          *)
(* A call that runs one command is one step; EnableVolumeReplication,       *)
(* DisableVolumeReplication and the fence calls run several and can die     *)
(* between them.  None of them takes a claim of the driver's: a site's      *)
(* controller reconciles its one resource and calls again until told.       *)
(***************************************************************************)
EXTENDS Naturals, FiniteSets

CONSTANTS
    Site,        \* the two clusters
    Home,        \* the one the application starts on
    Nodes,       \* the client networks of a site
    Plans        \* scenarios, see Init

ASSUME TwoSites == Home \in Site /\ \E o \in Site : o # Home /\ Site = {Home, o}

VARIABLES
    plan,        \* [clone, interval, writes, faults, forces, calls, fences, groups]
    role,        \* [Site -> "absent", "off", "primary", "demoted" (was the primary), "secondary"]
    data,        \* [Site -> the writes the image holds]
    snap,        \* [Site -> the writes in its last mirror snapshot]
    caught,      \* [Site -> it holds the peer's demotion]
    sched,       \* sites with a mirror snapshot schedule
    linked,      \* the home image is still a clone of an unmirrored parent
    flattening,  \* a background flatten is registered in the plugin
    step,        \* [Site -> the next step of the replication call being served]
    fstep,       \* [Site -> the fence call being served]
    todo,        \* [Site -> networks the fence call has still to do]
    blocked,     \* [Site -> networks in the cluster's blocklist]
    fenced,      \* sites whose fencing was acknowledged
    lapsed,      \* those of them with an entry that has expired since
    enabled,     \* sites whose enable was acknowledged
    promoted,    \* sites told that the image is primary there
    moved,       \* the application was told to leave the site it started on
    severed,     \* a secondary the application was sent to was disabled
    forces, faults

mirrorVars == <<role, data, snap, caught>>
flattenVars == <<linked, flattening>>
fenceVars == <<fstep, todo, blocked, fenced, lapsed>>
appVars == <<promoted, moved, severed>>
callVars == <<sched, step, enabled, flattenVars, fenceVars, appVars>>
vars == <<plan, mirrorVars, callVars, forces, faults>>

Peer(s) == CHOOSE o \in Site : o # s

Init ==
    /\ plan \in Plans
    /\ role = [s \in Site |-> IF s = Home THEN "off" ELSE "absent"]
    /\ data = [s \in Site |-> {}] /\ snap = data
    /\ caught = [s \in Site |-> FALSE]
    /\ sched = {} /\ linked = plan.clone /\ flattening = FALSE
    /\ step = [s \in Site |-> "idle"] /\ fstep = step
    /\ todo = [s \in Site |-> {}] /\ blocked = todo
    /\ fenced = {} /\ lapsed = {} /\ enabled = {}
    /\ promoted = {} /\ moved = FALSE /\ severed = FALSE
    /\ forces = 0 /\ faults = 0

\* A call of this kind reaches the plugin of a site through the driver, which
\* takes no claim for it; a site's controller makes one call at a time.
Called(s, kind) == kind \in plan.calls /\ step[s] = "idle"

\* The application runs where it was started until that site is told to demote
\* the image, and where a promotion was acknowledged.
Runs(s) == s \in promoted \/ (s = Home /\ ~moved)

-----------------------------------------------------------------------------
(* EnableVolumeReplication and DisableVolumeReplication *)

\* Mutant of EnableImage: "already enabled" answers for the whole call.
EnableImageOnly(s) ==
    /\ Called(s, "enable") /\ s \notin enabled
    /\ role[s] \in {"primary", "demoted", "secondary"} \/ (role[s] = "off" /\ Runs(s))
    /\ IF linked /\ role[s] = "off"
       THEN /\ flattening' = TRUE
            /\ UNCHANGED <<role, snap, step, enabled>>
       ELSE /\ role' = IF role[s] = "off" THEN [role EXCEPT ![s] = "primary"] ELSE role
            /\ snap' = IF role[s] = "off" THEN [snap EXCEPT ![s] = data[s]] ELSE snap
            /\ step' = IF role[s] = "off" THEN [step EXCEPT ![s] = "schedule"] ELSE step
            /\ enabled' = IF role[s] = "off" THEN enabled ELSE enabled \cup {s}
            /\ UNCHANGED flattening
    /\ UNCHANGED <<plan, data, caught, sched, linked, fenceVars, appVars, forces, faults>>

\* rbd mirror image enable.  Refused for a clone of an unmirrored parent: the
\* flatten is started, once, and the call fails; "already enabled" goes on.  An
\* image that is not mirrored is enabled where the application runs.
EnableImage(s) ==
    /\ Called(s, "enable") /\ s \notin enabled
    /\ role[s] \in {"primary", "demoted", "secondary"} \/ (role[s] = "off" /\ Runs(s))
    /\ IF linked /\ role[s] = "off"
       THEN /\ flattening' = TRUE
            /\ UNCHANGED <<role, snap, step>>
       ELSE /\ role' = IF role[s] = "off" THEN [role EXCEPT ![s] = "primary"] ELSE role
            /\ snap' = IF role[s] = "off" THEN [snap EXCEPT ![s] = data[s]] ELSE snap
            /\ step' = [step EXCEPT ![s] = "schedule"]
            /\ UNCHANGED flattening
    /\ UNCHANGED <<plan, data, caught, sched, linked, fenceVars, enabled, appVars, forces, faults>>

\* rbd mirror snapshot schedule add, "already exists" included, when the class
\* sets an interval; then the reply.
EnableSchedule(s) ==
    /\ step[s] = "schedule"
    /\ sched' = IF plan.interval THEN sched \cup {s} ELSE sched
    /\ enabled' = enabled \cup {s}
    /\ step' = [step EXCEPT ![s] = "idle"]
    /\ UNCHANGED <<plan, mirrorVars, flattenVars, fenceVars, appVars, forces, faults>>

\* The schedule goes first, best effort.
DisableSchedule(s) ==
    /\ Called(s, "disable") /\ role[s] # "absent"
    /\ sched' \in {sched, sched \ {s}}
    /\ enabled' = enabled \ {s}
    /\ step' = [step EXCEPT ![s] = "disable"]
    /\ UNCHANGED <<plan, mirrorVars, flattenVars, fenceVars, appVars, forces, faults>>

\* rbd mirror image disable --force, on a primary or a secondary; "not mirrored"
\* is success.  A secondary is an ordinary image then, with what had arrived.
DisableImage(s) ==
    /\ step[s] = "disable"
    /\ role' = [role EXCEPT ![s] = "off"]
    /\ severed' = (severed \/ (role[s] = "secondary" /\ ~caught[s] /\ Runs(s)))
    /\ step' = [step EXCEPT ![s] = "idle"]
    /\ UNCHANGED <<plan, data, snap, caught, sched, flattenVars, fenceVars, enabled,
                   promoted, moved, forces, faults>>

\* Mutant of Flatten: a failed flatten stays on the in-flight map.
FlattenStays ==
    /\ flattening /\ faults = 0
    /\ \/ linked' = FALSE /\ flattening' = FALSE /\ UNCHANGED faults
       \/ faults < plan.faults /\ faults' = faults + 1 /\ UNCHANGED <<linked, flattening>>
    /\ UNCHANGED <<plan, mirrorVars, sched, step, fenceVars, enabled, appVars, forces>>

\* The background flatten ends: the parent link is gone, or the command failed;
\* either way the worker takes itself off the in-flight map.
Flatten ==
    /\ flattening
    /\ flattening' = FALSE
    /\ \/ linked' = FALSE /\ UNCHANGED faults
       \/ faults < plan.faults /\ faults' = faults + 1 /\ UNCHANGED linked
    /\ UNCHANGED <<plan, mirrorVars, sched, step, fenceVars, enabled, appVars, forces>>

-----------------------------------------------------------------------------
(* PromoteVolume, DemoteVolume, ResyncVolume *)

\* Mutant of Promote: every promotion is forced.
PromoteHard(s) ==
    /\ Called(s, "promote") /\ role[s] \in {"primary", "secondary"}
    /\ role' = [role EXCEPT ![s] = "primary"]
    /\ promoted' = promoted \cup {s}
    /\ UNCHANGED <<plan, data, snap, caught, sched, step, enabled, flattenVars, fenceVars,
                   moved, severed, forces, faults>>

\* rbd mirror image promote without --force.  "already primary" is success, and
\* so is every error that speaks of "primary": that the peer still is, or that
\* its demotion has not arrived.  The call checks neither role nor peer; that a
\* demoted site is promoted again only once it follows the other, and an image
\* only where it is mirrored, is the orchestrator's part.
Promote(s) ==
    /\ Called(s, "promote") /\ role[s] \in {"primary", "secondary"}
    /\ role' = IF caught[s] THEN [role EXCEPT ![s] = "primary"] ELSE role
    /\ promoted' = promoted \cup {s}
    /\ UNCHANGED <<plan, data, snap, caught, sched, step, enabled, flattenVars, fenceVars,
                   moved, severed, forces, faults>>

\* With --force, for an unplanned failover: the orchestrator has fenced the
\* other site's nodes first.
PromoteForced(s) ==
    /\ Called(s, "force") /\ forces < plan.forces
    /\ Peer(s) \in fenced
    /\ role[s] = "secondary"
    /\ role' = [role EXCEPT ![s] = "primary"]
    /\ promoted' = promoted \cup {s}
    /\ forces' = forces + 1
    /\ UNCHANGED <<plan, data, snap, caught, sched, step, enabled, flattenVars, fenceVars,
                   moved, severed, faults>>

\* rbd mirror image demote takes a last mirror snapshot; on an image that is
\* secondary already the error is success.  The application is stopped first.
Demote(s) ==
    /\ Called(s, "demote") /\ role[s] \in {"primary", "demoted", "secondary"}
    /\ promoted' = promoted \ {s}
    /\ moved' = (moved \/ s = Home)
    /\ IF role[s] = "primary"
       THEN /\ role' = [role EXCEPT ![s] = "demoted"]
            /\ snap' = [snap EXCEPT ![s] = data[s]]
            /\ caught' = [o \in Site |-> FALSE]
       ELSE UNCHANGED <<role, snap, caught>>
    /\ UNCHANGED <<plan, data, sched, step, enabled, flattenVars, fenceVars, severed, forces, faults>>

\* rbd mirror image resync on a site whose peer leads: its content is
\* thrown away for the peer's last snapshot.
Resync(s) ==
    /\ Called(s, "resync") /\ role[s] \in {"demoted", "secondary"} /\ role[Peer(s)] = "primary"
    /\ role' = [role EXCEPT ![s] = "secondary"]
    /\ data' = [data EXCEPT ![s] = snap[Peer(s)]]
    /\ UNCHANGED <<plan, snap, caught, callVars, forces, faults>>

-----------------------------------------------------------------------------
(* FenceClusterNetwork and UnfenceClusterNetwork on a site's cluster *)

\* A repeated call refreshes the entries.
Fence(s) ==
    /\ s \in plan.fences /\ fstep[s] = "idle" /\ (s \notin fenced \/ s \in lapsed)
    /\ fstep' = [fstep EXCEPT ![s] = "fence"]
    /\ todo' = [todo EXCEPT ![s] = Nodes]
    /\ UNCHANGED <<plan, mirrorVars, sched, step, enabled, flattenVars, blocked, fenced, lapsed,
                   appVars, forces, faults>>

\* The orchestrator lets the nodes back in once the application cannot write
\* there: it was told to leave, or the image is not primary.
Unfence(s) ==
    /\ "unfence" \in plan.calls /\ fstep[s] = "idle" /\ s \in fenced
    /\ ~Runs(s) \/ role[s] \in {"demoted", "secondary"}
    /\ fenced' = fenced \ {s} /\ lapsed' = lapsed \ {s}
    /\ fstep' = [fstep EXCEPT ![s] = "unfence"]
    /\ todo' = [todo EXCEPT ![s] = Nodes]
    /\ UNCHANGED <<plan, mirrorVars, sched, step, enabled, flattenVars, blocked, appVars,
                   forces, faults>>

\* Mutant of BlocklistRange: a network whose command fails is skipped.
BlocklistRangeSkips(s) ==
    /\ fstep[s] \in {"fence", "unfence"} /\ todo[s] # {}
    /\ \E n \in todo[s] :
          /\ \/ blocked' = [blocked EXCEPT ![s] = IF fstep[s] = "fence" THEN @ \cup {n} ELSE @ \ {n}]
             \/ UNCHANGED blocked
          /\ todo' = [todo EXCEPT ![s] = @ \ {n}]
    /\ UNCHANGED <<plan, mirrorVars, sched, step, enabled, flattenVars, fstep, fenced, lapsed,
                   appVars, forces, faults>>

\* blocklistRange: one osd blocklist range command per network; a failure ends
\* the call, and the next one begins again from the first.
BlocklistRange(s) ==
    /\ fstep[s] \in {"fence", "unfence"} /\ todo[s] # {}
    /\ \E n \in todo[s] :
          /\ blocked' = [blocked EXCEPT ![s] = IF fstep[s] = "fence" THEN @ \cup {n} ELSE @ \ {n}]
          /\ todo' = [todo EXCEPT ![s] = @ \ {n}]
    /\ UNCHANGED <<plan, mirrorVars, sched, step, enabled, flattenVars, fstep, fenced, lapsed,
                   appVars, forces, faults>>

FenceReply(s) ==
    /\ fstep[s] \in {"fence", "unfence"} /\ todo[s] = {}
    /\ fenced' = IF fstep[s] = "fence" THEN fenced \cup {s} ELSE fenced
    /\ lapsed' = lapsed \ {s}
    /\ fstep' = [fstep EXCEPT ![s] = "idle"]
    /\ UNCHANGED <<plan, mirrorVars, sched, step, enabled, flattenVars, todo, blocked, appVars,
                   forces, faults>>

\* No expiry is passed, so Ceph's own applies: an entry is gone after an hour.
\* A call is over sooner than that.
FenceExpires(s) ==
    /\ \E n \in blocked[s] :
          /\ fstep[s] = "fence" => n \in todo[s]
          /\ blocked' = [blocked EXCEPT ![s] = @ \ {n}]
    /\ lapsed' = lapsed \cup (fenced \cap {s})
    /\ UNCHANGED <<plan, mirrorVars, sched, step, enabled, flattenVars, fstep, todo, fenced,
                   appVars, forces, faults>>

\* A command fails, the deadline passes or the plugin restarts; a restart also
\* ends the background flatten.
Interrupt(s) ==
    /\ faults < plan.faults /\ (step[s] # "idle" \/ fstep[s] # "idle" \/ (s = Home /\ flattening))
    /\ faults' = faults + 1
    /\ step' = [step EXCEPT ![s] = "idle"]
    /\ fstep' = [fstep EXCEPT ![s] = "idle"]
    /\ todo' = [todo EXCEPT ![s] = {}]
    /\ flattening' \in {flattening, flattening /\ s # Home}
    /\ UNCHANGED <<plan, mirrorVars, sched, linked, blocked, fenced, lapsed, enabled, appVars, forces>>

-----------------------------------------------------------------------------
(* The clusters and the application *)

\* Some node can write to the image at s.
Writable(s) == role[s] \in {"off", "primary"} /\ blocked[s] # Nodes

Write(s) ==
    /\ Writable(s) /\ Runs(s)
    /\ Cardinality(UNION {data[o] : o \in Site}) < plan.writes
    /\ data' = [data EXCEPT ![s] = @ \cup {<<s, Cardinality(UNION {data[o] : o \in Site})>>}]
    /\ UNCHANGED <<plan, role, snap, caught, callVars, forces, faults>>

\* The schedule takes a mirror snapshot of a primary image.
MirrorSnapshot(s) ==
    /\ role[s] = "primary" /\ s \in sched /\ snap[s] # data[s]
    /\ snap' = [snap EXCEPT ![s] = data[s]]
    /\ UNCHANGED <<plan, role, data, caught, callVars, forces, faults>>

\* The rbd-mirror daemon of s brings the peer's last snapshot over, and with it
\* the peer's demotion; it makes the image the first time.
Replay(s) ==
    /\ role[s] \in {"absent", "secondary"} \/ (role[s] = "demoted" /\ role[Peer(s)] = "primary")
    /\ role[Peer(s)] \in {"primary", "demoted"}
    /\ data[s] \subseteq snap[Peer(s)]
    /\ role[s] # "secondary" \/ data[s] # snap[Peer(s)] \/ caught[s] # (role[Peer(s)] = "demoted")
    /\ role' = [role EXCEPT ![s] = "secondary"]
    /\ data' = [data EXCEPT ![s] = snap[Peer(s)]]
    /\ caught' = [caught EXCEPT ![s] = role[Peer(s)] = "demoted"]
    /\ UNCHANGED <<plan, snap, callVars, forces, faults>>
-----------------------------------------------------------------------------
SiteNext(s) ==
    \/ EnableImage(s) \/ EnableSchedule(s) \/ DisableSchedule(s) \/ DisableImage(s)
    \/ Promote(s) \/ PromoteForced(s) \/ Demote(s) \/ Resync(s)
    \/ Fence(s) \/ Unfence(s) \/ BlocklistRange(s) \/ FenceReply(s) \/ FenceExpires(s)
    \/ Interrupt(s)
    \/ Write(s) \/ MirrorSnapshot(s) \/ Replay(s)

Next == Flatten \/ \E s \in Site : SiteNext(s)

-----------------------------------------------------------------------------
(* Properties *)

\* Failovers: from the fencing of a site's networks being acknowledged
\* (blocklistRange did every one of them) until an entry of it lapses, promoting
\* its peer by force never leaves the application able to write on both sites,
\* through fence calls that fail half-way and are repeated, and whichever site's
\* replication is disabled.  Left out is a site whose promotion was acknowledged
\* while it was secondary still and whose image was then disabled by force.
OneWritableSite ==
    \A s, o \in Site :
        s # o /\ Writable(s) /\ Writable(o) /\ Runs(s) /\ Runs(o)
            => severed \/ s \in lapsed \/ o \in lapsed

\* Planned failovers: PromoteVolume passes --force only when asked, so as long
\* as nobody asked for it a primary image holds every write ever made, also where
\* the VolumeReplication of the site that was left is deleted.
RelocationKeepsWrites ==
    forces = 0 /\ ~severed =>
        \A s \in Site : role[s] = "primary" => UNION {data[o] : o \in Site} \subseteq data[s]

\* EnableVolumeReplication acknowledged, with an interval: the schedule is there,
\* also when an attempt died after the image was enabled, so the writes of a site
\* that stays primary reach its peer.
Replicates ==
    plan.interval => \A s \in Site :
        <>[](s \in enabled /\ role[s] = "primary" /\ role[Peer(s)] \in {"absent", "secondary"})
            => <>[](data[Peer(s)] = data[s])

\* "mirroring will enable on a retry" (EnableVolumeReplication on a clone): the
\* controller's retries end in success, through flattens that fail, plugin
\* restarts and interrupted attempts.
EnableConverges ==
    "enable" \in plan.calls /\ "disable" \notin plan.calls => <>(Home \in enabled)
=============================================================================
