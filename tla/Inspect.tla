------------------------------- MODULE Inspect -------------------------------
(***************************************************************************)
(* bard-csi --inspect beside a running driver: a process of its own that    *)
(* reads the configuration, then Kubernetes, then the plugins, one          *)
(* collection after the other (internal/inspect/collect.go), and compares   *)
(* what it read (checks.go).  Creates, deletes, attachments and a plugin    *)
(* that restarts without one of its instances go on between two reads.      *)
(*                                                                          *)
(* A handle is a pair <<object, instance>>.  A PersistentVolume, or a       *)
(* VolumeSnapshotContent, is there as long as its object is Live.           *)
(***************************************************************************)
EXTENDS DriverCalls

VARIABLES
    blind,       \* instances missing from the plugin's own configuration
    losses,      \* times an instance or a node went missing
    nodes,       \* the Node objects, see CheckTopology
    attached,    \* VolumeAttachments, <<object, node name>>
    scan,        \* the next step of the scan
    scans,
    scfg,        \* what the scan read: the configuration,
    pvs,         \* handles of PersistentVolumes,
    contents,    \* handles of VolumeSnapshotContents, or None when it could not,
    seen,        \* Nodes, or None,
    csinodes,    \* names of CSINodes the driver is registered on, or None,
    vas,         \* VolumeAttachments, or None,
    vols,        \* the volumes the plugin listed, or None,
    snaps,       \* the snapshots the plugin listed, or None,
    probes,      \* [handles of PVs not in the list -> what the health probe said]
    report,      \* the findings, or None
    drift0,      \* history: the drift there was when the scan began
    hidden,      \* history: instances the plugin lacked at some time since then
    revived      \* history: handles of objects made again after their id was given

clusterVars == <<blind, losses, nodes, attached>>
readVars == <<scfg, pvs, contents, seen, csinodes, vas, vols, snaps, probes>>
scanVars == <<scan, scans, readVars, report, drift0, hidden>>
allVars == <<vars, clusterVars, scanVars, revived>>

\* The handles Kubernetes keeps for volumes and for snapshots.
PVs == {<<o, handle[o]>> : o \in Live \ Snapshots}
Contents == {<<o, handle[o]>> : o \in Live \cap Snapshots}

\* Objects no plugin lists: plan.elsewhere are those outside the pools it looks in,
\* plan.shallow CephFS's shallow volumes, which are no subvolumes.
Unlistable == plan.elsewhere \cup plan.shallow

\* What a plugin's ListVolumes and ListSnapshots return: the objects in the
\* pools of the instances it is configured with.  (Left out: CephFS takes a
\* subvolumegroup ls that fails for there being no groups, and the client drops
\* a snapshot without a source.)
Listed == {p \in store : p[2] \notin blind /\ p[1] \notin Unlistable}

InspectInit ==
    /\ Init
    /\ blind = {} /\ losses = 0 /\ nodes = plan.nodes /\ attached = {}
    /\ scan = "idle" /\ scans = 0 /\ scfg = {} /\ pvs = {} /\ contents = None
    /\ seen = None /\ csinodes = None /\ vas = None /\ vols = None /\ snaps = None
    /\ probes = [p \in {} |-> None]
    /\ report = None /\ drift0 = {} /\ hidden = {} /\ revived = {}

-----------------------------------------------------------------------------
(* Around the scan *)

\* A plugin restarts without, or again with, one of its instances.
PluginRestart(i) ==
    /\ losses < plan.losses
    /\ losses' = losses + 1
    /\ blind' = IF i \in blind THEN blind \ {i} ELSE blind \cup {i}
    /\ hidden' = IF scan = "idle" THEN hidden ELSE hidden \cup blind'
    /\ UNCHANGED <<vars, nodes, attached, scan, scans, readVars, report, drift0, revived>>

\* A node is deleted by force; its attachments stay.
NodeLost(n) ==
    /\ losses < plan.losses
    /\ losses' = losses + 1
    /\ nodes' = nodes \ {n}
    /\ UNCHANGED <<vars, blind, attached, scanVars, revived>>

\* The attach-detach controller makes and deletes VolumeAttachments.
AttachNew(o, n) ==
    /\ "attach" \in plan.ops /\ o \in Live \ Snapshots /\ <<o, n.name>> \notin attached
    /\ attached' = attached \cup {<<o, n.name>>}
    /\ UNCHANGED <<vars, blind, losses, nodes, scanVars, revived>>

AttachEnd(a) ==
    /\ "detach" \in plan.ops
    /\ attached' = attached \ {a}
    /\ UNCHANGED <<vars, blind, losses, nodes, scanVars, revived>>

\* A plugin makes nothing on an instance it is not configured with; those of local
\* volume groups (plan.local: lvm, iscsi) delete without asking for the instance.
DriverStep ==
    /\ Next
    /\ \A p \in store' \ store : p[2] \notin blind
    /\ \A p \in store \ store' : p[2] \notin blind \/ plan.local
    /\ revived' = revived \cup {p \in store' \ store : p[2] = handle[p[1]]}
    /\ UNCHANGED <<clusterVars, scanVars>>

-----------------------------------------------------------------------------
(* The checks: pure functions of what was read *)

\* Mutant of MissingInstances: one missing instance stands for its whole backend.
MissingBackend ==
    IF \E q \in DOMAIN probes : probes[q] = "unknown" THEN {c.inst : c \in scfg} ELSE {}

\* missingInstances: the instances a probe proved the plugin cannot see.
MissingInstances == {p[2] : p \in {q \in DOMAIN probes : probes[q] = "unknown"}}

\* ghostCandidates: PVs whose volume the plugin listed without it.
GhostCandidates == IF vols = None THEN {} ELSE pvs \ vols

\* checkHandleConfig: the instance must be in the configuration.
UnknownInstances(handles) ==
    {p \in handles : p[2] \notin {c.inst : c \in Watch!OfType(scfg, Type)}}

Probed(p, said) == p \in DOMAIN probes /\ probes[p] = said

\* checkVolumes, both directions.
CheckVolumes ==
    LET ghosts == {p \in GhostCandidates : p[2] \notin MissingInstances}
    IN [ghosts       |-> {p \in ghosts : ~Probed(p, "healthy")},
        confirmed    |-> {p \in ghosts : Probed(p, "gone")},
        inconsistent |-> {p \in ghosts : Probed(p, "healthy")},
        orphans      |-> IF vols = None THEN {} ELSE vols \ pvs]

\* checkSnapshots: no probe of their own; nothing without the contents.
CheckSnapshots ==
    IF contents = None \/ snaps = None THEN [ghosts |-> {}, orphans |-> {}]
    ELSE [ghosts  |-> {p \in contents \ snaps : p[2] \notin MissingInstances},
          orphans |-> snaps \ contents]

\* zoneResolvable: meant to mirror Resolve's fallbacks.
ZoneResolvable(t, zone) ==
    LET of == Watch!OfType(scfg, t)
    IN (\E c \in of : c.zone = zone) \/ (\E c \in of : c.dflt) \/ (\E c \in of : of = {c})

\* checkTopology.  A node is [name, zone: its label or "", reported: the zone the
\* driver registered or "", registered, keyed: registered with the zone key]; that
\* it is registered is known from the CSINodes only.
Registration == IF seen = None \/ csinodes = None THEN {} ELSE {n \in seen : n.name \in csinodes}

CheckTopology ==
    LET read == IF seen = None THEN {} ELSE seen
    IN [nozone    |-> {n \in Registration : ~n.keyed}
                      \cup {n \in read \ Registration : csinodes # None /\ n.zone = ""},
        collision |-> {n \in read : {n.zone, n.reported} \cap {""} = {} /\ n.zone # n.reported},
        nobackend |-> {x \in Registration \X {c.type : c \in scfg} :
                          x[1].zone # "" /\ ~ZoneResolvable(x[2], x[1].zone)},
        nonodes   |-> IF seen = None THEN {}
                      ELSE {c \in scfg : c.zone \notin {n.zone : n \in read}}]

\* checkAttachments: on a node, or of a PV, that was not read.
CheckAttachments ==
    IF vas = None THEN {}
    ELSE {a \in vas : \/ seen # None /\ a[2] \notin {n.name : n \in seen}
                      \/ a[1] \notin {p[1] : p \in pvs}}

\* The registry of the scan has a plugin to ask: the built-in plugins all list.
Asked == Watch!Registered(scfg, Type)

\* Collections that were denied or failed: a degraded scan says so.
Skips ==
    LET got == [contents |-> contents, nodes |-> seen, csinodes |-> csinodes,
                attachments |-> vas, volumes |-> vols, snapshots |-> snaps]
    IN {k \in DOMAIN got : got[k] = None /\ (k \in {"volumes", "snapshots"} => Asked)}

\* Check.
Findings ==
    [missing  |-> MissingInstances,
     unknown  |-> UnknownInstances(pvs \cup (IF contents = None THEN {} ELSE contents)),
     volumes  |-> CheckVolumes,
     snaps    |-> CheckSnapshots,
     topology |-> CheckTopology,
     stale    |-> CheckAttachments,
     skips    |-> Skips]

-----------------------------------------------------------------------------
(* The scan *)

\* What Kubernetes and the backends disagree about, at any time.
Drift ==
    [leaks  |-> {p \in store : p \notin PVs \cup Contents},
     ghosts |-> (PVs \cup Contents) \ store,
     stale  |-> {a \in attached : a[1] \notin Live \/ a[2] \notin {n.name : n \in nodes}}]

Reading(step, next) ==
    /\ scan = step
    /\ scan' = next
    /\ UNCHANGED <<vars, clusterVars, scans, report, drift0, hidden, revived>>

\* What is read, or nothing when the call is denied or fails.
Fetched(truth) == {truth} \cup (IF plan.skips THEN {None} ELSE {})

\* loadConfig and build: the scan ends here when there is no configuration.
ScanStart ==
    /\ scan = "idle" /\ scans < plan.scans
    /\ Watch!Buildable(api)
    /\ scans' = scans + 1
    /\ scan' = "pvs"
    /\ scfg' = api
    /\ report' = None
    /\ drift0' = Drift /\ hidden' = blind
    /\ UNCHANGED <<vars, clusterVars, pvs, contents, seen, csinodes, vas, vols, snaps, probes,
                   revived>>

\* An unreadable PV list fails the scan.
FetchPVs ==
    /\ \/ Reading("pvs", "contents") /\ pvs' = PVs
       \/ plan.skips /\ Reading("pvs", "idle") /\ pvs' = {}
    /\ UNCHANGED <<scfg, contents, seen, csinodes, vas, vols, snaps, probes>>

FetchContents ==
    /\ Reading("contents", "nodes")
    /\ contents' \in Fetched(Contents)
    /\ UNCHANGED <<scfg, pvs, seen, csinodes, vas, vols, snaps, probes>>

FetchNodes ==
    /\ Reading("nodes", "csinodes")
    /\ seen' \in Fetched(nodes)
    /\ UNCHANGED <<scfg, pvs, contents, csinodes, vas, vols, snaps, probes>>

FetchCSINodes ==
    /\ Reading("csinodes", "attachments")
    /\ csinodes' \in Fetched({n.name : n \in {m \in nodes : m.registered}})
    /\ UNCHANGED <<scfg, pvs, contents, seen, vas, vols, snaps, probes>>

FetchAttachments ==
    /\ Reading("attachments", "volumes")
    /\ vas' \in Fetched(attached)
    /\ UNCHANGED <<scfg, pvs, contents, seen, csinodes, vols, snaps, probes>>

\* collectBackendTruth, volumes and then snapshots.
ListVolumes ==
    /\ Reading("volumes", "snapshots")
    /\ vols' \in IF Asked THEN Fetched({p \in Listed : p[1] \notin Snapshots}) ELSE {None}
    /\ UNCHANGED <<scfg, pvs, contents, seen, csinodes, vas, snaps, probes>>

ListSnapshots ==
    /\ Reading("snapshots", "probe")
    /\ snaps' \in IF Asked THEN Fetched({p \in Listed : p[1] \in Snapshots}) ELSE {None}
    /\ UNCHANGED <<scfg, pvs, contents, seen, csinodes, vas, vols, probes>>

\* Mutant of Verdict: a probe that is refused counts as an answer.
VerdictRefused(p) == IF p \in store /\ p[2] \notin blind THEN "healthy" ELSE "gone"

\* GetVolumeHealth.  An instance the plugin has no configuration for is refused, but
\* by lvm and iscsi, which look for the logical volume the handle names; cephfs
\* looks for a subvolume, and a shallow volume is none.
Verdict(p) ==
    IF p[2] \in blind /\ ~plan.local THEN "unknown"
    ELSE IF p \in store /\ p[1] \notin plan.shallow THEN "healthy" ELSE "gone"

\* probeGhostCandidates, one call per candidate; an inconclusive or unsupported
\* probe leaves the ghost standing.
Probe ==
    /\ Reading("probe", "probe")
    /\ \E p \in GhostCandidates \ DOMAIN probes :
          \E said \in {Verdict(p)} \cup (IF plan.skips THEN {"failed"} ELSE {}) :
             probes' = [q \in DOMAIN probes \cup {p} |-> IF q = p THEN said ELSE probes[q]]
    /\ UNCHANGED <<scfg, pvs, contents, seen, csinodes, vas, vols, snaps>>

\* The report is written and the process ends.
Check ==
    /\ scan = "probe" /\ GhostCandidates \subseteq DOMAIN probes
    /\ report' = Findings
    /\ scan' = "idle"
    /\ pvs' = {} /\ contents' = None /\ vas' = None /\ vols' = None /\ snaps' = None
    /\ probes' = [p \in {} |-> None]
    /\ UNCHANGED <<vars, clusterVars, scans, scfg, seen, csinodes, drift0, hidden, revived>>

ScanStep ==
    \/ ScanStart \/ FetchPVs \/ FetchContents \/ FetchNodes \/ FetchCSINodes
    \/ FetchAttachments \/ ListVolumes \/ ListSnapshots \/ Probe \/ Check

InspectNext ==
    \/ DriverStep
    \/ ScanStep
    \/ \E i \in plan.instances : PluginRestart(i)
    \/ \E n \in nodes : NodeLost(n) \/ \E o \in plan.objs : AttachNew(o, n)
    \/ \E a \in attached : AttachEnd(a)

\* The driver and its watch goroutine as in FairSpec; nothing makes a scan run.
InspectSpec ==
    InspectInit /\ [][InspectNext]_allVars
    /\ WF_vars(WatchList) /\ WF_vars(WatchEvent) /\ WF_vars(SetBackends)

-----------------------------------------------------------------------------
(* Properties *)

\* A ghost "confirmed by a direct probe" is gone: neither a plugin that lost the
\* instance, nor a volume outside the pools it lists, nor creates and deletes
\* between two reads make the report declare the data of a volume that exists
\* lost (probeGhostCandidates and checkVolumes).  Two exceptions: a volume that a
\* create made again whose caller had given up and had got the id from a retry; and
\* CephFS's shallow volumes, each of which is reported as lost while it is in use,
\* although "every ghost candidate is double-checked with a direct per-volume probe
\* [...] so a listing gap doesn't cry wolf" (docs/inspect.md).
ConfirmedGhostsGone ==
    report # None =>
        \A p \in report.volumes.confirmed \cap store : p \in revived \/ p[1] \in plan.shallow

\* Drift that was there when the scan began and still is has a finding, or the
\* report says which collection it could not read: a leaked volume or snapshot is
\* an orphan; a lost one is a ghost, or on an instance the plugin really lacks, or
\* of an instance no longer configured; an attachment to a node or a PV that is
\* gone is stale.  Only what no plugin lists, because it lost the instance, looks
\* in other pools, for subvolumes, or has no backend left, stays out of a report's
\* sight, and what came back in between (see ConfirmedGhostsGone).  And a node
\* is reported as one whose zone no backend serves exactly when Resolve would refuse
\* a volume for it (zoneResolvable mirrors it).
DriftReported ==
    report # None =>
        /\ \A p \in (drift0.leaks \cap Drift.leaks) \ revived :
              p[2] \in hidden \/ p[1] \in Unlistable \/ ~Asked
              \/ p \in report.volumes.orphans \cup report.snaps.orphans
              \/ report.skips \cap {"volumes", "snapshots", "contents"} # {}
        /\ \A p \in (drift0.ghosts \cap Drift.ghosts) \ revived :
              p \in report.volumes.ghosts \cup report.snaps.ghosts \cup report.unknown
              \/ p[2] \in report.missing \cap hidden
              \/ report.skips \cap {"volumes", "snapshots", "contents"} # {}
        /\ \A a \in drift0.stale \cap Drift.stale :
              a \in report.stale \/ report.skips \cap {"nodes", "attachments"} # {}
        /\ \A n \in Registration, c \in scfg :
              n.zone # "" =>
                 (<<n, c.type>> \in report.topology.nobackend
                    <=> Watch!Resolve(scfg, c.type, <<n.zone>>, <<>>) = {})
=============================================================================
