# Formal models of the Bard CSI driver

Bard is a CSI driver that forwards Kubernetes storage calls to per-backend
plugin processes. A plugin turns each call into a sequence of external commands
(`rbd`, `ceph`, `lvcreate`, `targetcli`, `iscsiadm`, `cryptsetup`, `mount`, KMS
requests). Every call may be retried, interrupted between two commands, or run
beside another one. These TLA+ modules model the sequences, what the commands do
to the outside world, and the orchestrator that keeps retrying. TLC checks small
instances; TLAPS proves the safety properties of most of the modules for every
instance.

## The system

| Part | State | Operations | Talks to |
|---|---|---|---|
| driver (`internal/driver`) | in-flight claims, atomic pointer to the backends | CSI controller and node calls, csi-addons services | dispatch, plugin clients |
| dispatch, volume ids | zone claims per backend type | choose an instance for a request, parse a handle | driver |
| configuration watch (`internal/config/crd.go`) | resource version, loaded clusters | list, watch, reload, swap of the backends | Kubernetes API, driver |
| plugin client, `pkg/bardplugin` | none; a deadline per request | HTTP calls, error classes | plugin processes |
| ceph-rbd plugin | images, image-meta, snapshots, flatten workers, snapshot name index | create, delete, expand, snapshot, clone, flatten | Ceph cluster, KMS |
| ceph-rbd node side | device records, maps, mounts, blocklist | stage, unstage, publish, unpublish, heal | kernel, Ceph cluster |
| ceph encryption (`internal/cephenc`) | LUKS slots, image-meta, KMS entries | first key, clone, rotate, delete | Vault, Azure, KMIP, AWS |
| iscsi plugin | exports, sessions, SCSI devices, staged-state records, target locks | attach, detach, stage, unstage; volumes and snapshots | targetd or local LIO, kernel |
| cephfs, lvm, nfs, localpath plugins | subvolumes, logical volumes, directories | the same CSI calls | Ceph, LVM, NFS server, disk |
| replication, fences, groups | mirror state, blocklist ranges, group members | enable, promote, fence, modify | Ceph clusters |
| `--inspect` | what a scan has read so far | read, probe, compare, report | Kubernetes API, plugins |

The driver refuses a second call on a claim that is held: `volume-name:<name>`,
`snapshot-name:<name>`, `volume:<id>`, `snapshot:<id>`, `attach:<id>@<node>` and
`node:<id>`. The csi-addons services, key rotation among them, take no claim.
Claims live in memory, so two processes, or a process and its successor, do not
exclude one another.

What makes it hard: a handler may die between any two commands and be retried;
background workers are lost with the process; records outlive a reboot while
device names do not; several copies of a fact (LUKS slot, image-meta, KMS entry)
change one after the other; locks cover some steps of a handler and not others.

## Modules

| Module | Models | Abstracts |
|---|---|---|
| `ObjectService` | what a CSI caller may rely on for a volume or a snapshot | an object is absent, partial or ready |
| `Orchestrator` | the sidecars' requests and retries, one handler at a time per object | |
| `NodeMounts` | findmnt, mount, bind, remount and unmount, which every plugin repeats | one node |
| `RbdVolumes` | controller calls of `cephplugin.go`, one step per rbd command, flatten workers, restarts | sizes are small numbers, content is the root volume it came from |
| `RbdNode` | NodeStage, NodeUnstage, NodePublish, NodeUnpublish, fencing, `healer.go` | a filesystem is none, empty or holding data |
| `RbdKeys` | key life cycle: `encryption.go`, the providers of `cephenc`, the encryption parts of create, snapshot and delete | a passphrase is a number, a header the set of passphrases that open it |
| `IscsiTarget` | LUN grants of `targetd.go`; stage and unstage on one portal or several (dm-multipath), target lock, records, reboot | one node; a LUN number per export |
| `IscsiVolumes` | logical volumes, their LIO exports, access lists, snapshots, clones; targetd; an instance missing from the configuration | the pieces of an export are a set |
| `LvmVolumes` | controller and node calls of the LVM plugin, thick and thin | a filesystem is the volume it was made for |
| `NfsVolumes` | directories, tar archives and sidecars, the handlers' own mounts, onDelete modes | a copy is whole or not |
| `CephFsVolumes` | subvolumes, asynchronous clones, shallow volumes, NFS exports, fscrypt keys | kernel and FUSE mounts are one |
| `Dispatch`, `ConfigWatch` | from BackendCluster resources to a dispatcher and its resolution; list, watch, reload | a resource is a record |
| `DriverCalls` | claims, dispatch, handles, deadlines, restarts, swap of the backends, over `Dispatch` and `ConfigWatch` | a call is a slot with a driver's and a plugin's half |
| `Inspect` | the scan of `--inspect` beside `DriverCalls` | findings without their wording |
| `RbdMirror`, `VolumeGroups`, `CsiAddons` | replication and fencing between two clusters, volume groups, and both together | a write is a number |
| `RbdVolumesProofs`, `RbdNodeProofs`, `IscsiProofs` (both iSCSI modules), `LvmVolumesProofs`, `NfsVolumesProofs`, `CephFsVolumesProofs`, `DriverCallsProofs` (with `Inspect`), `CsiAddonsProofs` | invariants and theorems | |
| `MC...` | instances for TLC | |

Each handler is a program counter per object (`create`, `delete`, `ctl`, `stage`,
`rot`, ...). An action is one command with everything the code does around it up
to the next command; its guard is the code's condition for getting there. Killing
the process, an expired deadline and a failing command are the interruptions:
the handler ends, what was done stays. `exec.CommandContext` kills the
command with the request, so a command's effect has happened or never will. A
restart forgets all memory; a reboot forgets sessions, maps and mounts, and keeps
the record files.

The orchestrator is modelled by what it knows (`wanted`, `acked`, `delWanted`,
`gone`, `staged`). It retries a call until it succeeds, does not delete a source
that a create in progress needs, deletes a volume only when it is unstaged, and
stages an exclusive volume on one node at a time. The last point is an
assumption of `RbdNode`: two NodeStage calls of one exclusive volume on two nodes
at the same moment could both find no watcher. The plugins' modules have one
handler at a time per object, which the driver's claims give as long as no call
outlives its caller; `DriverCalls` shows what happens when one does (see the limits).
In `RbdMirror` the orchestrator runs the application where it was promoted last, or at
its first site until a demotion (`Runs`), enables an image where the application runs,
and lifts a fence only of a site the application has left or whose image is
demoted or secondary; the plugin checks none of that.

The cluster's answers (`rbd rm` with snapshots, clone children, `rbd status`,
unmap) follow the repository's own test double, `internal/fakerun`.

`PROJECT.json` maps each definition to its lines. Definitions whose comment begins
with "Mutant of" are deliberately wrong variants of the next definition; for each
property one of them shows that the property can fail.

### The abstract service

`ObjectService` states once what all controller planes promise: an acknowledged
object is complete and stays so until its deletion is requested, and an
acknowledged deletion leaves nothing and nothing comes back. Before the
acknowledgement an object may be built, lost and rebuilt, several at once when a
plugin restarts. Each plugin's module
instantiates it with its own state mapped to `made` and checks `Served`, that
its specification implements the service. The mapping says what "ready" means
there: for rbd the image with its size, its content and no temporary snapshot;
for iSCSI an active LV with a full export; for NFS a whole copy; for CephFS a
completed clone with its export and key id. Snapshots are objects of the service
in the LVM, iSCSI, NFS and CephFS modules; those of rbd have properties of their own.

## Runs

- `rbd_volumes`: a volume, a clone of it, a snapshot and its restore, and an
  administrator's image; the snapshot's name is also asked of the clone; flatten at
  depth 1; one fault at any command. Acknowledged volumes and snapshots are there
  and serve, static images survive, no temporary snapshot stays behind, and a
  snapshot name is unique until a restart.
- `rbd_converge`: the same objects under fairness. Every create is acknowledged,
  and every delete too unless a VolumeSnapshot of the volume remains; `Served`.
- `rbd_node`: an exclusive volume on two nodes, a krbd and an nbd device on each,
  two faults (interruption, failed unmap, failed blkid, restart, failover, a blocklist
  entry that expires). One unfenced writer among the clients whose entry has not
  expired, no mkfs over data unless blkid failed, unstage frees its device.
- `rbd_keys`: a snapshot (captured or legacy), its restore, one rotation and one
  fault under each kind of provider; two rotations at once beside a PVC-PVC clone;
  two KMIP rotations with a fault. The stored key opens every header, and what a
  restore will inherit opens the snapshot's.
- `iscsi_target`: two volumes on a shared target, on targets of their own, behind
  one portal or two, with faults (an interruption, a lost answer, a blockdev or dmsetup
  that fails) and a reboot; one volume whose instance leaves the configuration. Distinct
  LUNs, no session left behind, success only after a verified detach, and a drain that
  ends where each volume has its own target.
- `iscsi_volumes`: one volume managed locally, one over targetd, a clone and a
  restore; faults and a time without the instance's configuration. `Served`, access
  that follows the attachments, retries that converge.
- `lvm_volumes`: a thin base with a plain, cloned or restored second volume and a
  snapshot of either, and the node. `Served`, filesystems fill their device and survive
  everything but a blkid that fails, snapshots stay listed after their source is gone.
- `nfs_volumes`: clone, restore, and two volumes of one directory, one after the other
  or at the same time, two faults. `Served`, which asks nothing of volumes that share
  a directory at the same time, and the node's mounts are what the kubelet was told.
- `cephfs_volumes`: a restore, a clone over NFS, a shallow volume, an encrypted
  volume, two faults. `Served`, where a shallow volume is ready as long as its snapshot
  is there, until the deletion of the snapshot is asked for; keys live as long as their
  volumes, deletions complete unless snapshots remain.
- `driver_calls`: six scenarios of calls, edits, failed reloads, deadlines and
  restarts, and nine of a scan beside them, with handlers that outlive their callers
  in most. Only one awaited handler per key, and no claim that nobody waits for; copies
  beside their source; a configuration that converges; confirmed ghosts are gone, but
  for shallow volumes; and drift that lasts is reported or the report says what it
  could not read.
- `csi_addons`: groups; enabling a clone; planned failovers with and without a
  schedule and with and without disabling; forced failovers behind a fence that may
  expire, with and without disabling. One writable site while the fence lasts, no write
  lost without force, replication that catches up, retries that end, true group replies.
- `rbd_heal` finds a disagreement. NodeStage's fence is said to make failover safe
  and the healer to be safe at startup; the healer reattaches a fenced client's
  device with a new client, so that a volume that failed over has two writers.
  `SingleWriter` of `rbd_node` leaves the healer's clients out.

Deadlock is checked in `rbd_node`, `rbd_heal` and `iscsi_target`, whose handlers can
wait for one another or for the kernel. The other systems may stop: all calls are
answered and the bounds are used up.

### Bounds

Two or three volumes and one snapshot contain every kind of content source, and
each property relates at most a volume, its source and a snapshot. One fault
places a crash at any command of any handler; the retry then runs against every
leftover. Runs have two where the interesting cases combine two interruptions, or a
failover or restart with one. Where one instance with everything in it would be
too large, a constant `Plans` (`Sources` in `LvmVolumes`, `Setups` in `IscsiTarget`) holds several scenarios and
Init chooses one: which objects take part, their sources, how many faults, which
calls. MaxKey bounds passphrases (one per volume and rotation), MaxUid KMIP objects,
MaxSize the target of an expansion, MaxLun the LUNs of a target, MaxGroupCalls
and MaxGroupFaults the group calls. Symmetry is used over nodes (`rbd_node`) and over
rotations (`rbd_keys`), in runs without temporal properties.

### Fairness

A command returns: weak fairness of every handler's next step in `RbdVolumes`,
`IscsiVolumes` and `CephFsVolumes`, of the flatten workers, and of mirroring and replay in
`RbdMirror`. The sidecars retry for ever: fairness of the retries of wanted calls,
strong in `IscsiVolumes`, where a retry is refused while the configuration is
missing, which the administrator restores in the end. `IscsiTarget`: the kernel drops
the devices of a closed session, multipathd reacts, and the drain calls every
unstage again; strong fairness of a handler's steps, since several handlers
wait for one `flock`, which the kernel grants to each of its waiters in the end.
`DriverCalls`: the watch lists again, receives the events sent to it and runs its
callback. `RbdNode`, `RbdKeys`, `LvmVolumes` and `NfsVolumes` have safety properties only.

## Disagreements and limits met while modelling

One is a run (`rbd_heal`). The models reach the following too, unless an entry says
otherwise; the properties are stated without them, and the hazards of `PROJECT.json`
name their lines.

- Fences expire. `osd blocklist add` and `osd blocklist range add` are called without
  an expiry (`cephplugin.go:2252-2253`, `networkfence.go:54`), and Ceph drops an entry after
  an hour by default. A failed-over client that still runs then writes again beside the
  new one, on a node (`FenceExpires` of `RbdNode`) or a site (that of `RbdMirror`); nothing
  renews an entry. `SingleWriter` leaves such clients out (`expired`), and
  `OneWritableSite` ends where an entry of an acknowledged fence lapses (`lapsed`); a
  repeated fence call makes it good.
- `blkid`'s error is discarded, so that a probe that fails on a device with data is
  followed by mkfs (`cephplugin.go:2441`, `lvmplugin.go:498`). `DataSurvivesStage` and
  `DataSurvives` are about every other mkfs.
- An error of `blockdev` or `dmsetup` is read as the device or map being gone
  (`iscsiplugin.go:1603`, `1644`, `1675`): the unstage succeeds and the record goes while the LUN
  may still be attached. `DetachVerified` is about unstages whose checks answered.
- An iSCSI unstage without a record, of an instance that is not configured, succeeds
  and leaves the session (`iscsiplugin.go:1522`). `NoSessionLeft` and `DrainCompletes` ask
  for sessions to go while the instance is configured.
- Two NFS volumes whose `subDir` templates expand to one directory are told apart by
  nothing (`nfsplugin.go:120-127`, `200-204`): a deletion of one, or a late retry of it,
  removes or renames the other's data (`257`, `262`). `Served` of `NfsVolumes` covers
  volumes that use a directory one after the other, and all other objects beside
  volumes that share one; a copy of such a volume is a copy of the directory.
- A CephFS shallow volume is a handle on a snapshot and holds no reference to it
  (`cephfsplugin.go:743-763`): `DeleteSnapshot` (`638-664`) takes the data of an acknowledged
  volume away. `Served` has it ready until the deletion of its snapshot is asked for.
- A claim is released when its caller gives up (`client.go:121`), and nothing ends or
  waits for the handler, which may ignore its context (`os.RemoveAll`, `nfsplugin.go:262`).
  `inflight.go:10-18` says of the claims that "the retry lands after the original
  finishes"; in `DriverCalls` it runs beside the original's handler. `OneHandler` is
  what remains: of two handlers of a key at least one is not awaited any more. A create
  that was given up can bring an object back after its deletion (`revived`), which the
  properties of the scan leave out.
- `--inspect` confirms every CephFS shallow volume in use as a ghost: it is never listed
  (`cephfsplugin.go:956-977`) and its probe looks for a subvolume (`901-923`). `docs/inspect.md:55`
  says that "every ghost candidate is double-checked with a direct per-volume probe
  [...], so a listing gap doesn't cry wolf". `ConfirmedGhostsGone` names the exception.
  The probes of LVM (`lvmplugin.go:533`) and local iSCSI (`iscsiplugin.go:1930`) answer
  for an instance that is not configured (`plan.local`), which the property survives.
- PromoteVolume takes any error that contains "primary" for success
  (`replication.go:239`). If the replication of an image that is still secondary is then
  disabled by force, it is an ordinary image without the latest writes, at a site
  that was told to run (`severed`); `OneWritableSite` and `RelocationKeepsWrites` leave it out.
- A configuration reload that fails after the cursor advanced is dropped until the
  next event (`crd.go:226-229`). `ConfigConverges` is about the others (`lost`).
- The healer drops a record that a stage has written meanwhile (`healer.go:63`), and a
  stage may die between map and record: the unstage then succeeds with the device
  mapped. `UnstageFrees` leaves those paths out (`lapsed`).
- A clone of a clone inherits its parent's source stamp with the image-meta. If
  the create dies before its own stamp, the same request is refused for ever
  (`cephplugin.go:798-800`, whose comment says an unstamped image is accepted on
  retry). No instance clones a clone.
- The record of a device name survives a reboot; the retried stage mounts
  whatever image now has that name (`cephplugin.go:2058-2062`).
- A snapshot of a never-staged volume has no KMIP UID. If the volume is staged
  before the restore, the restore keeps the UID librbd copied, and deleting
  either destroys the key of both (`kms_kmip.go:138-156`; `keyless` in `RbdKeys`).
  Copies made while a rotation of their source commits are left out too
  (`raced`; documented in `CreateSnapshot`).
- The iSCSI stage writes its record outside the target lock; an unstage in
  between logs the shared session out under it (`iscsiplugin.go:1344`, `1574`).
- On a shared iSCSI target a drain may never end: after a reboot with two records
  each unstage waits for a device that does not come back. `DrainCompletes` is
  stated for a target per volume, so it does not show that waiting for the flock of
  a shared target ends.
- An iSCSI instance with its own `iqnBase` that is missing from the configuration
  is looked for under the default name (`iscsiplugin.go:785`, `978`).
- A thin clone interrupted between lvcreate and its activation is never
  activated: LVM acknowledges it and cannot stage it (`lvmplugin.go:293`), iSCSI
  cannot export it (`iscsiplugin.go:416`). `Converges` leaves clones out.
- A read-only publish interrupted before its remount is found mounted on the
  retry and stays writable (`Bind` of `NodeMounts`).
- rbd: deleting a clone of an administrator's image is acknowledged and leaves the
  image, since the clone inherits the static mark (`cephplugin.go:1337`). The
  instance of `rbd_converge` has no static image, and the theorem on `Served`
  assumes `NoStaticSource`.
- With onDelete=archive, the second NFS volume of one name cannot be archived
  (`nfsplugin.go:257`).
- `--inspect` may report a live snapshot as a ghost when the plugin lost its
  instance, and an attachment made between two reads as stale (`checks.go:199`,
  `400`). The properties are about confirmed ghosts and about missed drift.
- Not in the models: CephFS takes a `subvolumegroup ls` that fails for there being no
  groups (`cephfsplugin.go:936-945`), and the client drops a snapshot without a source
  (`client.go:398`), so that a scan can miss drift there without saying so. Two calls for
  one volume group at the same time. A clone whose flattenMode is never, which
  `EnableConverges` would not hold of.

## Proofs

All theorems hold for every value of the constants that satisfies the named
assumptions, which TLC evaluates on the instances: `Requests` (`RbdVolumes`: a
restore's snapshot belongs to its source, no volume is its own source, static
images are no clones), `Shape` (`RbdNode`, `IscsiTarget`: disjointness and ranges;
for iSCSI finitely many volumes and a LUN for each), `Scenarios` (`DriverCalls`: a
plan names slots and objects of the model, and the copies it starts with lie beside
their sources), `TwoSites` (`RbdMirror`), and `Instance` (LVM, NFS, CephFS, iSCSI volumes: objects
are told apart from each other and from `None`, sources and sizes are of the model,
and a plan asks for nothing the plugin refuses before any work). What a theorem needs
beyond these is an ASSUME or a hypothesis of that theorem.

### Controller planes

`RbdVolumesProofs`: `TypesHold`, `AcknowledgedVolumesServe`, `AdminImagesSurvive`,
`TemporarySnapshotsGo` and `AcknowledgedSnapshotsLive`. None of the properties is
inductive. `IInv` adds what the handlers know at each command: `CreateProgress`
(past `size` the image exists, past `resize` it is large enough, past `tail` the
temporary snapshot is gone, ...), `Content` (every image has the content of its
source's root), `SnapsOnImages`, `SnapHandlers`, `Owed` (what an acknowledged volume
may count on, the reported capacity included), `DeleteProgress` and `AdminImages`.
The point of `Content` is that a clone's content is fixed when it is cloned, while
its acknowledgement may come many crashes later, after the source has gone.
`SnapshotNamesUnique` rests on `NameInv`: until a restart the name index knows the
volume of every live snapshot of a name and of the one that is being made.
`RbdServesVolumes` is the refinement of `ObjectService`, when no volume is cloned
from a static image (`NoStaticSource`; see the limits above). It uses `IInv` and
`Roots`: only administrators' images carry the mark, and every root is a volume
that is no clone. Each command is shown to be a step of the service or a stutter.

`LvmVolumesProofs`, `NfsVolumesProofs`, `CephFsVolumesProofs` and the second half of
`IscsiProofs` share an argument: a step works on one object. A lemma per operation shows that it leaves its own
object as the invariant wants it, that no other object can tell (`Apart`), and which
step of the service its caller sees (`Shown`); `OneStep` concludes for all objects.

- LVM: `LvmServes`, `LvmListsSnapshots`, `LvmStagedFills`, and `LvmKeepsData`, an action
  property. `LvmInv` has, per volume, how far its create has come and what the node may
  count on, and per snapshot that its source tag follows its origin, which is why it
  stays listed when the origin is gone.
- NFS: `NfsServes` and `NfsTellsKubelet`. Two volumes may name one directory. In an orderly
  plan they do so one after the other, and the argument needs an owner for each
  directory and `Exclusive`: of two such volumes one is gone, and where deletions retain
  there is never a second. In any other plan the service's objects are those `Keeps`
  names, and it is shown that volumes that share a directory take nothing from them.
- CephFS: `CephFsServes`, `CephFsStagedKeyed` and `CephFsNoKeyLeft`. `Rooted` ties objects:
  a snapshot, temporary ones included, is of a subvolume that is there and was
  served. It is what keeps a removal, a copy and a snapshot of one subvolume from
  meeting halfway, and it carries the snapshot under a shallow volume to the moment its
  deletion is asked for. `Keyed` says why a deletion finds the key: a key exists only while
  its subvolume does and no deletion has passed it, and the id that finds it was
  recorded before the volume was acknowledged. A restart is the one step on several
  objects: it ends every attempt at once, none of them acknowledged. The first form of
  `ObjectService` let one object change per step, which small instances satisfied and
  this proof did not: with two shallow volumes about to be acknowledged a restart
  takes both back. `Work` is therefore over all objects that are wanted and not
  acknowledged.
- iSCSI: `IscsiServes` and `IscsiAccessFollows`. `VolumesInv` says, per volume, which pieces
  of the export lie behind the handler (`Exported`), that a backstore stands on an active
  LV only, so that an export is never acknowledged over a clone that was not activated,
  and that the access list is ahead of what the attacher was told (`OnList`). Both assume
  `KeepsBase`: an instance under local management that can drop out of the configuration
  keeps the default `iqnBase`. Without it a delete looks for the target under another
  name, finds none and is acknowledged (see the limits); with it `Found` is invariant.

### Nodes

`RbdNodeProofs`: `OneWriter` (`SingleWriter` for any number of nodes). The property
alone does not survive a map: it must be known that no live client of another node
is left when NodeStage goes on to map. `NodeInv` carries that through the commands:
only the node the orchestrator has the volume on is about to map it (`Placed`), every
live client is on the list of a stage that is fencing, and none is left when it
maps (`Guarded`). An entry may expire at any time; what it had kept out is then no
client the property speaks of, and a later stage fences it again.
`UnstageLeavesNoDevice` rests on `TrackInv`: a mapped device is in the volume's record, or in the hands of the stage about to record it, or its path
counts as lost, which the property leaves out: a stage died between map and record, or
the healer dropped a record that was in use again.
`StageSparesData` says that mkfs erases no pod's data unless blkid failed, under `Apart`:
no node serves two volumes. `DataInv` has it that a stage about to format after a probe
that answered reaches a blank image or none. The hypothesis is needed:
with two volumes on a node, the record of one may name a device that the kernel has since given to the other (see the limits).

`IscsiProofs`, on `IscsiTarget`: `LunsStayUnique`, `SessionsGo` and `DetachIsVerified`. `LunInv`
relates the listing a grant holds to the exports while the access lock is held;
with finitely many volumes a LUN is free, and the least one differs from every
listed one. `Held` says that, while the instance is configured, every
session has a volume of its target that still has to be unstaged and whose handler has not passed its logout (`Past`). That needs
to know what an unstage counted under the lock (`Counted`), that only the holder of
the lock is between counting and logging out, and, with several portals, which
legs it has already logged out of.

### Driver, scan, csi-addons

`DriverCallsProofs`: `HandlersExclude` (`OneHandler`) and `CopiesStayBeside`. A claim
belongs to the call that waits, while its handler may outlive it and run beside the
retry's. `CallsInv` says that the claims are exactly the keys of the waiting calls, which
have different keys (`Claimed`), and that a create in flight, given up or not, is bound
for its source's instance, whose handle no longer changes (`Placed`). For the scan,
`ConfirmedAreGone` and `LastingDriftReported`, and `ScansLeaveTheDriver`. A scan reads over
time what the driver goes on changing, so `ScanInv` says of each drift present at its
start what the reads so far must have shown of it, or why it no longer counts. `Settled`
supplies what makes that stable: what a delete removed does not come back, unless a
create that was given up brings it back (`revived`).

`CsiAddonsProofs`: `OneSiteWrites` and `RelocationsKeepWrites`, for any number of
networks, faults, forced failovers, expiring fences and disables in any order. `MirrorInv`
says which sites the application runs at: a demotion that has arrived is of a site it
has left, and two sites are live by force only, one of them fenced (`Follows`); and without
force the site that leads, or led last, holds every write (`Holds`). A disabled image is an
ordinary one, which is why the argument is about the sites the application runs at
(`Running`) and not about roles alone. `FenceInv` has it that an acknowledged fence blocks
every network until an entry lapses. `GroupRepliesTrue` rests on the fact that a group being
worked on has no reply outstanding.

### Only model-checked

Liveness (`DeletesComplete`, `Converges`, `ConfigConverges`, `DrainCompletes`,
`CreatesConverge`, `DeletesConverge`, `Replicates`, `EnableConverges`), since neither
fairness nor ENABLED is in the prover's reach; the clone depth that `Depth`
computes, which would need induction over the chain; the properties of `RbdKeys`.

## Not modelled

- Block-mode volumes, CHAP logins, NodeExpand of rbd and iSCSI, fstrim: they add
  commands to the node handlers and share their guards and records.
- ModifyVolume, QoS, labels and the MDS pin: values set again on every try.
- Capacity, statistics, capability answers and pagination: reads.
- Group snapshots, and the derived key provider, which stores nothing.
- The localpath example plugin, whose calls are one directory operation each.
- Textual encodings: volume handles, JSON and HTTP of `pkg/bardplugin`, the wire formats
  of the KMS clients, the in-cluster API client. Their effects (lost answers,
  failed reads, error classes) are steps of the models.
- Identity, metrics, the binaries' flag parsing, the conformance suite, charts.

`PROJECT.json` lists every part with its status.

## Running

    tlc -workers 2 -config RbdVolumes.cfg MCRbdVolumes
    tlapm RbdVolumesProofs.tla

Each run ends within about three minutes. The proofs of `IscsiProofs` take
about a quarter of an hour, those of the other modules one to five minutes.
