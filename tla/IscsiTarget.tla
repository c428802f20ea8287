----------------------------- MODULE IscsiTarget -----------------------------
(***************************************************************************)
(* The iscsi plugin's attach and node planes for one node:                  *)
(* ControllerPublish and ControllerUnpublish grant and revoke a LUN,        *)
(* NodeStage logs in to the volume's target or rescans the session it       *)
(* already has, and NodeUnstage detaches one LUN or logs out.  An instance  *)
(* with several portals logs in on all of them and mounts the dm-multipath  *)
(* map that multipathd assembles from the paths.                            *)
(*                                                                          *)
(* A targetd instance exports every volume as a LUN of one shared target; a *)
(* locally managed one gives each volume a target of its own.  The setup    *)
(* tells them apart.  Every iscsiadm, targetd or host command is one step;  *)
(* handlers can be interrupted between two, and a session can be lost (a    *)
(* reboot of the node, which keeps the state records).                      *)
(***************************************************************************)
EXTENDS Naturals, FiniteSets

CONSTANTS
    Disk, Nil,
    Tgt,         \* target IQNs
    Setups,      \* set of [target, vols, portals, removable, faults, reboots]:
                 \* the target each volume is a LUN of, the volumes in use, the
                 \* number of portals, whether the instance may be taken out of
                 \* the configuration; bounds: failed commands and lost answers,
                 \* reboots
    MaxLun       \* bound: highest LUN

Lun == 0..MaxLun

VARIABLES
    setup,       \* the setup of this behaviour (fixed)
    exports,     \* LUN under which a volume is exported to the node
    session,     \* <<target, portal>>s the node is logged in to
    device,      \* volume behind each SCSI device <<target, portal, LUN>>
    map,         \* volumes multipathd has assembled a map for
    record,      \* stagedState per staging path: the LUN of its device
    accessMu,    \* tdAccessMu: volume whose grant or revoke holds it
    lock,        \* per-target flock: volume whose handler holds it
    attach, listed,  \* ControllerPublish handler, the LUNs it saw in use
    pc,          \* node handler per volume
    leg, maps,   \* multipath handlers: portals done, maps to be flushed
    placed,      \* volumes the orchestrator holds attached
    touched,     \* volumes with a NodeStage not undone by a NodeUnstage
    staged,      \* volumes whose staging path is mounted
    drain,       \* the node is being drained: no NodeStage is called any more
    configured,  \* the plugin's configuration names the instance
    nodeFaults, reboots

array == <<exports, accessMu, attach, listed, placed>>
scsi  == <<session, device>>
host  == <<scsi, map>>
ends  == <<setup, drain, configured, nodeFaults, reboots>>
multi == <<leg, maps>>
nodeVars == <<array, host, record, lock, pc, multi, touched, staged, ends>>

ASSUME Shape ==
    /\ Nil \notin Disk \cup Lun /\ IsFiniteSet(Disk)
    /\ \A p \in Setups : /\ p.target \in [Disk -> Tgt] /\ p.vols \subseteq Disk
                         /\ p.portals \in Nat \ {0} /\ p.removable \in BOOLEAN
                         /\ p.faults \in Nat /\ p.reboots \in Nat
    /\ MaxLun \in Nat
    /\ Cardinality(Disk) <= MaxLun + 1

Target == setup.target
Portal == 1..setup.portals

\* A targetd instance: one target for all volumes.
Shared == \E v, w \in setup.vols : v # w /\ Target[v] = Target[w]

Slot == Tgt \X Portal \X Lun

\* Places of a volume's devices, /dev/disk/by-path/ip-p-iscsi-t-lun-l, one for
\* each portal.
Slots(v, l) == {<<Target[v], p, l>> : p \in Portal}
Absent(v, l) == \A x \in Slots(v, l) : device[x] = Nil

Sessions(v) == {<<Target[v], p>> : p \in Portal}

\* What NodeStage formats and mounts is there: the device or the mapper.
Mountable(v) == IF setup.portals > 1 THEN v \in map ELSE ~ Absent(v, exports[v])

\* Staged-state records that name the target.
Records(t) == {w \in Disk : record[w] # Nil /\ Target[w] = t}

\* Devices after a scan of the sessions S: one more for every exported LUN that
\* had none.
Scan(S) == [x \in Slot |->
    LET found == {v \in Disk : exports[v] # Nil /\ x \in Slots(v, exports[v])}
    IN  IF <<x[1], x[2]>> \in S /\ device[x] = Nil /\ found # {}
        THEN CHOOSE v \in found : TRUE
        ELSE device[x]]

\* Devices once those of the sessions S are gone.
Drop(S) == [x \in Slot |-> IF <<x[1], x[2]>> \in S THEN Nil ELSE device[x]]

\* LUNs of the node's exports on the volume's target.
InUse(v) == {exports[w] : w \in {u \in Disk : exports[u] # Nil
                                              /\ Target[u] = Target[v]}}

\* Lowest LUN no export of the node uses.
LowestFree(used) == CHOOSE l \in Lun \ used : \A k \in Lun \ used : l <= k

-----------------------------------------------------------------------------
NodeInit ==
    /\ setup \in Setups
    /\ exports = [v \in Disk |-> Nil]
    /\ session = {} /\ map = {}
    /\ device = [x \in Slot |-> Nil]
    /\ record = [v \in Disk |-> Nil]
    /\ accessMu = Nil
    /\ lock = [t \in Tgt |-> Nil]
    /\ attach = [v \in Disk |-> "idle"] /\ listed = [v \in Disk |-> {}]
    /\ pc = [v \in Disk |-> "idle"]
    /\ leg = [v \in Disk |-> 0] /\ maps = [v \in Disk |-> {}]
    /\ placed = {} /\ touched = {} /\ staged = {}
    /\ drain = FALSE /\ configured = TRUE /\ nodeFaults = 0 /\ reboots = 0

Goto(v, label) == pc' = [pc EXCEPT ![v] = label]

Unlock(v) == lock' = [lock EXCEPT ![Target[v]] = Nil]

\* A command or a call fails.
Fault == nodeFaults < setup.faults /\ nodeFaults' = nodeFaults + 1

-----------------------------------------------------------------------------
(* ControllerPublish and ControllerUnpublish *)

\* The handler ends and releases tdAccessMu.
GrantEnd(v) ==
    /\ accessMu' = Nil
    /\ attach' = [attach EXCEPT ![v] = "idle"]
    /\ listed' = [listed EXCEPT ![v] = {}]

\* Mutant of GrantList: exports are listed before the lock is taken.
GrantListEarly(v) ==
    /\ attach[v] = "idle" /\ v \in setup.vols \ placed
    /\ exports[v] = Nil
    /\ listed' = [listed EXCEPT ![v] = InUse(v)]
    /\ attach' = [attach EXCEPT ![v] = "create"]
    /\ UNCHANGED <<exports, accessMu, placed, host, record, lock, pc, multi, touched,
                   staged, ends>>

\* grantAccess takes tdAccessMu and lists the node's exports; a volume that is
\* exported already keeps its LUN.  (A target of its own has nothing listed: the
\* ACL of a locally managed volume maps LUN 0.)
GrantList(v) ==
    /\ attach[v] = "idle" /\ v \in setup.vols \ placed
    /\ accessMu = Nil
    /\ IF exports[v] # Nil
       THEN placed' = placed \cup {v} /\ UNCHANGED <<accessMu, attach, listed>>
       ELSE /\ accessMu' = v
            /\ listed' = [listed EXCEPT ![v] = InUse(v)]
            /\ attach' = [attach EXCEPT ![v] = "create"]
            /\ UNCHANGED placed
    /\ UNCHANGED <<exports, host, record, lock, pc, multi, touched, staged,
                   ends>>

\* export_create at the lowest LUN not in use.
GrantCreate(v) ==
    /\ attach[v] = "create"
    /\ exports' = [exports EXCEPT ![v] = LowestFree(listed[v])]
    /\ placed' = placed \cup {v}
    /\ GrantEnd(v)
    /\ UNCHANGED <<host, record, lock, pc, multi, touched, staged,
                   ends>>

\* revokeAccess, once the node has unstaged the volume; an export that is gone
\* is fine.
Revoke(v) ==
    /\ attach[v] = "idle" /\ v \in placed \ touched /\ pc[v] = "idle"
    /\ accessMu = Nil
    /\ exports' = [exports EXCEPT ![v] = Nil]
    /\ placed' = placed \ {v}
    /\ UNCHANGED <<accessMu, attach, listed, host, record, lock, pc, multi, touched,
                   staged, ends>>

-----------------------------------------------------------------------------
(* NodeStage *)

\* An instance that is not configured is an error.
StageCall(v) ==
    /\ pc[v] = "idle" /\ v \in placed /\ ~drain
    /\ touched' = touched \cup {v}
    /\ Goto(v, IF ~ configured THEN "idle"
               ELSE IF setup.portals > 1 THEN "mlogin" ELSE "lock")
    /\ UNCHANGED <<array, host, record, lock, multi, staged, ends>>

\* Under the target's lock, any record that names the target, the volume's own
\* included, means that a session is up and a rescan will do.
StageLock(v) ==
    /\ pc[v] = "lock" /\ lock[Target[v]] = Nil
    /\ lock' = [lock EXCEPT ![Target[v]] = v]
    /\ Goto(v, IF Records(Target[v]) # {} THEN "rescan" ELSE "login")
    /\ UNCHANGED <<array, host, record, multi, touched, staged, ends>>

\* iscsiadm -m session --rescan; without a session there is nothing to rescan.
StageRescan(v) ==
    /\ pc[v] = "rescan"
    /\ device' = Scan(session)
    /\ Goto(v, "wait")
    /\ UNCHANGED <<array, session, map, record, lock, multi, touched, staged, ends>>

\* Discovery and login.  A new session scans the target's LUNs; a target that
\* is logged in to already is left as it is.
StageLogin(v) ==
    /\ pc[v] = "login"
    /\ device' = Scan(Sessions(v) \ session)
    /\ session' = session \cup Sessions(v)
    /\ Goto(v, "wait")
    /\ UNCHANGED <<array, map, record, lock, multi, touched, staged, ends>>

\* waitForDevice, the last thing done under the lock.
StageWait(v) ==
    /\ pc[v] = "wait"
    /\ Unlock(v)
    /\ Goto(v, IF Absent(v, exports[v]) THEN "idle" ELSE "record")
    /\ UNCHANGED <<array, host, record, multi, touched, staged, ends>>

\* recordState
StageRecord(v) ==
    /\ pc[v] = "record"
    /\ record' = [record EXCEPT ![v] = exports[v]]
    /\ Goto(v, "mount")
    /\ UNCHANGED <<array, host, lock, multi, touched, staged, ends>>

\* ensureFormatted, mount and growFilesystem, which need the device.
StageMount(v) ==
    /\ pc[v] = "mount"
    /\ staged' = IF Mountable(v) THEN staged \cup {v} ELSE staged
    /\ Goto(v, "idle")
    /\ UNCHANGED <<array, host, record, lock, multi, touched, ends>>

\* NodeExpand rescans every session, without a lock.
NodeExpand(v) ==
    /\ pc[v] = "idle" /\ v \in staged
    /\ device' = Scan(session)
    /\ UNCHANGED <<array, session, map, record, lock, pc, multi, touched, staged,
                   ends>>

-----------------------------------------------------------------------------
(* NodeUnstage and unstageSingleTarget *)

\* The device of the record, or the one a target of its own must have; Nil
\* when the LUN on a shared target is not known.
Known(v) ==
    IF record[v] # Nil THEN record[v] ELSE IF Shared THEN Nil ELSE 0

\* The portals come from the record or else from the configuration.
UnstageCall(v) ==
    /\ pc[v] = "idle" /\ v \in touched
    /\ record[v] # Nil \/ configured
    /\ staged' = staged \ {v}
    /\ Goto(v, IF setup.portals > 1 THEN "mflush" ELSE "ulock")
    /\ UNCHANGED <<array, host, record, lock, multi, touched, ends>>

\* With neither, the call succeeds and leaves what there is.
UnstageUnknown(v) ==
    /\ pc[v] = "idle" /\ v \in touched
    /\ record[v] = Nil /\ ~ configured
    /\ staged' = staged \ {v}
    /\ touched' = touched \ {v}
    /\ UNCHANGED <<array, host, record, lock, pc, multi, ends>>

\* Mutant of UnstageLock: records are counted without the lock.
UnstageLockNone(v) ==
    /\ pc[v] = "ulock"
    /\ Goto(v, IF Records(Target[v]) \ {v} # {} THEN "detach" ELSE "logout")
    /\ UNCHANGED <<array, host, record, lock, multi, touched, staged, ends>>

\* Under the target's lock, another volume's record keeps the session up.
UnstageLock(v) ==
    /\ pc[v] = "ulock" /\ lock[Target[v]] = Nil
    /\ lock' = [lock EXCEPT ![Target[v]] = v]
    /\ Goto(v, IF Records(Target[v]) \ {v} # {} THEN "detach" ELSE "logout")
    /\ UNCHANGED <<array, host, record, multi, touched, staged, ends>>

\* clearState, and the call succeeds.
Unstaged(v) ==
    /\ record' = [record EXCEPT ![v] = Nil]
    /\ touched' = touched \ {v}

\* The volume's own SCSI device is deleted, if it is known; one that is not
\* there is an error.
UnstageDetach(v) ==
    /\ pc[v] = "detach"
    /\ IF Known(v) # Nil /\ Absent(v, Known(v))
       THEN UNCHANGED <<device, record, touched>>
       ELSE /\ device' = [x \in Slot |-> IF x \in Slots(v, Known(v)) THEN Nil
                                         ELSE device[x]]
            /\ Unstaged(v)
    /\ Unlock(v)
    /\ Goto(v, "idle")
    /\ UNCHANGED <<array, session, map, multi, staged, ends>>

\* Logout, tolerant of a session that is not there.  The kernel may take its
\* time over the devices.
UnstageLogout(v, slow) ==
    /\ pc[v] = "logout"
    /\ session' = session \ Sessions(v)
    /\ device' = IF slow THEN device ELSE Drop(Sessions(v))
    /\ Goto(v, "clear")
    /\ UNCHANGED <<array, map, record, lock, multi, touched, staged, ends>>

\* The known device, or else the session, is verified to be gone; then the
\* record is removed.  A blockdev that fails counts as a device that is gone.
UnstageClear(v) ==
    /\ pc[v] = "clear"
    /\ \/ /\ IF IF Known(v) # Nil THEN Absent(v, Known(v))
                ELSE Sessions(v) \cap session = {}
             THEN Unstaged(v)
             ELSE UNCHANGED <<record, touched>>
          /\ UNCHANGED nodeFaults
       \/ Known(v) # Nil /\ Fault /\ Unstaged(v)
    /\ Unlock(v)
    /\ Goto(v, "idle")
    /\ UNCHANGED <<array, host, multi, staged, setup, drain, configured, reboots>>

-----------------------------------------------------------------------------
(* nodeStageMultipath and unstageMultipath: no lock and no count of records. *)

\* One portal after the other: discovery, login and waitForDevice.
MultiLogin(v) ==
    /\ pc[v] = "mlogin"
    /\ LET s == <<Target[v], leg[v] + 1>>
       IN  /\ device' = Scan({s} \ session)
           /\ session' = session \cup {s}
           /\ IF device'[<<s[1], s[2], exports[v]>>] = Nil
              THEN Goto(v, "idle") /\ leg' = [leg EXCEPT ![v] = 0]
              ELSE IF s[2] = setup.portals
              THEN Goto(v, "mapper") /\ leg' = [leg EXCEPT ![v] = 0]
              ELSE UNCHANGED pc /\ leg' = [leg EXCEPT ![v] = s[2]]
    /\ UNCHANGED <<array, map, maps, record, lock, touched, staged, ends>>

\* waitForMapper: until multipathd has assembled the map, or in vain when the
\* paths are gone.
MultiMapper(v) ==
    /\ pc[v] = "mapper"
    /\ v \in map \/ Absent(v, exports[v])
    /\ Goto(v, IF v \in map THEN "record" ELSE "idle")
    /\ UNCHANGED <<array, host, record, lock, multi, touched, staged, ends>>

\* derivedMapper takes the mapper of whatever is LUN 0 on a live path.
DerivedMaps(v) == {device[x] : x \in Slots(v, 0)} \ {Nil}

\* Mutant of MultiFlush: the map must be gone before the first logout, but
\* multipathd assembles it again while a path is there.
MultiFlushStrict(v) ==
    /\ pc[v] = "mflush"
    /\ LET M == IF record[v] # Nil THEN {v} ELSE DerivedMaps(v)
       IN  /\ maps' = [maps EXCEPT ![v] = M]
           /\ Goto(v, IF \E x \in Slot : device[x] \in M THEN "idle" ELSE "mlogout")
    /\ UNCHANGED <<array, host, record, lock, leg, touched, staged, ends>>

\* multipath -f on the recorded or derived map: a map in use stays, and
\* multipathd may assemble it again at once.
MultiFlush(v) ==
    /\ pc[v] = "mflush"
    /\ LET M == IF record[v] # Nil THEN {v} ELSE DerivedMaps(v)
       IN  /\ record[v] = Nil => M \subseteq map
           /\ maps' = [maps EXCEPT ![v] = M]
           /\ map' = map \ (M \ staged)
    /\ Goto(v, "mlogout")
    /\ UNCHANGED <<array, scsi, record, lock, leg, touched, staged, ends>>

\* Logout of one portal after the other.
MultiLogout(v, slow) ==
    /\ pc[v] = "mlogout"
    /\ LET s == <<Target[v], leg[v] + 1>>
       IN  /\ session' = session \ {s}
           /\ device' = IF slow THEN device ELSE Drop({s})
           /\ IF s[2] = setup.portals
              THEN Goto(v, "mclear") /\ leg' = [leg EXCEPT ![v] = 0]
              ELSE UNCHANGED pc /\ leg' = [leg EXCEPT ![v] = s[2]]
    /\ UNCHANGED <<array, map, maps, record, lock, touched, staged, ends>>

MultiEnd(v) == Goto(v, "idle") /\ maps' = [maps EXCEPT ![v] = {}]

\* Mutant of MultiClear: the flush before the logouts is the last one.
MultiClearFlushed(v) ==
    /\ pc[v] = "mclear"
    /\ IF Absent(v, IF record[v] # Nil THEN record[v] ELSE 0)
       THEN Unstaged(v)
       ELSE UNCHANGED <<record, touched>>
    /\ MultiEnd(v)
    /\ UNCHANGED <<array, host, lock, leg, staged, ends>>

\* Every path is verified to be gone, and the map is flushed once more and
\* verified to be gone too.  A blockdev or a dmsetup that fails counts as a
\* path or a map that is gone.
MultiClear(v) ==
    /\ pc[v] = "mclear"
    /\ \/ /\ IF Absent(v, IF record[v] # Nil THEN record[v] ELSE 0)
             THEN /\ map' = map \ (maps[v] \ staged)
                  /\ IF maps[v] \cap map' = {} THEN Unstaged(v)
                     ELSE UNCHANGED <<record, touched>>
             ELSE UNCHANGED <<map, record, touched>>
          /\ UNCHANGED nodeFaults
       \/ Fault /\ map' = map \ (maps[v] \ staged) /\ Unstaged(v)
    /\ MultiEnd(v)
    /\ UNCHANGED <<array, scsi, lock, leg, staged, setup, drain, configured, reboots>>

-----------------------------------------------------------------------------
(* The kernel, multipathd, the kubelet and faults *)

\* multipathd assembles the map of a volume that has a path, and reaps one that
\* has none.
Multipathd(v) ==
    /\ setup.portals > 1
    /\ \/ v \notin map /\ (\E x \in Slot : device[x] = v) /\ map' = map \cup {v}
       \/ v \in map \ staged /\ (\A x \in Slot : device[x] # v) /\ map' = map \ {v}
    /\ UNCHANGED <<array, scsi, record, lock, pc, multi, touched, staged,
                   ends>>

\* The kernel removes the devices of sessions that are gone.
KernelDrop(t) ==
    /\ LET gone == ({t} \X Portal) \ session
       IN  device # Drop(gone) /\ device' = Drop(gone)
    /\ UNCHANGED <<array, session, map, record, lock, pc, multi, touched, staged,
                   ends>>

Drain ==
    /\ ~drain
    /\ drain' = TRUE
    /\ UNCHANGED <<setup, array, host, record, lock, pc, multi, touched, staged,
                   configured, nodeFaults, reboots>>

\* A command fails, its deadline expires or the plugin restarts; the lock goes
\* with the handler.  One that waits in flock cannot be interrupted.
NodeInterrupt(v) ==
    /\ Fault
    /\ pc[v] \notin {"idle", "lock", "ulock"}
    /\ Goto(v, "idle")
    /\ lock' = [t \in Tgt |-> IF lock[t] = v THEN Nil ELSE lock[t]]
    /\ leg' = [leg EXCEPT ![v] = 0] /\ maps' = [maps EXCEPT ![v] = {}]
    /\ UNCHANGED <<setup, array, host, record, touched, staged, drain, configured,
                   reboots>>

\* The answer to an export_create is lost, with or without its effect.
GrantLost(v) ==
    /\ Fault
    /\ attach[v] = "create"
    /\ \/ UNCHANGED exports
       \/ exports' = [exports EXCEPT ![v] = LowestFree(listed[v])]
    /\ GrantEnd(v)
    /\ UNCHANGED <<setup, placed, host, record, lock, pc, multi, touched, staged,
                   drain, configured, reboots>>

\* Every handler ends, and the locks go with them.
HandlersEnd ==
    /\ pc' = [v \in Disk |-> "idle"]
    /\ leg' = [v \in Disk |-> 0] /\ maps' = [v \in Disk |-> {}]
    /\ lock' = [t \in Tgt |-> Nil]

\* The plugin restarts with a configuration without the instance.
Unconfigure ==
    /\ setup.removable /\ configured
    /\ configured' = FALSE
    /\ HandlersEnd
    /\ UNCHANGED <<setup, array, host, record, touched, staged, drain, nodeFaults,
                   reboots>>

\* The node reboots: sessions, devices and mounts are gone, records are not.
Reboot ==
    /\ reboots < setup.reboots /\ reboots' = reboots + 1
    /\ session' = {} /\ map' = {}
    /\ device' = [x \in Slot |-> Nil]
    /\ HandlersEnd
    /\ staged' = {}
    /\ UNCHANGED <<setup, array, record, touched, drain, configured, nodeFaults>>

-----------------------------------------------------------------------------
GrantStep(v) == GrantList(v) \/ GrantCreate(v) \/ Revoke(v)

StageStep(v) ==
    \/ StageLock(v) \/ StageRescan(v) \/ StageLogin(v) \/ StageWait(v)
    \/ StageRecord(v) \/ StageMount(v)
    \/ MultiLogin(v) \/ MultiMapper(v)

UnstageStep(v) ==
    \/ UnstageLock(v) \/ UnstageDetach(v) \/ UnstageClear(v)
    \/ \E slow \in BOOLEAN : UnstageLogout(v, slow) \/ MultiLogout(v, slow)
    \/ MultiFlush(v) \/ MultiClear(v)

NodeNext ==
    \/ \E v \in Disk : \/ GrantStep(v) \/ GrantLost(v)
                       \/ StageCall(v) \/ StageStep(v) \/ NodeExpand(v)
                       \/ UnstageCall(v) \/ UnstageUnknown(v) \/ UnstageStep(v)
                       \/ NodeInterrupt(v) \/ Multipathd(v)
    \/ \E t \in Tgt : KernelDrop(t)
    \/ Drain \/ Unconfigure \/ Reboot

NodeSpec == NodeInit /\ [][NodeNext]_nodeVars

\* Handlers run on, the kernel and multipathd get round to the devices and maps,
\* and the kubelet repeats an unstage that failed.  The flock goes to each waiter
\* in turn.
NodeFairness ==
    /\ \A t \in Tgt : WF_nodeVars(KernelDrop(t))
    /\ \A v \in Disk : /\ SF_nodeVars(StageStep(v) \/ UnstageStep(v))
                       /\ WF_nodeVars(Multipathd(v))
                       /\ WF_nodeVars(drain /\ (UnstageCall(v) \/ UnstageUnknown(v)))

NodeFairSpec == NodeSpec /\ NodeFairness

-----------------------------------------------------------------------------
\* grantAccess holds tdAccessMu from the list of exports to export_create: no
\* two volumes of a target are ever exported to the node under one LUN, whatever
\* grants, revokes and lost answers come between.
LunsUnique ==
    \A v, w \in Disk : v # w /\ Target[v] = Target[w] /\ exports[v] # Nil
                       => exports[v] # exports[w]

\* withTargetLock keeps two concurrent unstages of the last two volumes of a
\* target from both skipping the logout: as long as the instance is configured,
\* a session is up only while some volume of its target still has to be unstaged.
NoSessionLeft ==
    configured => \A s \in session : \E v \in touched : Target[v] = s[1]

\* NodeUnstage never reports success for a recorded volume while its LUN is
\* still attached on any portal or its multipath map still exists, however
\* slowly the kernel removes devices and however often multipathd assembles the
\* map again, provided that the blockdev and dmsetup it asks do not fail (which
\* counts nodeFaults): it takes their failure for the device being gone.
DetachVerified ==
    [][nodeFaults' = nodeFaults => \A v \in touched \ touched' : record[v] # Nil =>
          /\ \A x \in Slots(v, record[v]) : device'[x] = Nil
          /\ v \notin map']_nodeVars

\* A node that is drained gets there, where each volume has a target of its own:
\* the kubelet's repeated NodeUnstage calls all succeed in the end, on one portal
\* or on several, and take the sessions with them, if the instance stays
\* configured.
DrainCompletes ==
    (drain /\ ~ Shared) ~> (touched = {} /\ (configured => session = {}))

=============================================================================
