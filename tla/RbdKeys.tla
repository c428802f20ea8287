------------------------------- MODULE RbdKeys -------------------------------
(***************************************************************************)
(* LUKS key slots of ceph-rbd images and the keys a KMS provider keeps for  *)
(* them: first stage, key rotation, capture by a snapshot, inheritance by a *)
(* clone or restore, and removal with the volume or snapshot.               *)
(*                                                                          *)
(* The kinds of provider differ in where a key is.  "metadata"              *)
(* (secrets-metadata, aws-kms) wraps it into the image-meta, "vault" and    *)
(* "azure" have an entry per volume, and "kmip" has objects the image-meta  *)
(* points at.  librbd copies an image's meta to its clones.                 *)
(*                                                                          *)
(* Every command that changes a header or a KMS entry is one step, and so is *)
(* a run of meta values set or removed in a row; handlers die between any    *)
(* two steps.  Key rotation takes no claim: several rotations run at once,   *)
(* and beside every other call.                                             *)
(***************************************************************************)
EXTENDS Naturals, FiniteSets

CONSTANTS
    Vol, Snap, None,
    Source,     \* [Vol -> Vol \cup Snap \cup {None}]: content source
    SnapOf,     \* [Snap -> Vol]: volume a snapshot is taken of
    Legacy,     \* snapshots that may predate the capture of keys by snapshots
    Job,        \* concurrent EncryptionKeyRotate calls
    Plans,      \* bounded scenarios: what is asked for in one behaviour
    MaxKey,     \* bound: passphrases
    MaxUid      \* bound: KMIP objects

Obj == Vol \cup Snap
Key == 1..MaxKey
Uid == 1..MaxUid
NoKey == 0

\* Providers that keep an entry per volume.
Entries == {"vault", "azure"}

ASSUME Shape ==
    /\ Vol \cap Snap = {} /\ None \notin Obj
    /\ Source \in [Vol -> Obj \cup {None}] /\ SnapOf \in [Snap -> Vol]
    /\ Legacy \subseteq Snap
    /\ \A p \in Plans : /\ p.objs \subseteq Obj /\ p.jobs \in Nat
                        /\ p.keys \in Key /\ p.uids \in Uid /\ p.faults \in Nat
                        /\ p.kinds \subseteq {"metadata", "vault", "azure", "kmip"}
    /\ \A s \in Legacy : Source[SnapOf[s]] = None
    /\ MaxKey \in Nat \ {0} /\ MaxUid \in Nat \ {0}

VARIABLES
    plan,         \* objects, concurrent rotations, keys, faults and kinds of
                  \*   provider of this behaviour
    provider,     \* kind of provider of this instance
    exists,       \* images and live snapshots
    header,       \* LUKS key slots on an object; {} before luksFormat
    tmp, frozen,  \* temporary snapshots of PVC-PVC clones, the header in each
    kmsId,        \* objects with a recorded KMS id
    meta,         \* image-meta: wrapped key ("metadata") or KMIP UID
    owner,        \* objects whose KMIP owner marker names themselves
    vault, hsm,   \* KMS entries per object, KMIP objects
    pc, carry,    \* create or delete handler per object, the key or UID it holds
    stage, pass,  \* NodeStage handler per volume, the passphrase it resolved
    mapped,       \* volumes with a device on their node, recorded
    rot, rotVol, rotOld, rotNew, rotUid, rotOldUid,   \* rotation calls
    wanted, acked, delWanted, gone,  \* what the orchestrator knows
    raced,        \* objects copied while a rotation of their source committed,
                  \*   and what was copied from those
    keyless,      \* restores, under KMIP, of a snapshot older than its volume's key
    keys, uids,   \* passphrases minted, KMIP objects registered
    faults

instance == <<plan, provider>>
disk == <<exists, header, tmp, frozen>>
kms  == <<kmsId, meta, owner, vault, hsm>>
node == <<stage, pass, mapped>>
rotation == <<rot, rotVol, rotOld, rotNew, rotUid, rotOldUid>>
calls == <<wanted, acked, delWanted, gone>>
ghosts == <<raced, keyless>>
count == <<keys, uids, faults>>
vars == <<instance, disk, kms, pc, carry, node, rotation, calls, ghosts, count>>

-----------------------------------------------------------------------------
(* Keys and descriptors *)

\* Image an object's content and librbd's copy of the meta come from.
Image(o) ==
    IF o \in Snap THEN SnapOf[o]
    ELSE IF Source[o] \in Snap THEN SnapOf[Source[o]] ELSE Source[o]

\* What the provider's passphrase() finds stored for an object.
Stored(o) ==
    CASE provider = "metadata" -> meta[o]
      [] provider \in Entries  -> vault[o]
      [] provider = "kmip"     -> IF meta[o] = NoKey THEN NoKey ELSE hsm[meta[o]]

\* encryptionSourceSpec: a snapshot's own descriptor, else its image's.
KeySource(s) == IF s \in kmsId THEN s ELSE SnapOf[s]

\* Where a clone, restore or snapshot inherits its key from.
EncSource(o) ==
    IF o \in Vol /\ Source[o] \in Snap THEN KeySource(Source[o]) ELSE Image(o)

\* The wrapped key inheritEncryption settles on: a snapshot source is read first,
\* any other source only when the clone has no value of its own.
Inherited(o) ==
    LET src == EncSource(o)
        first  == IF src \in Snap THEN src ELSE o
        second == IF src \in Snap THEN o ELSE src
    IN  IF meta[first] # NoKey THEN meta[first] ELSE meta[second]

\* deleteKey: a wrapped key goes with its image.
DeleteKey(o) ==
    /\ vault' = IF provider \in Entries THEN [vault EXCEPT ![o] = NoKey] ELSE vault
    /\ hsm' = IF provider = "kmip" /\ meta[o] # NoKey
              THEN [hsm EXCEPT ![meta[o]] = NoKey] ELSE hsm

LiveSnaps(v) == {s \in Snap \cap exists : SnapOf[s] = v}
                    \cup {w \in tmp : Source[w] = v}

-----------------------------------------------------------------------------
\* A pool with legacy snapshots, and the key of each volume they are of: a
\* passphrase, under KMIP in the object of the same number.
Start(legacy, used, key, n) ==
    /\ provider \in plan.kinds
    /\ exists = used \cup legacy
    /\ header = [o \in Obj |-> IF o \in used THEN {key[o]}
                             ELSE IF o \in legacy THEN {key[SnapOf[o]]} ELSE {}]
    /\ tmp = {} /\ frozen = [v \in Vol |-> {}]
    /\ kmsId = used
    /\ meta = [o \in Obj |-> IF o \in used /\ provider \notin Entries THEN key[o] ELSE NoKey]
    /\ owner = {}
    /\ vault = [o \in Obj |-> IF o \in used /\ provider \in Entries THEN key[o] ELSE NoKey]
    /\ hsm = [u \in Uid |-> IF u \in 1..n /\ provider = "kmip" THEN u ELSE NoKey]
    /\ pc = [o \in Obj |-> "idle"] /\ carry = [o \in Obj |-> NoKey]
    /\ stage = [v \in Vol |-> "idle"] /\ pass = [v \in Vol |-> NoKey]
    /\ mapped = {}
    /\ rot = [j \in Job |-> "idle"] /\ rotVol = [j \in Job |-> None]
    /\ rotOld = [j \in Job |-> NoKey] /\ rotNew = [j \in Job |-> NoKey]
    /\ rotUid = [j \in Job |-> NoKey] /\ rotOldUid = [j \in Job |-> NoKey]
    /\ wanted = used \cup legacy /\ acked = used \cup legacy
    /\ delWanted = {} /\ gone = {} /\ raced = {} /\ keyless = {}
    /\ keys = n /\ uids = IF provider = "kmip" THEN n ELSE 0
    /\ faults = 0

\* The driver starts on an empty pool, or on one with legacy snapshots, whose
\* volumes have been in use and have a key each.
Init ==
    /\ plan \in Plans
    /\ \E legacy \in SUBSET (Legacy \cap plan.objs), n \in 0..MaxUid :
        LET used == {SnapOf[s] : s \in legacy}
        IN  \E key \in [used -> 1..n] :
            /\ \A k \in 1..n : \E v \in used : \A w \in used : key[w] = k <=> w = v
            /\ Start(legacy, used, key, n)

Goto(o, label) == pc' = [pc EXCEPT ![o] = label]

\* The handler answers the orchestrator.
Ack(o) == /\ Goto(o, "idle") /\ acked' = acked \cup {o}
          /\ carry' = [carry EXCEPT ![o] = NoKey]

\* The handler ends with an error, to be retried.
Fail(o) == /\ Goto(o, "idle") /\ UNCHANGED acked
           /\ carry' = [carry EXCEPT ![o] = NoKey]

-----------------------------------------------------------------------------
(* CreateVolume and CreateSnapshot *)

\* The content source stays until the call that needs it is acknowledged.
Available(o) == o \in acked \ delWanted

\* A create goes through the recipe of its source; the retry of one that left an
\* image resumes at the encryption metadata.
CreateCall(v) ==
    /\ v \in plan.objs /\ pc[v] = "idle" /\ v \notin acked
    /\ Source[v] # None => Available(Source[v])
    /\ wanted' = wanted \cup {v}
    /\ Goto(v, IF v \in exists THEN (IF Source[v] = None THEN "kmsid" ELSE "descriptor")
               ELSE IF Source[v] \in Vol THEN "tmpsnap" ELSE "make")
    /\ UNCHANGED <<instance, disk, kms, carry, node, rotation, acked, delWanted, gone,
                   ghosts, count>>

\* A PVC-PVC clone's temporary snapshot; one that is there is reused.
TmpSnap(v) ==
    /\ pc[v] = "tmpsnap"
    /\ tmp' = tmp \cup {v}
    /\ frozen' = IF v \in tmp THEN frozen
                 ELSE [frozen EXCEPT ![v] = header[Source[v]]]
    /\ Goto(v, "make")
    /\ UNCHANGED <<instance, exists, header, kms, carry, node, rotation, calls, ghosts,
                   count>>

\* rbd create, or rbd clone: the header comes from the snapshot, the meta from
\* the image as it is now.
Make(v) ==
    /\ pc[v] = "make"
    /\ exists' = exists \cup {v}
    /\ IF Source[v] = None
       THEN Goto(v, "kmsid") /\ UNCHANGED <<header, meta, kmsId, ghosts>>
       ELSE /\ header' = [header EXCEPT ![v] = IF Source[v] \in Snap
                                               THEN header[Source[v]] ELSE frozen[v]]
            /\ meta' = [meta EXCEPT ![v] = meta[Image(v)]]
            /\ kmsId' = IF Image(v) \in kmsId THEN kmsId \cup {v} ELSE kmsId
            /\ raced' = IF Source[v] \in raced THEN raced \cup {v} ELSE raced
            /\ keyless' = IF /\ provider = "kmip" /\ Source[v] \in Snap \cap kmsId
                             /\ meta[Source[v]] = NoKey /\ meta[Image(v)] # NoKey
                          THEN keyless \cup {v} ELSE keyless
            /\ Goto(v, "descriptor")
    /\ UNCHANGED <<instance, tmp, frozen, owner, vault, hsm, carry, node, rotation, calls,
                   count>>

\* A fresh volume records its KMS id.
KmsIdSet(v) ==
    /\ pc[v] = "kmsid"
    /\ kmsId' = kmsId \cup {v}
    /\ Ack(v)
    /\ UNCHANGED <<instance, disk, meta, owner, vault, hsm, node, rotation, wanted, delWanted,
                   gone, ghosts, count>>

\* A snapshot is asked of a volume; snap create freezes the header, unless an
\* earlier try did.
SnapshotCall(s) ==
    /\ s \in plan.objs /\ pc[s] = "idle" /\ s \notin acked
    /\ Available(SnapOf[s])
    /\ wanted' = wanted \cup {s}
    /\ exists' = exists \cup {s}
    /\ header' = IF s \in exists THEN header
                 ELSE [header EXCEPT ![s] = header[SnapOf[s]]]
    /\ raced' = IF SnapOf[s] \in raced THEN raced \cup {s} ELSE raced
    /\ Goto(s, "descriptor")
    /\ UNCHANGED <<instance, tmp, frozen, kms, carry, node, rotation, acked, delWanted, gone,
                   keyless, count>>

\* inheritEncryption, first half: KMS id and wrapped key are written to the
\* clone, restore or snapshot.  (The clone's temporary snapshot has gone before.)
Descriptor(o) ==
    /\ pc[o] = "descriptor"
    /\ tmp' = tmp \ {o}
    /\ frozen' = IF o \in Vol THEN [frozen EXCEPT ![o] = {}] ELSE frozen
    /\ kmsId' = IF EncSource(o) \in kmsId THEN kmsId \cup {o} ELSE kmsId
    /\ meta' = IF provider = "metadata" THEN [meta EXCEPT ![o] = Inherited(o)]
               ELSE meta
    /\ IF provider # "metadata" /\ o \in kmsId'
       THEN Goto(o, "cloneread") /\ UNCHANGED <<acked, carry>>
       ELSE Ack(o)
    /\ UNCHANGED <<instance, exists, header, owner, vault, hsm, node, rotation, wanted,
                   delWanted, gone, ghosts, count>>

\* cloneKey of an entry provider reads the source's passphrase; a source that was
\* never staged has none to copy.
CloneRead(o) ==
    /\ pc[o] = "cloneread" /\ provider \in Entries
    /\ IF vault[EncSource(o)] = NoKey
       THEN Ack(o)
       ELSE /\ carry' = [carry EXCEPT ![o] = vault[EncSource(o)]]
            /\ Goto(o, "clonewrite") /\ UNCHANGED acked
    /\ UNCHANGED <<instance, disk, kms, node, rotation, wanted, delWanted, gone, ghosts,
                   count>>

\* Azure overwrites the clone's entry; Vault's write is create-only, and an entry
\* with the same value is an earlier try's.
CloneWrite(o) ==
    /\ pc[o] = "clonewrite" /\ provider \in Entries
    /\ vault' = IF vault[o] = NoKey \/ provider = "azure"
                THEN [vault EXCEPT ![o] = carry[o]] ELSE vault
    /\ IF vault'[o] = carry[o] THEN Ack(o) ELSE Fail(o)
    /\ UNCHANGED <<instance, disk, kmsId, meta, owner, hsm, node, rotation, wanted, delWanted,
                   gone, ghosts, count>>

\* cloneKey of KMIP: unless the clone is marked as owner of its object, the
\* source's passphrase is registered again, under a new UID.
CloneRegister(o) ==
    /\ pc[o] = "cloneread" /\ provider = "kmip"
    /\ LET src == meta[EncSource(o)]
       IN  \/ /\ src = NoKey \/ o \in owner
              /\ Ack(o) /\ UNCHANGED <<hsm, uids>>
           \/ /\ src # NoKey /\ o \notin owner /\ hsm[src] = NoKey
              /\ Fail(o) /\ UNCHANGED <<hsm, uids>>
           \/ /\ src # NoKey /\ o \notin owner /\ hsm[src] # NoKey
              /\ uids < plan.uids /\ uids' = uids + 1
              /\ hsm' = [hsm EXCEPT ![uids'] = hsm[src]]
              /\ carry' = [carry EXCEPT ![o] = uids']
              /\ Goto(o, "cloneuid") /\ UNCHANGED acked
    /\ UNCHANGED <<instance, disk, kmsId, meta, owner, vault, node, rotation, wanted,
                   delWanted, gone, ghosts, keys, faults>>

\* The UID is recorded, then the owner.
CloneUid(o) ==
    /\ pc[o] = "cloneuid"
    /\ meta' = [meta EXCEPT ![o] = carry[o]]
    /\ Goto(o, "cloneowner")
    /\ UNCHANGED <<instance, disk, kmsId, owner, vault, hsm, carry, node, rotation, calls,
                   ghosts, count>>

CloneOwner(o) ==
    /\ pc[o] = "cloneowner"
    /\ owner' = owner \cup {o}
    /\ Ack(o)
    /\ UNCHANGED <<instance, disk, kmsId, meta, vault, hsm, node, rotation, wanted, delWanted,
                   gone, ghosts, count>>

-----------------------------------------------------------------------------
(* NodeStage and NodeUnstage *)

\* volumePassphrase: the stored passphrase, or a new one that is stored first.
\* (A KMIP object whose UID could not be recorded is destroyed again.)
StageKey(v) ==
    /\ stage[v] = "idle" /\ v \in acked \ delWanted
    /\ mapped' = mapped \cup {v}
    /\ IF Stored(v) # NoKey
       THEN /\ pass' = [pass EXCEPT ![v] = Stored(v)]
            /\ UNCHANGED <<meta, vault, hsm, keys, uids>>
       ELSE /\ provider = "kmip" => meta[v] = NoKey /\ uids < plan.uids
            /\ keys < plan.keys /\ keys' = keys + 1
            /\ pass' = [pass EXCEPT ![v] = keys']
            /\ uids' = IF provider = "kmip" THEN uids + 1 ELSE uids
            /\ meta' = CASE provider = "metadata" -> [meta EXCEPT ![v] = keys']
                         [] provider = "kmip" -> [meta EXCEPT ![v] = uids']
                         [] OTHER -> meta
            /\ vault' = IF provider \in Entries THEN [vault EXCEPT ![v] = keys']
                        ELSE vault
            /\ hsm' = IF provider = "kmip" THEN [hsm EXCEPT ![uids'] = keys']
                      ELSE hsm
    /\ stage' = [stage EXCEPT ![v] = "format"]
    /\ UNCHANGED <<instance, disk, kmsId, owner, pc, carry, rotation, calls, ghosts, faults>>

\* ensureLuksOpen formats a device that is not LUKS yet, then opens it with the
\* passphrase, which changes nothing here.
StageFormat(v) ==
    /\ stage[v] = "format"
    /\ header' = IF header[v] = {} THEN [header EXCEPT ![v] = {pass[v]}] ELSE header
    /\ stage' = [stage EXCEPT ![v] = "idle"]
    /\ pass' = [pass EXCEPT ![v] = NoKey]
    /\ UNCHANGED <<instance, exists, tmp, frozen, kms, pc, carry, mapped, rotation, calls,
                   ghosts, count>>

Unstage(v) ==
    /\ stage[v] = "idle" /\ v \in mapped
    /\ mapped' = mapped \ {v}
    /\ UNCHANGED <<instance, disk, kms, pc, carry, stage, pass, rotation, calls, ghosts, count>>

-----------------------------------------------------------------------------
(* RotateEncryptionKey *)

\* Labels and values of rotation j, all others as they were.
RotGoto(j, label) == rot' = [rot EXCEPT ![j] = label]

RotEnd(j) ==
    /\ RotGoto(j, "idle")
    /\ rotVol' = [rotVol EXCEPT ![j] = None]
    /\ rotOld' = [rotOld EXCEPT ![j] = NoKey] /\ rotNew' = [rotNew EXCEPT ![j] = NoKey]
    /\ rotUid' = [rotUid EXCEPT ![j] = NoKey]
    /\ rotOldUid' = [rotOldUid EXCEPT ![j] = NoKey]

\* The volume must be mapped here and LUKS formatted; its passphrase is resolved.
RotRead(j, v) ==
    /\ Cardinality({k \in Job : rot[k] # "idle"}) < plan.jobs
    /\ rot[j] = "idle" /\ v \in mapped /\ header[v] # {}
    /\ Stored(v) # NoKey
    /\ rotVol' = [rotVol EXCEPT ![j] = v]
    /\ rotOld' = [rotOld EXCEPT ![j] = Stored(v)]
    /\ RotGoto(j, "mint")
    /\ UNCHANGED <<instance, disk, kms, pc, carry, node, rotNew, rotUid, rotOldUid, calls,
                   ghosts, count>>

\* rotateKey mints the new passphrase; KMIP notes the old UID and registers it.
RotMint(j) ==
    /\ rot[j] = "mint"
    /\ keys < plan.keys /\ keys' = keys + 1
    /\ rotNew' = [rotNew EXCEPT ![j] = keys']
    /\ IF provider = "kmip"
       THEN /\ uids < plan.uids /\ uids' = uids + 1
            /\ hsm' = [hsm EXCEPT ![uids'] = keys']
            /\ rotUid' = [rotUid EXCEPT ![j] = uids']
            /\ rotOldUid' = [rotOldUid EXCEPT ![j] = meta[rotVol[j]]]
       ELSE UNCHANGED <<uids, hsm, rotUid, rotOldUid>>
    /\ RotGoto(j, "add")
    /\ UNCHANGED <<instance, disk, kmsId, meta, owner, vault, pc, carry, node, rotVol, rotOld,
                   calls, ghosts, faults>>

\* Mutant of RotAdd: the new passphrase replaces the old one in its slot.
RotAddReplacing(j) ==
    /\ rot[j] = "add" /\ rotVol[j] \in mapped /\ rotOld[j] \in header[rotVol[j]]
    /\ header' = [header EXCEPT ![rotVol[j]] = (@ \ {rotOld[j]}) \cup {rotNew[j]}]
    /\ RotGoto(j, "persist")
    /\ UNCHANGED <<instance, exists, tmp, frozen, kms, pc, carry, node, rotVol, rotOld,
                   rotNew, rotUid, rotOldUid, calls, ghosts, count>>

\* luksAddKey needs the device and a slot the old passphrase opens; if it fails,
\* KMIP destroys the new object.
RotAdd(j) ==
    /\ rot[j] = "add"
    /\ LET v == rotVol[j]
       IN  IF v \in mapped /\ rotOld[j] \in header[v]
           THEN /\ header' = [header EXCEPT ![v] = @ \cup {rotNew[j]}]
                /\ RotGoto(j, "persist")
                /\ UNCHANGED <<hsm, rotVol, rotOld, rotNew, rotUid, rotOldUid>>
           ELSE /\ hsm' = IF provider = "kmip" THEN [hsm EXCEPT ![rotUid[j]] = NoKey]
                          ELSE hsm
                /\ RotEnd(j)
                /\ UNCHANGED header
    /\ UNCHANGED <<instance, exists, tmp, frozen, kmsId, meta, owner, vault, pc, carry, node,
                   calls, ghosts, count>>

\* Objects that take their key from v but hold an earlier header of it.
Copying(v) ==
    {o \in (exists \cup tmp) \ acked : EncSource(o) = v}
        \cup {s \in Snap \cap exists : KeySource(s) = v}

\* The new passphrase, or the UID of its object, becomes the stored one.  An
\* image that is gone by now has no meta to set.
RotPersist(j) ==
    /\ rot[j] = "persist"
    /\ LET v == rotVol[j]
           there == v \in exists
       IN  /\ meta' = CASE provider = "metadata" /\ there -> [meta EXCEPT ![v] = rotNew[j]]
                        [] provider = "kmip" /\ there -> [meta EXCEPT ![v] = rotUid[j]]
                        [] OTHER -> meta
           /\ vault' = IF provider \in Entries THEN [vault EXCEPT ![v] = rotNew[j]]
                       ELSE vault
           /\ raced' = raced \cup Copying(v)
           /\ IF there \/ provider \in Entries
              THEN /\ RotGoto(j, IF provider = "kmip" THEN "destroy" ELSE "remove")
                   /\ UNCHANGED <<rotVol, rotOld, rotNew, rotUid, rotOldUid>>
              ELSE RotEnd(j)
    /\ UNCHANGED <<instance, disk, kmsId, owner, hsm, pc, carry, node, calls, keyless, count>>

\* KMIP destroys the superseded object, best effort.
RotDestroy(j) ==
    /\ rot[j] = "destroy"
    /\ hsm' = IF rotOldUid[j] = NoKey THEN hsm
              ELSE [hsm EXCEPT ![rotOldUid[j]] = NoKey]
    /\ RotGoto(j, "remove")
    /\ UNCHANGED <<instance, disk, kmsId, meta, owner, vault, pc, carry, node, rotVol, rotOld,
                   rotNew, rotUid, rotOldUid, calls, ghosts, count>>

\* luksRemoveKey; a slot that is gone is fine.
RotRemove(j) ==
    /\ rot[j] = "remove"
    /\ LET v == rotVol[j]
       IN  header' = IF v \in mapped THEN [header EXCEPT ![v] = @ \ {rotOld[j]}]
                     ELSE header
    /\ RotEnd(j)
    /\ UNCHANGED <<instance, exists, tmp, frozen, kms, pc, carry, node, calls, ghosts, count>>

-----------------------------------------------------------------------------
(* DeleteVolume and DeleteSnapshot *)

\* The orchestrator deletes an unstaged volume, or a snapshot, that no create in
\* progress needs.
DeleteCall(o) ==
    /\ pc[o] = "idle" /\ o \in acked \ gone
    /\ o \in Vol => o \notin mapped /\ stage[o] = "idle"
    /\ \A w \in (wanted \cap Vol) \ acked : Source[w] # o
    /\ \A s \in (wanted \cap Snap) \ acked : SnapOf[s] # o
    /\ delWanted' = delWanted \cup {o}
    /\ Goto(o, IF o \in Vol THEN "delkey" ELSE "snaprm")
    /\ UNCHANGED <<instance, disk, kms, carry, node, rotation, wanted, acked, gone, ghosts,
                   count>>

\* Mutant of DeleteVolumeKey: the key goes before snapshots are looked for.
DeleteVolumeKeyFirst(v) ==
    /\ pc[v] = "delkey"
    /\ DeleteKey(v)
    /\ Goto(v, "rm")
    /\ UNCHANGED <<instance, disk, kmsId, meta, owner, carry, node, rotation, calls, ghosts,
                   count>>

\* The stored key goes first, unless the image has live snapshots.
DeleteVolumeKey(v) ==
    /\ pc[v] = "delkey"
    /\ IF v \in kmsId /\ LiveSnaps(v) # {}
       THEN Goto(v, "idle") /\ UNCHANGED <<vault, hsm>>
       ELSE /\ Goto(v, "rm")
            /\ IF v \in kmsId THEN DeleteKey(v) ELSE UNCHANGED <<vault, hsm>>
    /\ UNCHANGED <<instance, disk, kmsId, meta, owner, carry, node, rotation, calls, ghosts,
                   count>>

\* rbd rm takes the image-meta along, that of its former snapshots included.
RemoveImage(v) ==
    /\ pc[v] = "rm"
    /\ Goto(v, "idle")
    /\ LET its == {v} \cup {s \in Snap : SnapOf[s] = v}
       IN  IF LiveSnaps(v) # {}
           THEN UNCHANGED <<exists, header, kmsId, meta, owner, gone>>
           ELSE /\ exists' = exists \ {v}
                /\ header' = [header EXCEPT ![v] = {}]
                /\ meta' = [o \in Obj |-> IF o \in its THEN NoKey ELSE meta[o]]
                /\ kmsId' = kmsId \ its /\ owner' = owner \ its
                /\ gone' = gone \cup {v}
    /\ UNCHANGED <<instance, tmp, frozen, vault, hsm, carry, node, rotation, wanted, acked,
                   delWanted, ghosts, count>>

\* snap rm, then the snapshot's key copy, then its descriptor.
SnapRemove(s) ==
    /\ pc[s] = "snaprm"
    /\ exists' = exists \ {s}
    /\ header' = [header EXCEPT ![s] = {}]
    /\ Goto(s, "reapkey")
    /\ UNCHANGED <<instance, tmp, frozen, kms, carry, node, rotation, calls, ghosts, count>>

ReapKey(s) ==
    /\ pc[s] = "reapkey"
    /\ IF s \in kmsId
       THEN DeleteKey(s) /\ Goto(s, "reapmeta") /\ UNCHANGED gone
       ELSE /\ Goto(s, "idle") /\ gone' = gone \cup {s}
            /\ UNCHANGED <<vault, hsm>>
    /\ UNCHANGED <<instance, disk, kmsId, meta, owner, carry, node, rotation, wanted, acked,
                   delWanted, ghosts, count>>

ReapMeta(s) ==
    /\ pc[s] = "reapmeta"
    /\ meta' = [meta EXCEPT ![s] = NoKey]
    /\ owner' = owner \ {s} /\ kmsId' = kmsId \ {s}
    /\ gone' = gone \cup {s}
    /\ Goto(s, "idle")
    /\ UNCHANGED <<instance, disk, vault, hsm, carry, node, rotation, wanted, acked, delWanted,
                   ghosts, count>>

-----------------------------------------------------------------------------
(* Faults: a handler dies between two commands, or a command fails *)

Fault == faults < plan.faults /\ faults' = faults + 1

Interrupt(o) ==
    /\ Fault
    /\ pc[o] # "idle"
    /\ Goto(o, "idle") /\ carry' = [carry EXCEPT ![o] = NoKey]
    /\ UNCHANGED <<instance, disk, kms, node, rotation, calls, ghosts, keys, uids>>

InterruptStage(v) ==
    /\ Fault
    /\ stage[v] # "idle"
    /\ stage' = [stage EXCEPT ![v] = "idle"] /\ pass' = [pass EXCEPT ![v] = NoKey]
    /\ UNCHANGED <<instance, disk, kms, pc, carry, mapped, rotation, calls, ghosts, keys,
                   uids>>

InterruptRotation(j) ==
    /\ Fault
    /\ rot[j] # "idle"
    /\ RotEnd(j)
    /\ UNCHANGED <<instance, disk, kms, pc, carry, node, calls, ghosts, keys, uids>>

-----------------------------------------------------------------------------
InheritStep(o) ==
    \/ Descriptor(o) \/ CloneRead(o) \/ CloneWrite(o)
    \/ CloneRegister(o) \/ CloneUid(o) \/ CloneOwner(o)

Next ==
    \/ \E v \in Vol : \/ CreateCall(v) \/ TmpSnap(v) \/ Make(v) \/ KmsIdSet(v)
                      \/ StageKey(v) \/ StageFormat(v) \/ Unstage(v)
                      \/ DeleteVolumeKey(v) \/ RemoveImage(v) \/ InterruptStage(v)
                      \/ \E j \in Job : RotRead(j, v)
    \/ \E s \in Snap : SnapshotCall(s) \/ SnapRemove(s) \/ ReapKey(s) \/ ReapMeta(s)
    \/ \E o \in Obj : InheritStep(o) \/ DeleteCall(o) \/ Interrupt(o)
    \/ \E j \in Job : \/ RotMint(j) \/ RotAdd(j) \/ RotPersist(j) \/ RotDestroy(j)
                      \/ RotRemove(j) \/ InterruptRotation(j)

Spec == Init /\ [][Next]_vars

-----------------------------------------------------------------------------
\* A formatted volume can be opened with the key that is stored for it, after a
\* crash at any step of RotateEncryptionKey, under concurrent rotations, and when
\* it is a clone or restore that inherited its key, freshly or on a resumed
\* create.  Left out are copies made while a rotation of the source committed,
\* and what a keyless restore does to the volume it shares an object with.
VolumeOpens ==
    keyless = {} =>
        \A v \in (Vol \cap acked) \ (delWanted \cup raced) :
            header[v] # {} => Stored(v) \in header[v]

\* The key a restore of a snapshot will inherit opens the header the snapshot
\* holds, whatever rotations and deletions its volume has seen since
\* (CreateSnapshot captures the key; DeleteVolume leaves the volume's while
\* snapshots remain).
SnapshotRestores ==
    \A s \in (Snap \cap acked) \ (delWanted \cup raced) :
        header[s] # {} => Stored(KeySource(s)) \in header[s]

=============================================================================
