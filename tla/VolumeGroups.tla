----------------------------- MODULE VolumeGroups -----------------------------
(***************************************************************************)
(* csi-addons volume groups over rbd groups: the driver's group service     *)
(* (internal/driver/volumegroup.go) and the plugin's                        *)
(* (internal/cephplugin/volumegroup.go).  A call runs one command per       *)
(* member and can die between two; it takes no claim, and an image can be   *)
(* in one group only.                                                       *)
(***************************************************************************)
EXTENDS Naturals, FiniteSets

CONSTANTS
    Group, Image,
    Instance,    \* the cluster these groups are in, part of their ids
    InstanceOf,  \* [Image -> the instance in its id]
    MaxGroupCalls,
    MaxGroupFaults,
    Untold

VARIABLES
    members,     \* [the groups that exist -> their images]
    gstep,       \* [Group -> "idle", "add", "remove", "list"]
    adding,      \* [Group -> images the call has still to add]
    removing,    \* [Group -> images the call has still to remove]
    told,        \* [Group -> the membership last reported, or Untold]
    gcalls, gfaults

groupVars == <<members, gstep, adding, removing, told, gcalls, gfaults>>

GroupInit ==
    /\ members = [g \in {} |-> {}]
    /\ gstep = [g \in Group |-> "idle"]
    /\ adding = [g \in Group |-> {}] /\ removing = adding
    /\ told = [g \in Group |-> Untold]
    /\ gcalls = 0 /\ gfaults = 0

Exists(g) == g \in DOMAIN members
HeldElsewhere(g, i) == \E h \in DOMAIN members \ {g} : i \in members[h]

\* parseMembers and the checks after it: members elsewhere are refused.
SameInstance(want) == \A i \in want : InstanceOf[i] = Instance

Begin(g, add, remove) ==
    /\ gstep[g] = "idle" /\ gcalls < MaxGroupCalls
    /\ gcalls' = gcalls + 1
    /\ gstep' = [gstep EXCEPT ![g] = "add"]
    /\ adding' = [adding EXCEPT ![g] = add]
    /\ removing' = [removing EXCEPT ![g] = remove]
    /\ told' = [told EXCEPT ![g] = Untold]
    /\ UNCHANGED gfaults

\* CreateVolumeGroup: rbd group create, "already exists" included, then every
\* member asked for.
CreateVolumeGroup(g, want) ==
    /\ SameInstance(want)
    /\ members' = [h \in DOMAIN members \cup {g} |-> IF Exists(h) THEN members[h] ELSE {}]
    /\ Begin(g, want, {})

\* ModifyVolumeGroup: the difference between the list it reads and the list asked
\* for.
ModifyVolumeGroup(g, want) ==
    /\ Exists(g) /\ SameInstance(want)
    /\ Begin(g, want \ members[g], members[g] \ want)
    /\ UNCHANGED members

\* rbd group image add: "exists" is success, whether the image is in this group
\* already or in another one, where it stays.
GroupImageAdd(g) ==
    /\ gstep[g] = "add" /\ Exists(g)
    /\ \E i \in adding[g] :
          /\ members' = IF HeldElsewhere(g, i) THEN members ELSE [members EXCEPT ![g] = @ \cup {i}]
          /\ adding' = [adding EXCEPT ![g] = @ \ {i}]
    /\ UNCHANGED <<gstep, removing, told, gcalls, gfaults>>

GroupImagesAdded(g) ==
    /\ gstep[g] = "add" /\ adding[g] = {}
    /\ gstep' = [gstep EXCEPT ![g] = "remove"]
    /\ UNCHANGED <<members, adding, removing, told, gcalls, gfaults>>

GroupImageRemove(g) ==
    /\ gstep[g] = "remove" /\ Exists(g)
    /\ \E i \in removing[g] :
          /\ members' = [members EXCEPT ![g] = @ \ {i}]
          /\ removing' = [removing EXCEPT ![g] = @ \ {i}]
    /\ UNCHANGED <<gstep, adding, told, gcalls, gfaults>>

\* Mutant of GroupReply: the reply adds the members that another group kept.
GroupReplyAsked(g) ==
    /\ gstep[g] = "remove" /\ removing[g] = {} /\ Exists(g)
    /\ \E want \in SUBSET Image :
          /\ members[g] \subseteq want /\ \A i \in want \ members[g] : HeldElsewhere(g, i)
          /\ told' = [told EXCEPT ![g] = want]
    /\ gstep' = [gstep EXCEPT ![g] = "idle"]
    /\ UNCHANGED <<members, adding, removing, gcalls, gfaults>>

\* The reply lists the group again.
GroupReply(g) ==
    /\ gstep[g] = "remove" /\ removing[g] = {} /\ Exists(g)
    /\ told' = [told EXCEPT ![g] = members[g]]
    /\ gstep' = [gstep EXCEPT ![g] = "idle"]
    /\ UNCHANGED <<members, adding, removing, gcalls, gfaults>>

\* DeleteVolumeGroup disbands the group; its images stay.
DeleteVolumeGroup(g) ==
    /\ gstep[g] = "idle" /\ Exists(g) /\ gcalls < MaxGroupCalls
    /\ gcalls' = gcalls + 1
    /\ members' = [h \in DOMAIN members \ {g} |-> members[h]]
    /\ told' = [told EXCEPT ![g] = Untold]
    /\ UNCHANGED <<gstep, adding, removing, gfaults>>

\* A command fails, the deadline passes or the plugin restarts.
GroupInterrupt(g) ==
    /\ gstep[g] # "idle" /\ gfaults < MaxGroupFaults
    /\ gfaults' = gfaults + 1
    /\ gstep' = [gstep EXCEPT ![g] = "idle"]
    /\ adding' = [adding EXCEPT ![g] = {}]
    /\ removing' = [removing EXCEPT ![g] = {}]
    /\ UNCHANGED <<members, told, gcalls>>

GroupNext ==
    \E g \in Group :
        \/ \E want \in SUBSET Image : CreateVolumeGroup(g, want) \/ ModifyVolumeGroup(g, want)
        \/ GroupImageAdd(g) \/ GroupImagesAdded(g) \/ GroupImageRemove(g) \/ GroupReply(g)
        \/ DeleteVolumeGroup(g) \/ GroupInterrupt(g)

-----------------------------------------------------------------------------
(* Properties *)

\* The reply of CreateVolumeGroup and ModifyVolumeGroup is what the group holds,
\* also when images asked for are in another group or calls on other groups run
\* beside it, and stays so until the group's next call.
GroupReplyTrue ==
    \A g \in Group : told[g] # Untold => Exists(g) /\ told[g] = members[g]
=============================================================================
