------------------------------ MODULE CsiAddons ------------------------------
(***************************************************************************)
(* The csi-addons services of the driver side by side: mirroring and        *)
(* fencing of an image between two clusters (RbdMirror), and volume groups  *)
(* in one of them (VolumeGroups).                                           *)
(***************************************************************************)
EXTENDS RbdMirror, VolumeGroups

addonVars == <<vars, groupVars>>

CsiInit == Init /\ GroupInit

CsiNext ==
    \/ Next /\ UNCHANGED groupVars
    \/ plan.groups /\ GroupNext /\ UNCHANGED vars

\* The controllers call again until they are told, the flatten worker and the
\* clusters' daemons keep running.
Fairness ==
    /\ WF_addonVars(Flatten /\ UNCHANGED groupVars)
    /\ \A s \in Site :
          /\ WF_addonVars(EnableImage(s) /\ UNCHANGED groupVars)
          /\ WF_addonVars(EnableSchedule(s) /\ UNCHANGED groupVars)
          /\ WF_addonVars(MirrorSnapshot(s) /\ UNCHANGED groupVars)
          /\ WF_addonVars(Replay(s) /\ UNCHANGED groupVars)

FairSpec == CsiInit /\ [][CsiNext]_addonVars /\ Fairness
=============================================================================
