---------------------------- MODULE MCLvmVolumes ----------------------------
(* Small instances of LvmVolumes for TLC. *)
EXTENDS LvmVolumes

CONSTANTS base, copy, s1

\* copy is a plain volume, a clone of base or a restore of s1.
MCSources == {[v \in Vol |-> IF v = copy THEN x ELSE None] : x \in {None, base, s1}}
MCReqSize == [v \in Vol |-> IF v = base THEN 1 ELSE 2]
=============================================================================
