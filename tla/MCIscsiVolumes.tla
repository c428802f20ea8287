--------------------------- MODULE MCIscsiVolumes ---------------------------
(* Small instances of IscsiVolumes for TLC. *)
EXTENDS IscsiVolumes

CONSTANTS base, copy, s1

Sources(x) == [v \in Vol |-> IF v = copy THEN x ELSE None]

\* Local management of one volume on several portals, through interruptions
\* and a time without its configuration.
OneLocal == [vols |-> {copy}, attach |-> {copy}, src |-> Sources(None),
             targetd |-> FALSE, paths |-> TRUE, chap |-> TRUE,
             defaultBase |-> TRUE, faults |-> 2, outages |-> 1]

\* Local management with copy a clone of base or a restore of s1.
Copied(x) == [OneLocal EXCEPT !.vols = {base, copy}, !.src = Sources(x),
                              !.paths = FALSE, !.faults = 1, !.outages = 0]

\* targetd, which depends on its configuration.
OneRemote == [OneLocal EXCEPT !.vols = {base}, !.attach = {base}, !.targetd = TRUE,
                              !.paths = FALSE, !.chap = FALSE,
                              !.defaultBase = FALSE]

MCPlans == {OneLocal, OneRemote, Copied(base), Copied(s1)}

MCReqSize == [v \in Vol |-> IF v = base THEN 1 ELSE 2]
=============================================================================
