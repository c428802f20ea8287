---------------------------- MODULE MCNfsVolumes ----------------------------
(* Small instances of NfsVolumes for TLC. *)
EXTENDS NfsVolumes

CONSTANTS base, copy, s1

Own == [v \in Vol |-> v]
Shared == [v \in Vol |-> base]
From(x) == [v \in Vol |-> IF v = copy THEN x ELSE None]

Plan(x, d, m, o) == [src |-> From(x), dir |-> d, onDelete |-> m, orderly |-> o]

\* copy has a directory of its own and is a clone of base or a restore of s1; or
\* it is a plain volume whose template expands to the directory of base, once base
\* is gone or at any time.
MCPlans ==
    {Plan(x, Own, "delete", TRUE) : x \in {base, s1}} \cup {Plan(base, Own, "retain", TRUE)}
    \cup {Plan(None, Shared, m, TRUE) : m \in {"delete", "archive"}}
    \cup {Plan(None, Shared, m, FALSE) : m \in {"delete", "archive"}}
=============================================================================
