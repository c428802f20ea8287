------------------------------- MODULE Dispatch -------------------------------
(***************************************************************************)
(* From BackendCluster resources to a backend instance: when a set of       *)
(* resources makes a configuration (internal/config), when a dispatcher can *)
(* be built from it, and which instance a CreateVolume request resolves to  *)
(* (internal/dispatch).  A resource is a record [type, inst, zone, dflt,    *)
(* plugin]; a configuration is a set of them.                               *)
(***************************************************************************)
EXTENDS Naturals, Sequences

\* The resources of one backend type.
OfType(crs, t) == {c \in crs : c.type = t}

\* Config.validate: at least one backend, and a zone on every instance (a type
\* is there because an instance of it is).
Validated(crs) == crs # {} /\ \A c \in crs : c.zone # ""

\* FromBackendClusters accepts the set: the resources of a type agree on the
\* plugin's endpoint, name different instances and mark at most one default.
WellFormed(crs) ==
    /\ \A c, d \in crs :
          c # d /\ c.type = d.type =>
             /\ c.plugin = d.plugin
             /\ c.inst # d.inst
             /\ ~(c.dflt /\ d.dflt)
    /\ Validated(crs)

\* dispatch.New accepts it: no two instances of a type claim one zone.
ZonesDistinct(crs) ==
    \A c, d \in crs : c # d /\ c.type = d.type => c.zone # d.zone

Buildable(crs) == WellFormed(crs) /\ ZonesDistinct(crs)

\* Resolve: the instances a request for type t may be sent to, empty when it is
\* refused, a singleton otherwise.  The first preferred zone that some instance
\* serves decides, then the first requisite one, then the default, then a lone
\* instance.
Resolve(crs, t, preferred, requisite) ==
    LET of     == OfType(crs, t)
        zones  == preferred \o requisite
        served == {k \in DOMAIN zones : \E c \in of : c.zone = zones[k]}
        First(k) == \A j \in served : k <= j
    IN IF served # {} THEN {c.inst : c \in {d \in of : \E k \in served : First(k) /\ d.zone = zones[k]}}
       ELSE IF \E c \in of : c.dflt THEN {c.inst : c \in {d \in of : d.dflt}}
       ELSE IF \E c \in of : of = {c} THEN {c.inst : c \in of}
       ELSE {}

\* zonesFrom on a request that names its zones twice, the way the provisioner
\* sends them, is a pair of sequences; a type with no resource has no registered
\* backend (Registry.Get).
Registered(crs, t) == OfType(crs, t) # {}
=============================================================================
