----------------------------- MODULE DriverCalls -----------------------------
(***************************************************************************)
(* The core driver between Kubernetes and the backend plugins: the claims   *)
(* that admit one operation per object (internal/driver/inflight.go), the   *)
(* dispatch of creates, the proxied call to the plugin over its socket      *)
(* (internal/backend/plugin), the caller's deadline, a restart of the       *)
(* driver, and the configuration swapped under all of it (ConfigWatch).     *)
(*                                                                          *)
(* A slot is one call: the driver's half (waiting for the plugin, or over)  *)
(* and the plugin's half (request sent, handler running, answered).  When   *)
(* the driver's half ends first, the connection closes and the plugin's     *)
(* half is left to notice.                                                  *)
(***************************************************************************)
EXTENDS Naturals

CONSTANTS
    Sets, None,  \* see ConfigWatch
    Slots,       \* calls that may be under way at once
    Type,        \* the backend type the storage class names
    Topologies,  \* the zone preferences the scheduler may send, as sequences
    Origin,      \* [objects -> the object it is made from, or None]
    Snapshots,   \* the objects that are snapshots; the others are volumes
    Plans        \* scenarios, see Init

VARIABLES
    plan,        \* [objs, made: [objects -> an instance or None], slots, first, mode, edits,
                 \*  trouble, deadlines, restarts, ops]
    api, version, mode, cursor, loaded, cfg, lost, trouble,
    slot,        \* [Slots -> Idle or a call]
    claims,      \* the driver's in-flight keys
    store,       \* <<object, instance>> pairs the backends hold
    handle,      \* [objects -> the instance in the id the caller was given]
    gone,        \* objects whose delete was acknowledged
    expired,     \* deadlines met so far
    restarts

watchVars == <<api, version, mode, cursor, loaded, cfg, lost, trouble>>
callVars == <<slot, claims, store, handle, gone, expired, restarts>>
vars == <<plan, watchVars, callVars>>

Watch == INSTANCE ConfigWatch

Objects == DOMAIN Origin

\* A slot without a call.
Idle == [drv |-> "idle"]

\* What a plan starts with: copies lie beside their sources.
ASSUME Scenarios ==
    /\ \A o \in Objects : Origin[o] \in Objects \cup {None}
    /\ \A p \in Plans : /\ p.slots \subseteq Slots /\ p.objs \subseteq Objects
                        /\ p.made \in [Objects -> {p.made[o] : o \in Objects}]
                        /\ \A o \in Objects : p.made[o] # None /\ Origin[o] # None
                                              => p.made[Origin[o]] = p.made[o]

Init ==
    /\ plan \in Plans
    /\ Watch!Init /\ api \in plan.first /\ mode = plan.mode
    /\ slot = [k \in Slots |-> Idle]
    /\ claims = {}
    /\ handle = plan.made
    /\ store = {<<o, handle[o]>> : o \in {x \in Objects : handle[x] # None}}
    /\ gone = {} /\ expired = 0 /\ restarts = 0

-----------------------------------------------------------------------------
(* Admission: the claim, and the request on its way to the plugin *)

\* The key an operation claims.  Creates claim the name the caller chose, the
\* other operations the id they were given, in a name space per plane.
Key(op, o) ==
    CASE op = "create"  -> <<IF o \in Snapshots THEN "snapshot-name" ELSE "volume-name", o>>
      [] op = "delete"  -> <<IF o \in Snapshots THEN "snapshot" ELSE "volume", o>>
      [] op \in {"expand", "modify"}    -> <<"volume", o>>
      [] op \in {"attach", "detach"}    -> <<"attach", o>>
      [] OTHER                          -> <<"node", o>>

\* Mutant of Admit: an operation's duplicate is let through.
AdmitAgain(k, op, o, i) ==
    /\ op \in plan.ops
    /\ slot[k] = Idle
    /\ claims' = claims \cup {Key(op, o)}
    /\ slot' = [slot EXCEPT ![k] = [op |-> op, obj |-> o, inst |-> i,
                                    drv |-> "waiting", plg |-> "sent"]]

\* claim, then the call.  A key that is held answers Aborted and changes nothing.
Admit(k, op, o, i) ==
    /\ op \in plan.ops
    /\ slot[k] = Idle
    /\ Key(op, o) \notin claims
    /\ claims' = claims \cup {Key(op, o)}
    /\ slot' = [slot EXCEPT ![k] = [op |-> op, obj |-> o, inst |-> i,
                                    drv |-> "waiting", plg |-> "sent"]]

\* Objects the caller was given and has not been told are deleted.
Live == {o \in Objects : handle[o] # None /\ o \notin gone}

\* Mutant of SourceThere: only the source's existence is looked at.
SourceSomewhere(o, i) == Origin[o] # None => handle[Origin[o]] # None

\* validateContentSourceTarget: the source lives on the instance chosen.
SourceThere(o, i) == Origin[o] # None => handle[Origin[o]] = i

\* CreateVolume: one snapshot of registry and dispatcher decides the instance.
CreateVolume(k, o) ==
    /\ o \notin Snapshots /\ handle[o] = None
    /\ Origin[o] # None => handle[Origin[o]] # None
    /\ Watch!Registered(cfg, Type)
    /\ \E zones \in Topologies : \E i \in Watch!Resolve(cfg, Type, zones, <<>>) :
          SourceThere(o, i) /\ Admit(k, "create", o, i)

\* CreateSnapshot: the volume's own instance.
CreateSnapshot(k, o) ==
    /\ o \in Snapshots /\ handle[o] = None
    /\ Origin[o] \in Live
    /\ Watch!Registered(cfg, Type)
    /\ Admit(k, "create", o, handle[Origin[o]])

\* Every other call names an object by the id it was given, which carries its
\* instance; the type must still be registered.
OnHandle(k, op, o) ==
    /\ o \in Live
    /\ Watch!Registered(cfg, Type)
    /\ Admit(k, op, o, handle[o])

DeleteVolume(k, o) == o \notin Snapshots /\ OnHandle(k, "delete", o)
DeleteSnapshot(k, o) == o \in Snapshots /\ OnHandle(k, "delete", o)
ControllerExpandVolume(k, o) == o \notin Snapshots /\ OnHandle(k, "expand", o)
ControllerModifyVolume(k, o) == o \notin Snapshots /\ OnHandle(k, "modify", o)
ControllerPublishVolume(k, o) == o \notin Snapshots /\ OnHandle(k, "attach", o)
ControllerUnpublishVolume(k, o) == o \notin Snapshots /\ OnHandle(k, "detach", o)
NodeStageVolume(k, o) == o \notin Snapshots /\ OnHandle(k, "stage", o)
NodeUnstageVolume(k, o) == o \notin Snapshots /\ OnHandle(k, "unstage", o)
NodePublishVolume(k, o) == o \notin Snapshots /\ OnHandle(k, "publish", o)
NodeUnpublishVolume(k, o) == o \notin Snapshots /\ OnHandle(k, "unpublish", o)
NodeExpandVolume(k, o) == o \notin Snapshots /\ OnHandle(k, "grow", o)

Call(k, o) ==
    /\ \/ CreateVolume(k, o)
       \/ CreateSnapshot(k, o)
       \/ DeleteVolume(k, o)
       \/ DeleteSnapshot(k, o)
       \/ ControllerExpandVolume(k, o)
       \/ ControllerModifyVolume(k, o)
       \/ ControllerPublishVolume(k, o)
       \/ ControllerUnpublishVolume(k, o)
       \/ NodeStageVolume(k, o)
       \/ NodeUnstageVolume(k, o)
       \/ NodePublishVolume(k, o)
       \/ NodeUnpublishVolume(k, o)
       \/ NodeExpandVolume(k, o)
    /\ UNCHANGED <<plan, watchVars, store, handle, gone, expired, restarts>>

-----------------------------------------------------------------------------
(* The plugin's half *)

Busy(k) == slot[k] # Idle
Running(k) == Busy(k) /\ slot[k].plg = "run"
Abandoned(k) == Busy(k) /\ slot[k].drv = "over"

\* The request reaches the plugin's handler, which looks at no other request: one
\* whose connection has closed may still be at work on the same object.
Handle(k) ==
    /\ Busy(k) /\ slot[k].plg = "sent"
    /\ slot' = [slot EXCEPT ![k].plg = "run"]
    /\ UNCHANGED <<plan, watchVars, claims, store, handle, gone, expired, restarts>>

\* The handler's work, repeatable: a create of what is there and a delete of
\* what is not there succeed; the other operations leave the store as it is.
Effect(c) ==
    CASE c.op = "create" -> store \cup {<<c.obj, c.inst>>}
      [] c.op = "delete" -> store \ {<<c.obj, c.inst>>}
      [] OTHER           -> store

Work(k) ==
    /\ Running(k)
    /\ store' = Effect(slot[k])
    /\ slot' = [slot EXCEPT ![k] = IF @.drv = "over" THEN Idle ELSE [@ EXCEPT !.plg = "ok"]]
    /\ UNCHANGED <<plan, watchVars, claims, handle, gone, expired, restarts>>

\* The handler fails before it changed anything.
Refuse(k) ==
    /\ Running(k) /\ slot[k].drv = "waiting"
    /\ slot' = [slot EXCEPT ![k].plg = "error"]
    /\ UNCHANGED <<plan, watchVars, claims, store, handle, gone, expired, restarts>>

\* The plugin notices the closed connection: the request's context is cancelled
\* and the command it runs is killed.
Notice(k) ==
    /\ Abandoned(k)
    /\ slot' = [slot EXCEPT ![k] = Idle]
    /\ UNCHANGED <<plan, watchVars, claims, store, handle, gone, expired, restarts>>

-----------------------------------------------------------------------------
(* The driver's half ends *)

\* The plugin's answer, mapped to a status for the caller; done() releases.
Answer(k) ==
    /\ Busy(k) /\ slot[k].drv = "waiting" /\ slot[k].plg \in {"ok", "error"}
    /\ LET c == slot[k] IN
       /\ handle' = IF c.op = "create" /\ c.plg = "ok"
                    THEN [handle EXCEPT ![c.obj] = c.inst] ELSE handle
       /\ gone' = IF c.op = "delete" /\ c.plg = "ok" THEN gone \cup {c.obj} ELSE gone
       /\ claims' = claims \ {Key(c.op, c.obj)}
    /\ slot' = [slot EXCEPT ![k] = Idle]
    /\ UNCHANGED <<plan, watchVars, store, expired, restarts>>

\* The slot once the driver's half is over.
Abandon(c) ==
    IF c = Idle \/ c.plg \in {"ok", "error"} THEN Idle ELSE [c EXCEPT !.drv = "over"]

\* The caller's deadline expires or it cancels: the client's request returns at
\* once, whatever the plugin is doing, and done() releases.
Deadline(k) ==
    /\ Busy(k) /\ slot[k].drv = "waiting"
    /\ expired < plan.deadlines
    /\ expired' = expired + 1
    /\ claims' = claims \ {Key(slot[k].op, slot[k].obj)}
    /\ slot' = [slot EXCEPT ![k] = Abandon(@)]
    /\ UNCHANGED <<plan, watchVars, store, handle, gone, restarts>>

\* The driver's process dies and starts again; the plugins live on.
Restart ==
    /\ restarts < plan.restarts
    /\ restarts' = restarts + 1
    /\ Watch!Restart
    /\ claims' = {}
    /\ slot' = [k \in Slots |-> Abandon(slot[k])]
    /\ UNCHANGED <<plan, store, handle, gone, expired>>

-----------------------------------------------------------------------------
(* The configuration *)

Edit == Watch!Edit(plan.edits) /\ UNCHANGED <<plan, callVars>>
WatchList == Watch!List /\ UNCHANGED <<plan, callVars>>
WatchEvent == Watch!Event(plan.trouble) /\ UNCHANGED <<plan, callVars>>
SetBackends == Watch!Build(plan.trouble) /\ UNCHANGED <<plan, callVars>>
StreamError == Watch!StreamError(plan.trouble) /\ UNCHANGED <<plan, callVars>>

Next ==
    \/ \E k \in plan.slots :
          \/ \E o \in plan.objs : Call(k, o)
          \/ Handle(k) \/ Work(k) \/ Refuse(k) \/ Notice(k)
          \/ Answer(k) \/ Deadline(k)
    \/ Restart
    \/ Edit \/ WatchList \/ WatchEvent \/ SetBackends \/ StreamError

Spec == Init /\ [][Next]_vars

\* The watch goroutine keeps running.
FairSpec == Spec /\ WF_vars(WatchList) /\ WF_vars(WatchEvent) /\ WF_vars(SetBackends)

-----------------------------------------------------------------------------
(* Properties *)

\* claim and its release (inflight.go), whatever duplicates, deadlines and restarts
\* there were: two handlers of a plugin run for one key only when the caller of one
\* has given up, so no caller is answered by a handler that another awaited one
\* raced; and a key is held only as long as a call for it is awaited, so that no
\* way a call can end leaves the object locked.  A handler whose caller gave up does
\* run beside the retry: "the retry lands after the original finishes"
\* (inflight.go) is true of the driver's half of the original only.
OneHandler ==
    /\ \A j, k \in Slots :
          j # k /\ Running(j) /\ Running(k)
          /\ Key(slot[j].op, slot[j].obj) = Key(slot[k].op, slot[k].obj)
             => Abandoned(j) \/ Abandoned(k)
    /\ claims = {Key(slot[k].op, slot[k].obj) : k \in {j \in Slots : Busy(j) /\ ~Abandoned(j)}}

\* validateContentSourceTarget and the handle: a copy is never made on an
\* instance other than its source's, however the default instance and the zones
\* were re-pointed between the two creates.
CopiesBesideSource ==
    \A p \in store : Origin[p[1]] # None => handle[Origin[p[1]]] = p[2]

\* WatchFromAPI and the reload callback: once the administrator is done, the
\* driver ends up on the resources they left, when those make a configuration
\* and the last reload was not dropped because the API server or a plugin failed.
ConfigConverges == <>[](cfg = api \/ ~Watch!Buildable(api) \/ lost)
=============================================================================
