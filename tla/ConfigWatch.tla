----------------------------- MODULE ConfigWatch -----------------------------
(***************************************************************************)
(* How the driver follows the BackendCluster resources: WatchFromAPI and    *)
(* its cycle (internal/config/crd.go) and the callback that rebuilds and    *)
(* swaps the driver's registry and dispatcher (cmd/bard-csi).  The API      *)
(* server keeps the current set and a version; the watch holds a cursor and *)
(* is sent one event per version after it.                                  *)
(***************************************************************************)
EXTENDS Dispatch, Naturals

CONSTANTS
    Sets,        \* the sets of resources an administrator may leave behind
    None

VARIABLES
    api,         \* the resources on the API server
    version,     \* their resourceVersion
    mode,        \* "list": the cursor is empty; "watch": a stream is open
    cursor,      \* the last resourceVersion the watch saw
    loaded,      \* the set read for onChange, before the rebuild; None when idle
    cfg,         \* what the driver's registry and dispatcher were built from
    lost,        \* history: the last reload was dropped because a call failed
    trouble      \* API or plugin failures met so far

vars == <<api, version, mode, cursor, loaded, cfg, lost, trouble>>

\* The process has loaded and built; its watch starts, or has listed already.
Init ==
    /\ api \in {s \in Sets : Buildable(s)}
    /\ version = 0 /\ mode \in {"list", "watch"} /\ cursor = 0
    /\ loaded = None /\ cfg = api /\ lost = FALSE /\ trouble = 0

\* The administrator creates, edits or deletes resources.
Edit(bound) ==
    /\ version < bound
    /\ api' \in Sets \ {api}
    /\ version' = version + 1
    /\ UNCHANGED <<mode, cursor, loaded, cfg, lost, trouble>>

\* Mutant of List: the list is used for its version alone.
ListCursorOnly ==
    /\ mode = "list" /\ loaded = None
    /\ cursor' = version
    /\ mode' = "watch"
    /\ UNCHANGED <<api, version, loaded, cfg, lost, trouble>>

\* The cursor is empty: list, take the list's version, and reload from the items
\* when they make a configuration.
List ==
    /\ mode = "list" /\ loaded = None
    /\ cursor' = version
    /\ mode' = "watch"
    /\ loaded' = IF WellFormed(api) THEN api ELSE None
    /\ lost' = FALSE
    /\ UNCHANGED <<api, version, cfg, trouble>>

\* An event: the cursor moves first, then the whole set is read again, which may
\* fail (the event is then skipped) or make no configuration.
Event(bound) ==
    /\ mode = "watch" /\ loaded = None
    /\ cursor < version
    /\ cursor' = cursor + 1
    /\ \/ /\ loaded' = IF WellFormed(api) THEN api ELSE None
          /\ UNCHANGED <<lost, trouble>>
       \/ /\ trouble < bound
          /\ trouble' = trouble + 1
          /\ lost' = TRUE
          /\ UNCHANGED loaded
    /\ UNCHANGED <<api, version, mode, cfg>>

\* onChange: every plugin is dialled and a dispatcher built, then the pair is
\* swapped in one store; a plugin that does not answer, or zones that collide,
\* keep the current one.
Build(bound) ==
    /\ loaded # None
    /\ loaded' = None
    /\ \/ /\ cfg' = IF ZonesDistinct(loaded) THEN loaded ELSE cfg
          /\ lost' = FALSE
          /\ UNCHANGED trouble
       \/ /\ trouble < bound
          /\ trouble' = trouble + 1
          /\ lost' = TRUE
          /\ UNCHANGED cfg
    /\ UNCHANGED <<api, version, mode, cursor>>

\* The stream fails or the cursor has expired: the cursor is dropped.  A clean
\* end of the stream resumes from the cursor and changes nothing here.
StreamError(bound) ==
    /\ mode = "watch" /\ loaded = None
    /\ trouble < bound
    /\ trouble' = trouble + 1
    /\ mode' = "list"
    /\ UNCHANGED <<api, version, cursor, loaded, cfg, lost>>

\* The driver's process starts again: it loads and builds before it serves, and
\* exits again until that works.
Restart ==
    /\ Buildable(api)
    /\ cfg' = api
    /\ mode' = "list" /\ loaded' = None /\ lost' = FALSE
    /\ UNCHANGED <<api, version, cursor, trouble>>

=============================================================================
