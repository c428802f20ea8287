-------------------------- MODULE DriverCallsProofs --------------------------
(***************************************************************************)
(* The claims of the driver, for every number of calls, objects, deadlines, *)
(* restarts and configurations: one handler per key, and copies beside      *)
(* their source.  And the scan of --inspect beside them: what its report    *)
(* confirms is so, and drift that lasts through it is in the report.        *)
(***************************************************************************)
EXTENDS Inspect, Sequences, TLAPS

Waiting(k) == Busy(k) /\ slot[k].drv = "waiting"
KeyOf(k) == Key(slot[k].op, slot[k].obj)

IsCall(c) ==
    /\ c = [op |-> c.op, obj |-> c.obj, inst |-> c.inst, drv |-> c.drv, plg |-> c.plg]
    /\ c.obj \in Objects
    /\ c.drv \in {"waiting", "over"}
    /\ c.plg \in {"sent", "run", "ok", "error"}

Types ==
    /\ plan \in Plans
    /\ slot = [k \in Slots |-> slot[k]]
    /\ handle = [o \in Objects |-> handle[o]]
    /\ \A k \in Slots : Busy(k) => IsCall(slot[k])

\* A call that waits holds its key, alone, and a key that is held is some call's.
Claimed ==
    /\ \A k \in Slots : Waiting(k) => KeyOf(k) \in claims
    /\ \A j, k \in Slots : j # k /\ Waiting(j) /\ Waiting(k) => KeyOf(j) # KeyOf(k)
    /\ \A x \in claims : \E k \in Slots : Waiting(k) /\ KeyOf(k) = x

\* A create that waits has not been acknowledged, so the handle of a source, once
\* given, stays; creates of copies and what they made are on the source's instance.
Creating(k) == Busy(k) /\ slot[k].op = "create"
Beside(h, o, i) == Origin[o] # None => h[Origin[o]] = i /\ i # None
Placed ==
    /\ \A k \in Slots : Creating(k) /\ Waiting(k) => handle[slot[k].obj] = None
    /\ \A k \in Slots : Creating(k) => Beside(handle, slot[k].obj, slot[k].inst)
    /\ \A p \in store : p[1] \in Objects /\ Beside(handle, p[1], p[2])

-----------------------------------------------------------------------------
(* How a step may change the slots *)

\* The other slots keep their calls.
Others(k) ==
    \A j \in Slots \ {k} :
        /\ slot'[j] = slot[j] /\ KeyOf(j)' = KeyOf(j)
        /\ Busy(j)' = Busy(j) /\ Waiting(j)' = Waiting(j) /\ Creating(j)' = Creating(j)

\* The slot keeps its call, whose halves may have moved.
Same(k) ==
    /\ Busy(k) /\ KeyOf(k)' = KeyOf(k)
    /\ slot'[k].op = slot[k].op /\ slot'[k].obj = slot[k].obj /\ slot'[k].inst = slot[k].inst

LEMMA OneSlot ==
    ASSUME Types, NEW k \in Slots, NEW c, slot' = [slot EXCEPT ![k] = c],
           plan' = plan, handle' = [o \in Objects |-> handle'[o]],
           c = Idle \/ IsCall(c)
    PROVE  Types' /\ Others(k) /\ slot'[k] = c
<1>1. slot' = [j \in Slots |-> IF j = k THEN c ELSE slot[j]]
  BY Zenon DEF Types
<1>2. slot'[k] = c /\ \A j \in Slots \ {k} : slot'[j] = slot[j]
  BY <1>1, Zenon
<1>3. Others(k)
  BY <1>2, Zenon DEF Others, KeyOf, Busy, Waiting, Creating
<1>4. slot' = [j \in Slots |-> slot'[j]]
  BY <1>1, Zenon
<1>5. \A j \in Slots : Busy(j)' => IsCall(slot'[j])
  BY <1>2, Zenon DEF Types, Busy
<1>6. plan' \in Plans
  BY Zenon DEF Types
<1>. QED  BY <1>2, <1>3, <1>4, <1>5, <1>6, Zenon DEF Types, IsCall, Busy

LEMMA CallsAreBusy ==
    ASSUME NEW c, IsCall(c)
    PROVE  c # Idle
  BY DEF IsCall, Idle

\* What replacing one half of a call leaves.
LEMMA Halves ==
    ASSUME NEW c, IsCall(c), NEW x \in {"waiting", "over"},
           NEW y \in {"sent", "run", "ok", "error"}
    PROVE  /\ IsCall([c EXCEPT !.drv = x]) /\ IsCall([c EXCEPT !.plg = y])
           /\ [c EXCEPT !.drv = x].drv = x /\ [c EXCEPT !.plg = y].drv = c.drv
           /\ [c EXCEPT !.drv = x].plg = c.plg /\ [c EXCEPT !.plg = y].plg = y
           /\ [c EXCEPT !.drv = x].op = c.op /\ [c EXCEPT !.plg = y].op = c.op
           /\ [c EXCEPT !.drv = x].obj = c.obj /\ [c EXCEPT !.plg = y].obj = c.obj
           /\ [c EXCEPT !.drv = x].inst = c.inst /\ [c EXCEPT !.plg = y].inst = c.inst
<1>1. [c EXCEPT !.drv = x] = [op |-> c.op, obj |-> c.obj, inst |-> c.inst,
                              drv |-> x, plg |-> c.plg]
  BY DEF IsCall
<1>2. [c EXCEPT !.plg = y] = [op |-> c.op, obj |-> c.obj, inst |-> c.inst,
                              drv |-> c.drv, plg |-> y]
  BY DEF IsCall
<1>3. c.obj \in Objects /\ c.drv \in {"waiting", "over"}
      /\ c.plg \in {"sent", "run", "ok", "error"}
  BY Zenon DEF IsCall
<1>. QED  BY <1>1, <1>2, <1>3, Zenon DEF IsCall

-----------------------------------------------------------------------------
(* The claims *)

\* The call of k gives its key back exactly when it stops to wait.
Shrinks(k) ==
    /\ Busy(k)' => Same(k)
    /\ Waiting(k)' => Waiting(k)
    /\ \/ claims' = claims /\ (Waiting(k) => Waiting(k)')
       \/ claims' = claims \ {KeyOf(k)} /\ Waiting(k) /\ ~ Waiting(k)'

LEMMA ShrinkKeepsClaims ==
    ASSUME Claimed, NEW k \in Slots, Others(k), Shrinks(k)
    PROVE  Claimed'
<1>1. \A j \in Slots : Waiting(j)' => Waiting(j) /\ KeyOf(j)' = KeyOf(j)
  BY Zenon DEF Others, Shrinks, Same, Waiting
<1>2. ASSUME NEW j \in Slots, Waiting(j)' PROVE KeyOf(j)' \in claims'
  <2>1. KeyOf(j) \in claims /\ Waiting(j) /\ KeyOf(j)' = KeyOf(j)
    BY <1>1, <1>2, Zenon DEF Claimed
  <2>2. CASE claims' = claims
    BY <2>1, <2>2, Zenon
  <2>3. CASE claims' = claims \ {KeyOf(k)} /\ Waiting(k) /\ ~ Waiting(k)'
    <3>1. j # k
      BY <1>2, <2>3, Zenon
    <3>2. KeyOf(j) # KeyOf(k)
      BY <2>1, <2>3, <3>1, Zenon DEF Claimed
    <3>. QED  BY <2>1, <2>3, <3>2, Zenon
  <2>. QED  BY <2>2, <2>3, Zenon DEF Shrinks
<1>3. \A i, j \in Slots : i # j /\ Waiting(i)' /\ Waiting(j)' => KeyOf(i)' # KeyOf(j)'
  BY <1>1, Zenon DEF Claimed
<1>4. ASSUME NEW x \in claims' PROVE \E j \in Slots : Waiting(j)' /\ KeyOf(j)' = x
  <2>1. x \in claims
    BY <1>4, Zenon DEF Shrinks
  <2>2. PICK j \in Slots : Waiting(j) /\ KeyOf(j) = x
    BY <2>1, Zenon DEF Claimed
  <2>3. CASE j # k
    BY <2>2, <2>3, Zenon DEF Others
  <2>4. CASE j = k
    <3>1. Waiting(k)'
      BY <1>4, <2>2, <2>4, Zenon DEF Shrinks
    <3>. QED  BY <1>1, <2>2, <2>4, <3>1, Zenon
  <2>. QED  BY <2>3, <2>4, Zenon
<1>. QED  BY <1>2, <1>3, <1>4, Zenon DEF Claimed

\* A new call's key was free.
LEMMA AdmitClaims ==
    ASSUME Claimed, NEW k \in Slots, Others(k), ~ Waiting(k), Waiting(k)',
           KeyOf(k)' \notin claims, claims' = claims \cup {KeyOf(k)'}
    PROVE  Claimed'
<1>1. \A j \in Slots : Waiting(j)' => KeyOf(j)' \in claims'
  BY Zenon DEF Others, Claimed
<1>2. ASSUME NEW i \in Slots, NEW j \in Slots, i # j, Waiting(i)', Waiting(j)'
      PROVE  KeyOf(i)' # KeyOf(j)'
  <2>1. CASE i = k
    <3>1. j # k /\ Waiting(j) /\ KeyOf(j)' = KeyOf(j)
      BY <1>2, <2>1, Zenon DEF Others
    <3>. QED  BY <2>1, <3>1, Zenon DEF Claimed, KeyOf
  <2>2. CASE j = k
    BY <1>2, <2>2, Zenon DEF Others, Claimed
  <2>3. CASE i # k /\ j # k
    BY <1>2, <2>3, Zenon DEF Others, Claimed
  <2>. QED  BY <2>1, <2>2, <2>3, Zenon
<1>3. ASSUME NEW x \in claims' PROVE \E j \in Slots : Waiting(j)' /\ KeyOf(j)' = x
  <2>1. CASE x \in claims
    <3>1. PICK j \in Slots : Waiting(j) /\ KeyOf(j) = x
      BY <2>1, Zenon DEF Claimed
    <3>2. j # k
      BY <3>1, Zenon
    <3>. QED  BY <3>1, <3>2, Zenon DEF Others
  <2>2. CASE x = KeyOf(k)'
    BY <2>2, Zenon
  <2>. QED  BY <1>3, <2>1, <2>2, Zenon
<1>. QED  BY <1>1, <1>2, <1>3, Zenon DEF Claimed

-----------------------------------------------------------------------------
(* Where copies are *)

\* A handler at work on the call of k leaves what the call asked for.
LEMMA WorkKeepsPlaces ==
    ASSUME Types, Placed, NEW k \in Slots, Others(k), handle' = handle,
           Busy(k)' => Same(k), Waiting(k)' => Waiting(k),
           \A p \in store' : p \in store \/ (Creating(k) /\ p = <<slot[k].obj, slot[k].inst>>)
    PROVE  Placed'
<1>1. \A j \in Slots : /\ Creating(j)' => /\ Creating(j) /\ slot'[j].obj = slot[j].obj
                                          /\ slot'[j].inst = slot[j].inst
                       /\ Waiting(j)' => Waiting(j)
  BY Zenon DEF Others, Same, Creating
<1>2. \A o, i : Beside(handle', o, i) <=> Beside(handle, o, i)
  BY Zenon DEF Beside
<1>3. \A j \in Slots : Creating(j)' /\ Waiting(j)' => handle'[slot'[j].obj] = None
  BY <1>1, Zenon DEF Placed
<1>4. \A j \in Slots : Creating(j)' => Beside(handle', slot'[j].obj, slot'[j].inst)
  BY <1>1, <1>2, Zenon DEF Placed
<1>5. ASSUME NEW p \in store' PROVE p[1] \in Objects /\ Beside(handle', p[1], p[2])
  <2>1. CASE p \in store
    BY <1>2, <2>1, Zenon DEF Placed
  <2>2. CASE Creating(k) /\ p = <<slot[k].obj, slot[k].inst>>
    <3>1. p[1] = slot[k].obj /\ p[2] = slot[k].inst
      BY <2>2, Zenon
    <3>2. slot[k].obj \in Objects
      BY <2>2, Zenon DEF Types, IsCall, Creating
    <3>3. Beside(handle, slot[k].obj, slot[k].inst)
      BY <2>2, Zenon DEF Placed
    <3>. QED  BY <1>2, <3>1, <3>2, <3>3, Zenon
  <2>. QED  BY <2>1, <2>2, Zenon
<1>. QED  BY <1>3, <1>4, <1>5, Zenon DEF Placed

\* A create is admitted beside its source.
LEMMA AdmitPlaces ==
    ASSUME Placed, NEW k \in Slots, Others(k), handle' = handle, store' = store,
           Creating(k)' => /\ handle[slot'[k].obj] = None
                           /\ Beside(handle, slot'[k].obj, slot'[k].inst)
    PROVE  Placed'
<1>1. \A o, i : Beside(handle', o, i) <=> Beside(handle, o, i)
  BY Zenon DEF Beside
<1>2. \A j \in Slots : Creating(j)' /\ Waiting(j)' => handle'[slot'[j].obj] = None
  BY Zenon DEF Placed, Others
<1>3. \A j \in Slots : Creating(j)' => Beside(handle', slot'[j].obj, slot'[j].inst)
  BY <1>1, Zenon DEF Placed, Others
<1>4. \A p \in store' : p[1] \in Objects /\ Beside(handle', p[1], p[2])
  BY <1>1, Zenon DEF Placed
<1>. QED  BY <1>2, <1>3, <1>4, Zenon DEF Placed

\* The handle that an answer gives was not given before: no copy relies on it, and
\* no other create of the object waits.
LEMMA AnswerPlaces ==
    ASSUME Types, Claimed, Placed, NEW k \in Slots, Others(k), ~ Busy(k)', store' = store,
           Creating(k), Waiting(k), handle' = [handle EXCEPT ![slot[k].obj] = slot[k].inst]
    PROVE  Placed'
<1>. DEFINE o == slot[k].obj
<1>1. handle[o] = None /\ o \in Objects
  BY Zenon DEF Placed, Types, IsCall, Creating
<1>2. \A q \in Objects : q # o => handle'[q] = handle[q]
  BY Zenon DEF Types
<1>3. ASSUME NEW q \in Objects, NEW i, Beside(handle, q, i) PROVE Beside(handle', q, i)
  <2>1. Origin[q] # None => Origin[q] \in Objects /\ Origin[q] # o
    BY <1>1, <1>3, Scenarios, Zenon DEF Beside
  <2>. QED  BY <1>2, <1>3, <2>1, Zenon DEF Beside
<1>4. ASSUME NEW j \in Slots, Creating(j)', Waiting(j)'
      PROVE  handle'[slot'[j].obj] = None
  <2>1. j # k /\ Creating(j) /\ Waiting(j) /\ slot'[j] = slot[j]
    BY <1>4, Zenon DEF Others, Creating
  <2>2. slot[j].obj \in Objects /\ handle[slot[j].obj] = None
    BY <2>1, Zenon DEF Placed, Types, IsCall, Creating
  <2>3. KeyOf(j) # KeyOf(k)
    BY <2>1, Zenon DEF Claimed
  <2>4. slot[j].obj # o
    BY <2>1, <2>3, Zenon DEF KeyOf, Creating
  <2>. QED  BY <1>2, <2>1, <2>2, <2>4, Zenon
<1>5. ASSUME NEW j \in Slots, Creating(j)'
      PROVE  Beside(handle', slot'[j].obj, slot'[j].inst)
  <2>1. j # k /\ Creating(j) /\ slot'[j] = slot[j]
    BY <1>5, Zenon DEF Others, Creating
  <2>2. slot[j].obj \in Objects
    BY <2>1, Zenon DEF Types, IsCall, Creating
  <2>3. Beside(handle, slot[j].obj, slot[j].inst)
    BY <2>1, Zenon DEF Placed
  <2>4. Beside(handle', slot[j].obj, slot[j].inst)
    BY <1>3, <2>2, <2>3, Zenon
  <2>. QED  BY <2>1, <2>4, Zenon
<1>6. \A p \in store' : p[1] \in Objects /\ Beside(handle', p[1], p[2])
  BY <1>3, Zenon DEF Placed
<1>. QED  BY <1>4, <1>5, <1>6, Zenon DEF Placed

-----------------------------------------------------------------------------
(* The steps *)

CallsInv == Types /\ Claimed /\ Placed

LEMMA CallStep ==
    ASSUME CallsInv, NEW k \in Slots, NEW o \in Objects, Call(k, o)
    PROVE  CallsInv'
<1>1. PICK op, i : /\ Admit(k, op, o, i)
                   /\ op = "create" => handle[o] = None /\ Beside(handle, o, i)
  <2>1. ASSUME CreateVolume(k, o)
        PROVE  \E i : Admit(k, "create", o, i) /\ handle[o] = None /\ Beside(handle, o, i)
    BY <2>1, Zenon DEF CreateVolume, SourceThere, Beside
  <2>2. ASSUME CreateSnapshot(k, o)
        PROVE  \E i : Admit(k, "create", o, i) /\ handle[o] = None /\ Beside(handle, o, i)
    BY <2>2, Zenon DEF CreateSnapshot, Live, Beside
  <2>3. ASSUME ~ CreateVolume(k, o), ~ CreateSnapshot(k, o)
        PROVE  \E op, i : Admit(k, op, o, i) /\ op # "create"
    <3>1. \E op \in {"delete", "expand", "modify", "attach", "detach", "stage",
                     "unstage", "publish", "unpublish", "grow"} : OnHandle(k, op, o)
      BY <2>3, Zenon DEF Call, DeleteVolume, DeleteSnapshot, ControllerExpandVolume,
           ControllerModifyVolume, ControllerPublishVolume, ControllerUnpublishVolume,
           NodeStageVolume, NodeUnstageVolume, NodePublishVolume, NodeUnpublishVolume,
           NodeExpandVolume
    <3>. QED  BY <3>1, Zenon DEF OnHandle
  <2>. QED  BY <2>1, <2>2, <2>3, Zenon
<1>. DEFINE c == [op |-> op, obj |-> o, inst |-> i, drv |-> "waiting", plg |-> "sent"]
<1>2. /\ slot' = [slot EXCEPT ![k] = c] /\ Key(op, o) \notin claims
      /\ claims' = claims \cup {Key(op, o)}
      /\ plan' = plan /\ handle' = handle /\ store' = store
  BY <1>1, Zenon DEF Admit, Call
<1>3. IsCall(c)
  BY Zenon DEF IsCall
<1>4. c.op = op /\ c.obj = o /\ c.inst = i /\ c.drv = "waiting" /\ c.plg = "sent"
  OBVIOUS
<1>. HIDE DEF c
<1>5. Types' /\ Others(k) /\ slot'[k] = c
  BY <1>2, <1>3, OneSlot, Zenon DEF CallsInv, Types
<1>6. ~ Waiting(k) /\ Waiting(k)' /\ KeyOf(k)' = Key(op, o)
  <2>1. ~ Busy(k)
    BY <1>1, Zenon DEF Admit, Busy
  <2>2. slot'[k] # Idle
    BY <1>3, <1>5, CallsAreBusy, Zenon
  <2>. QED  BY <1>4, <1>5, <2>1, <2>2, Zenon DEF Waiting, Busy, KeyOf
<1>7. Claimed'
  BY <1>2, <1>5, <1>6, AdmitClaims, Zenon DEF CallsInv
<1>8. Creating(k)' => handle[slot'[k].obj] = None /\ Beside(handle, slot'[k].obj, slot'[k].inst)
  BY <1>1, <1>4, <1>5, Zenon DEF Creating
<1>9. Placed'
  BY <1>2, <1>5, <1>8, AdmitPlaces, Zenon DEF CallsInv
<1>. QED  BY <1>5, <1>7, <1>9, Zenon DEF CallsInv

\* A step that replaces the call of k by c, which is the same call or none.
LEMMA SlotStep ==
    ASSUME CallsInv, NEW k \in Slots, Busy(k), NEW c, slot' = [slot EXCEPT ![k] = c],
           c = Idle \/ /\ IsCall(c) /\ c.op = slot[k].op /\ c.obj = slot[k].obj
                       /\ c.inst = slot[k].inst,
           plan' = plan, handle' = [o \in Objects |-> handle'[o]]
    PROVE  /\ Types' /\ Others(k) /\ slot'[k] = c
           /\ Busy(k)' => Same(k)
           /\ Waiting(k)' <=> c # Idle /\ c.drv = "waiting"
<1>1. Types' /\ Others(k) /\ slot'[k] = c
  BY OneSlot, Zenon DEF CallsInv
<1>2. Busy(k)' => Same(k)
  BY <1>1, Zenon DEF Busy, Same, KeyOf
<1>. QED  BY <1>1, <1>2, Zenon DEF Waiting, Busy

\* Steps in which a call ends, or a half of it does.
LEMMA EndStep ==
    ASSUME CallsInv, NEW k \in Slots, Busy(k), NEW c, slot' = [slot EXCEPT ![k] = c],
           c = Idle \/ /\ IsCall(c) /\ c.op = slot[k].op /\ c.obj = slot[k].obj
                       /\ c.inst = slot[k].inst
                       /\ c.drv = slot[k].drv \/ (c.drv = "over" /\ slot[k].drv = "waiting"),
           plan' = plan, handle' = handle,
           \A p \in store' : p \in store \/ (Creating(k) /\ p = <<slot[k].obj, slot[k].inst>>),
           \/ claims' = claims /\ (~ Waiting(k) \/ (c # Idle /\ c.drv = slot[k].drv))
           \/ /\ claims' = claims \ {KeyOf(k)} /\ Waiting(k)
              /\ c = Idle \/ c.drv = "over"
    PROVE  CallsInv'
<1>1. handle' = [o \in Objects |-> handle'[o]]
  BY Zenon DEF CallsInv, Types
<1>2. /\ Types' /\ Others(k) /\ slot'[k] = c
      /\ Busy(k)' => Same(k)
      /\ Waiting(k)' <=> c # Idle /\ c.drv = "waiting"
  BY <1>1, SlotStep, Zenon
<1>3. Waiting(k)' => Waiting(k)
  BY <1>2, Zenon DEF Busy, Waiting
<1>4. \/ claims' = claims /\ (Waiting(k) => Waiting(k)')
      \/ claims' = claims \ {KeyOf(k)} /\ Waiting(k) /\ ~ Waiting(k)'
  BY <1>2, Zenon DEF Waiting
<1>5. Claimed'
  BY <1>2, <1>3, <1>4, ShrinkKeepsClaims, Zenon DEF Shrinks, CallsInv
<1>6. Placed'
  BY <1>2, <1>3, WorkKeepsPlaces, Zenon DEF CallsInv
<1>. QED  BY <1>2, <1>5, <1>6, Zenon DEF CallsInv


LEMMA PluginStep ==
    ASSUME CallsInv, NEW k \in Slots, Handle(k) \/ Work(k) \/ Refuse(k) \/ Notice(k)
    PROVE  CallsInv'
<1>1. Busy(k) /\ IsCall(slot[k])
  BY Zenon DEF Handle, Work, Refuse, Notice, Running, Abandoned, CallsInv, Types
<1>2. plan' = plan /\ handle' = handle /\ claims' = claims
  BY Zenon DEF Handle, Work, Refuse, Notice
<1>3. ASSUME Work(k) PROVE CallsInv'
  <2>1. PICK c : c = IF slot[k].drv = "over" THEN Idle ELSE [slot[k] EXCEPT !.plg = "ok"]
    BY Zenon
  <2>2. slot' = [slot EXCEPT ![k] = c]
    BY <1>3, <2>1, Zenon DEF Work
  <2>3. CASE slot[k].drv = "over"
    <3>1. c = Idle /\ ~ Waiting(k)
      BY <2>1, <2>3, Zenon DEF Waiting
    <3>2. \A p \in store' : p \in store \/ (Creating(k) /\ p = <<slot[k].obj, slot[k].inst>>)
      BY <1>1, <1>3, Zenon DEF Work, Effect, Creating
    <3>. QED  BY <1>1, <1>2, <2>2, <3>1, <3>2, EndStep, Zenon
  <2>4. CASE slot[k].drv # "over"
    <3>1. c # Idle /\ IsCall(c) /\ c.op = slot[k].op /\ c.obj = slot[k].obj
          /\ c.inst = slot[k].inst /\ c.drv = slot[k].drv
      <4>1. c = [slot[k] EXCEPT !.plg = "ok"]
        BY <2>1, <2>4, Zenon
      <4>2. IsCall(c) /\ c.op = slot[k].op /\ c.obj = slot[k].obj
            /\ c.inst = slot[k].inst /\ c.drv = slot[k].drv
        BY <1>1, <4>1, Halves, ZenonT(30)
      <4>. QED  BY <4>2, CallsAreBusy, Zenon
    <3>2. \A p \in store' : p \in store \/ (Creating(k) /\ p = <<slot[k].obj, slot[k].inst>>)
      BY <1>1, <1>3, Zenon DEF Work, Effect, Creating
    <3>. QED  BY <1>1, <1>2, <2>2, <3>1, <3>2, EndStep, Zenon
  <2>. QED  BY <2>3, <2>4, Zenon
<1>4. ASSUME Handle(k) \/ Refuse(k) PROVE CallsInv'
  <2>1. PICK c, y : /\ y \in {"run", "error"} /\ c = [slot[k] EXCEPT !.plg = y]
                    /\ slot' = [slot EXCEPT ![k] = c] /\ store' = store
    BY <1>4, Zenon DEF Handle, Refuse
  <2>2. /\ IsCall(c) /\ c.op = slot[k].op /\ c.obj = slot[k].obj
        /\ c.inst = slot[k].inst /\ c.drv = slot[k].drv
    <3>1. CASE c = [slot[k] EXCEPT !.plg = "run"]
      BY <1>1, <3>1, Halves, ZenonT(30)
    <3>2. CASE c = [slot[k] EXCEPT !.plg = "error"]
      BY <1>1, <3>2, Halves, ZenonT(30)
    <3>. QED  BY <2>1, <3>1, <3>2, Zenon
  <2>3. c # Idle
    BY <2>2, CallsAreBusy, Zenon
  <2>. QED  BY <1>1, <1>2, <2>1, <2>2, <2>3, EndStep, Zenon
<1>5. ASSUME Notice(k) PROVE CallsInv'
  <2>1. slot' = [slot EXCEPT ![k] = Idle] /\ store' = store /\ ~ Waiting(k)
    BY <1>5, Zenon DEF Notice, Abandoned, Waiting
  <2>. QED  BY <1>1, <1>2, <2>1, EndStep, Zenon
<1>. QED  BY <1>3, <1>4, <1>5, Zenon

LEMMA DeadlineStep ==
    ASSUME CallsInv, NEW k \in Slots, Deadline(k)
    PROVE  CallsInv'
<1>1. Busy(k) /\ IsCall(slot[k]) /\ Waiting(k)
  BY Zenon DEF Deadline, Waiting, CallsInv, Types
<1>2. PICK c : c = Abandon(slot[k])
  BY Zenon
<1>3. /\ slot' = [slot EXCEPT ![k] = c] /\ claims' = claims \ {KeyOf(k)}
      /\ plan' = plan /\ handle' = handle /\ store' = store
  BY <1>2, Zenon DEF Deadline, KeyOf
<1>4. c = Idle \/ /\ IsCall(c) /\ c.op = slot[k].op /\ c.obj = slot[k].obj
                  /\ c.inst = slot[k].inst /\ c.drv = "over" /\ c.plg = slot[k].plg
  BY <1>1, <1>2, Halves, Zenon DEF Abandon
<1>5. slot[k].drv = "waiting"
  BY <1>1, Zenon DEF Waiting
<1>. QED  BY <1>1, <1>3, <1>4, <1>5, EndStep, Zenon

LEMMA AnswerStep ==
    ASSUME CallsInv, NEW k \in Slots, Answer(k)
    PROVE  CallsInv'
<1>1. Busy(k) /\ IsCall(slot[k]) /\ Waiting(k)
  BY Zenon DEF Answer, Waiting, CallsInv, Types
<1>2. /\ slot' = [slot EXCEPT ![k] = Idle] /\ claims' = claims \ {KeyOf(k)}
      /\ plan' = plan /\ store' = store
  BY Zenon DEF Answer, KeyOf
<1>3. CASE handle' = handle
  BY <1>1, <1>2, <1>3, EndStep, Zenon
<1>4. CASE Creating(k) /\ handle' = [handle EXCEPT ![slot[k].obj] = slot[k].inst]
  <2>1. handle' = [o \in Objects |-> handle'[o]]
    BY <1>4, Zenon DEF CallsInv, Types
  <2>2. /\ Types' /\ Others(k) /\ slot'[k] = Idle
        /\ Busy(k)' => Same(k)
        /\ Waiting(k)' <=> Idle # Idle /\ Idle.drv = "waiting"
    BY <1>1, <1>2, <2>1, SlotStep, Zenon
  <2>3. ~ Busy(k)'
    BY <2>2, Zenon DEF Busy
  <2>4. Claimed'
    BY <1>1, <1>2, <2>2, <2>3, ShrinkKeepsClaims, Zenon DEF Shrinks, Waiting, CallsInv
  <2>5. Placed'
    BY <1>1, <1>2, <1>4, <2>2, <2>3, AnswerPlaces, Zenon DEF CallsInv
  <2>. QED  BY <2>2, <2>4, <2>5, Zenon DEF CallsInv
<1>5. handle' = handle
      \/ (Creating(k) /\ handle' = [handle EXCEPT ![slot[k].obj] = slot[k].inst])
  BY <1>1, Zenon DEF Answer, Creating
<1>. QED  BY <1>3, <1>4, <1>5, Zenon

\* A restart of the driver gives every call up; the plugins' halves go on.
LEMMA RestartStep ==
    ASSUME CallsInv, Restart
    PROVE  CallsInv'
<1>1. /\ slot' = [k \in Slots |-> Abandon(slot[k])] /\ claims' = {}
      /\ plan' = plan /\ store' = store /\ handle' = handle
  BY Zenon DEF Restart
<1>2. ASSUME NEW k \in Slots
      PROVE  slot'[k] = Idle
             \/ /\ Busy(k) /\ IsCall(slot'[k]) /\ slot'[k].drv = "over"
                /\ slot'[k].op = slot[k].op /\ slot'[k].obj = slot[k].obj
                /\ slot'[k].inst = slot[k].inst /\ slot'[k].plg = slot[k].plg
  <2>1. slot'[k] = Abandon(slot[k])
    BY <1>1, Zenon
  <2>2. Busy(k) => IsCall(slot[k])
    BY Zenon DEF CallsInv, Types
  <2>3. CASE slot'[k] = [slot[k] EXCEPT !.drv = "over"] /\ Busy(k)
    <3>1. PICK c : c = [slot[k] EXCEPT !.drv = "over"]
      BY Zenon
    <3>2. /\ IsCall(c) /\ c.drv = "over" /\ c.plg = slot[k].plg /\ c.op = slot[k].op
          /\ c.obj = slot[k].obj /\ c.inst = slot[k].inst
      BY <2>2, <2>3, <3>1, Halves, Zenon
    <3>3. slot'[k] = c
      BY <2>3, <3>1, Zenon
    <3>. QED  BY <2>3, <3>2, <3>3, Zenon
  <2>. QED  BY <2>1, <2>3, Zenon DEF Abandon, Busy
<1>3. Types'
  <2>1. slot' = [k \in Slots |-> slot'[k]]
    BY <1>1, Zenon
  <2>2. \A k \in Slots : Busy(k)' => IsCall(slot'[k])
    BY <1>2, Zenon DEF Busy
  <2>3. plan' \in Plans /\ handle' = [o \in Objects |-> handle'[o]]
    BY <1>1, Zenon DEF CallsInv, Types
  <2>. QED  BY <2>1, <2>2, <2>3, Zenon DEF Types, IsCall
<1>4. \A k \in Slots : ~ Waiting(k)'
  BY <1>2, Zenon DEF Waiting, Busy
<1>7. Claimed'
  BY <1>1, <1>4, Zenon DEF Claimed
<1>8. \A k \in Slots : Creating(k)' => /\ Creating(k) /\ slot'[k].obj = slot[k].obj
                                       /\ slot'[k].inst = slot[k].inst
  BY <1>2, Zenon DEF Creating, Busy
<1>9. Placed'
  BY <1>1, <1>4, <1>8, Zenon DEF CallsInv, Placed
<1>. QED  BY <1>3, <1>7, <1>9, Zenon DEF CallsInv

LEMMA CallsStep == CallsInv /\ [Next]_vars => CallsInv'
<1>1. ASSUME CallsInv, UNCHANGED <<plan, callVars>> PROVE CallsInv'
  BY <1>1, Zenon DEF callVars, CallsInv, Types, Claimed, Placed, Waiting,
       Busy, Creating, KeyOf
<1>2. ASSUME CallsInv PROVE plan.slots \subseteq Slots /\ plan.objs \subseteq Objects
  BY <1>2, Scenarios, Zenon DEF CallsInv, Types
<1>3. ASSUME CallsInv, Next PROVE CallsInv'
  <2>1. ASSUME NEW k \in plan.slots, NEW o \in plan.objs, Call(k, o) PROVE CallsInv'
    BY <1>2, <1>3, <2>1, CallStep, Zenon
  <2>2. ASSUME NEW k \in plan.slots,
               Handle(k) \/ Work(k) \/ Refuse(k) \/ Notice(k) \/ Answer(k) \/ Deadline(k)
        PROVE  CallsInv'
    BY <1>2, <1>3, <2>2, PluginStep, AnswerStep, DeadlineStep, Zenon
  <2>3. ASSUME Edit \/ WatchList \/ WatchEvent \/ SetBackends \/ StreamError PROVE CallsInv'
    BY <1>1, <1>3, <2>3, Zenon DEF Edit, WatchList, WatchEvent, SetBackends, StreamError
  <2>. QED  BY <1>3, <2>1, <2>2, <2>3, RestartStep, Zenon DEF Next
<1>. QED  BY <1>1, <1>3, Zenon DEF vars

LEMMA CallsStart == Init => CallsInv
<1>. SUFFICES ASSUME Init PROVE CallsInv
  OBVIOUS
<1>1. /\ plan \in Plans /\ slot = [k \in Slots |-> Idle] /\ handle = plan.made /\ claims = {}
      /\ store = {<<o, handle[o]>> : o \in {x \in Objects : handle[x] # None}}
  BY Zenon DEF Init
<1>2. \A k \in Slots : ~ Busy(k)
  BY <1>1, Zenon DEF Busy
<1>3. handle = [o \in Objects |-> handle[o]]
  BY <1>1, Scenarios, Zenon
<1>4. Types
  BY <1>1, <1>2, <1>3, Zenon DEF Types
<1>5. Claimed
  BY <1>1, <1>2, Zenon DEF Claimed, Waiting
<1>6. \A p \in store : p[1] \in Objects /\ Beside(handle, p[1], p[2])
  BY <1>1, Scenarios DEF Beside
<1>7. Placed
  BY <1>2, <1>6, Zenon DEF Placed, Creating
<1>. QED  BY <1>4, <1>5, <1>7, Zenon DEF CallsInv

-----------------------------------------------------------------------------
LEMMA ClaimsServe == CallsInv => OneHandler
<1>. SUFFICES ASSUME CallsInv PROVE OneHandler
  OBVIOUS
<1>1. \A k \in Slots : Waiting(k) <=> Busy(k) /\ ~Abandoned(k)
  BY Zenon DEF CallsInv, Types, IsCall, Waiting, Abandoned
<1>2. ASSUME NEW j \in Slots, NEW k \in Slots, j # k, Running(j), Running(k),
             Key(slot[j].op, slot[j].obj) = Key(slot[k].op, slot[k].obj)
      PROVE  Abandoned(j) \/ Abandoned(k)
  BY <1>1, <1>2, Zenon DEF CallsInv, Claimed, KeyOf, Running
<1>3. claims = {Key(slot[k].op, slot[k].obj) : k \in {j \in Slots : Busy(j) /\ ~Abandoned(j)}}
  <2>1. ASSUME NEW x PROVE x \in claims <=> \E k \in Slots : Waiting(k) /\ x = KeyOf(k)
    BY Zenon DEF CallsInv, Claimed
  <2>. QED  BY <1>1, <2>1, Zenon DEF KeyOf
<1>. QED  BY <1>2, <1>3, Zenon DEF OneHandler

\* tryLock and its release (inflight.go): of the handlers of one key at most one has
\* a caller that waits for it, and no key is held that no call waits with, for any
\* number of calls, deadlines and restarts.
THEOREM HandlersExclude == Spec => []OneHandler
  BY ClaimsServe, CallsStart, CallsStep, PTL DEF Spec

\* validateContentSourceTarget: a clone or restore, and a snapshot, is only ever
\* made on its source's instance, for any configurations the watch swaps in.
THEOREM CopiesStayBeside == Spec => []CopiesBesideSource
<1>1. CallsInv => CopiesBesideSource
  BY Zenon DEF CallsInv, Placed, Beside, CopiesBesideSource
<1>. QED  BY <1>1, CallsStart, CallsStep, PTL DEF Spec

-----------------------------------------------------------------------------
(* What the backends hold of an object whose id was given out *)

Deleting(k) == Busy(k) /\ slot[k].op = "delete"
Target(k) == <<slot[k].obj, slot[k].inst>>

\* The handle of an object whose id was given out.
Given(p) == p[1] \in Objects /\ handle[p[1]] # None /\ p = <<p[1], handle[p[1]]>>

\* Not there, unless a create made it again whose caller had given up.
Absent(p) == p \notin store \/ p \in revived

\* Deletes are of an id that was given, and what a delete removed does not come back
\* but by a create that was given up.
Settled ==
    /\ \A k \in Slots : Deleting(k) => /\ slot[k].inst = handle[slot[k].obj]
                                       /\ slot[k].inst # None
    /\ \A k \in Slots : Deleting(k) /\ slot[k].plg = "ok" => Absent(Target(k))
    /\ \A o \in gone : o \in Objects /\ handle[o] # None /\ Absent(<<o, handle[o]>>)

\* What a step does to ids and objects: an id once given stays; what disappears is
\* what an id names, and what it names appears in sight of revived only.
Moves ==
    /\ plan' = plan
    /\ \A o \in Objects : handle[o] # None => handle'[o] = handle[o]
    /\ \A p : Given(p) /\ Absent(p) => Absent(p)'
    /\ \A p \in store \ store' : Given(p)
    /\ gone \subseteq gone' /\ revived \subseteq revived'

\* How DriverStep keeps revived.
Revives == revived' = revived \cup {p \in store' \ store : p[2] = handle[p[1]]}

LEMMA RevivedInSight ==
    ASSUME Revives
    PROVE  /\ \A p : Given(p) /\ Absent(p) => Absent(p)'
           /\ revived \subseteq revived'
<1>1. ASSUME NEW p, Given(p) PROVE p[2] = handle[p[1]]
  <2>1. PICK x, y : p = <<x, y>> /\ y = handle[x] /\ x = p[1]
    BY <1>1, Zenon DEF Given
  <2>. QED  BY <2>1
<1>. QED  BY <1>1, Zenon DEF Absent, Revives

\* A step on the slots alone: calls keep what they are about.
LEMMA SlotsMove ==
    ASSUME Settled, Revives, UNCHANGED <<plan, store, handle, gone>>,
           \A k \in Slots : Busy(k)' =>
               \/ /\ Busy(k) /\ slot'[k].op = slot[k].op /\ slot'[k].obj = slot[k].obj
                  /\ slot'[k].inst = slot[k].inst
                  /\ slot'[k].plg = "ok" => slot[k].plg = "ok"
               \/ /\ slot'[k].plg = "sent"
                  /\ slot'[k].op = "delete" => /\ slot'[k].inst = handle[slot'[k].obj]
                                               /\ slot'[k].inst # None
    PROVE  Settled' /\ Moves
<1>1. revived' = revived /\ \A p : Absent(p)' <=> Absent(p)
  BY Zenon DEF Revives, Absent
<1>2. \A k \in Slots : Deleting(k)' => /\ slot'[k].inst = handle'[slot'[k].obj]
                                       /\ slot'[k].inst # None
  BY Zenon DEF Settled, Deleting
<1>3. \A k \in Slots : Deleting(k)' /\ slot'[k].plg = "ok" => Absent(Target(k))'
  BY <1>1, Zenon DEF Settled, Deleting, Target, Absent
<1>4. \A o \in gone' : o \in Objects /\ handle'[o] # None /\ Absent(<<o, handle[o]>>)'
  BY <1>1, Zenon DEF Settled
<1>. QED  BY <1>1, <1>2, <1>3, <1>4, Zenon DEF Settled, Moves

LEMMA CallMoves ==
    ASSUME CallsInv, Settled, Revives, NEW k \in Slots, NEW o \in Objects, Call(k, o)
    PROVE  Settled' /\ Moves
<1>1. UNCHANGED <<plan, store, handle, gone>>
  BY Zenon DEF Call
<1>. DEFINE Asks(op, i) == /\ Admit(k, op, o, i)
                           /\ op = "delete" => i = handle[o] /\ i # None
<1>2. PICK op, i : Asks(op, i)
  <2>1. ASSUME CreateVolume(k, o) \/ CreateSnapshot(k, o)
        PROVE  \E i : Asks("create", i)
    <3>1. \E i : Admit(k, "create", o, i)
      BY <2>1, Zenon DEF CreateVolume, CreateSnapshot
    <3>. QED  BY <3>1, Zenon
  <2>2. ASSUME ~ CreateVolume(k, o), ~ CreateSnapshot(k, o)
        PROVE  \E op : Asks(op, handle[o])
    <3>1. \E op \in {"delete", "expand", "modify", "attach", "detach", "stage",
                     "unstage", "publish", "unpublish", "grow"} : OnHandle(k, op, o)
      BY <2>2, Zenon DEF Call, DeleteVolume, DeleteSnapshot, ControllerExpandVolume,
           ControllerModifyVolume, ControllerPublishVolume, ControllerUnpublishVolume,
           NodeStageVolume, NodeUnstageVolume, NodePublishVolume, NodeUnpublishVolume,
           NodeExpandVolume
    <3>. QED  BY <3>1, Zenon DEF OnHandle, Live
  <2>. QED  BY <2>1, <2>2, Zenon
<1>. DEFINE c == [op |-> op, obj |-> o, inst |-> i, drv |-> "waiting", plg |-> "sent"]
<1>3. slot' = [slot EXCEPT ![k] = c] /\ plan' = plan /\ handle' = handle
  BY <1>1, <1>2, Zenon DEF Admit
<1>4. IsCall(c) /\ c.op = op /\ c.obj = o /\ c.inst = i /\ c.plg = "sent"
  BY Zenon DEF IsCall
<1>. HIDE DEF c
<1>5. Types' /\ Others(k) /\ slot'[k] = c
  BY <1>3, <1>4, OneSlot, Zenon DEF CallsInv, Types
<1>6. \A j \in Slots : j # k => slot'[j] = slot[j] /\ Busy(j)' = Busy(j)
  BY <1>5, Zenon DEF Others
<1>. QED  BY <1>1, <1>2, <1>4, <1>5, <1>6, SlotsMove, Zenon

\* The steps of one call that change neither the store nor an id.
LEMMA HalfMoves ==
    ASSUME CallsInv, Settled, Revives, NEW k \in Slots,
           Handle(k) \/ Refuse(k) \/ Notice(k) \/ Deadline(k)
    PROVE  Settled' /\ Moves
<1>1. UNCHANGED <<plan, store, handle, gone>> /\ Busy(k) /\ IsCall(slot[k])
  BY Zenon DEF Handle, Refuse, Notice, Deadline, Running, Abandoned, CallsInv, Types
<1>2. PICK c : /\ slot' = [slot EXCEPT ![k] = c]
               /\ c \in {Idle, [slot[k] EXCEPT !.plg = "run"], [slot[k] EXCEPT !.plg = "error"],
                         [slot[k] EXCEPT !.drv = "over"]}
  <2>1. ASSUME Handle(k) PROVE slot' = [slot EXCEPT ![k] = [slot[k] EXCEPT !.plg = "run"]]
    BY <2>1, Zenon DEF Handle
  <2>2. ASSUME Refuse(k) PROVE slot' = [slot EXCEPT ![k] = [slot[k] EXCEPT !.plg = "error"]]
    BY <2>2, Zenon DEF Refuse
  <2>3. ASSUME Notice(k) PROVE slot' = [slot EXCEPT ![k] = Idle]
    BY <2>3, Zenon DEF Notice
  <2>4. ASSUME Deadline(k) PROVE slot' = [slot EXCEPT ![k] = Abandon(slot[k])]
    BY <2>4, Zenon DEF Deadline
  <2>5. Abandon(slot[k]) \in {Idle, [slot[k] EXCEPT !.drv = "over"]}
    BY Zenon DEF Abandon
  <2>. QED  BY <2>1, <2>2, <2>3, <2>4, <2>5, Zenon
<1>3. c = Idle \/ /\ IsCall(c) /\ c.op = slot[k].op /\ c.obj = slot[k].obj
                  /\ c.inst = slot[k].inst /\ (c.plg = "ok" => slot[k].plg = "ok")
  <2>1. ASSUME c = [slot[k] EXCEPT !.plg = "run"] \/ c = [slot[k] EXCEPT !.plg = "error"]
        PROVE  /\ IsCall(c) /\ c.op = slot[k].op /\ c.obj = slot[k].obj
               /\ c.inst = slot[k].inst /\ c.plg # "ok"
    <3>1. ASSUME c = [slot[k] EXCEPT !.plg = "run"]
          PROVE  /\ IsCall(c) /\ c.op = slot[k].op /\ c.obj = slot[k].obj
                 /\ c.inst = slot[k].inst /\ c.plg = "run"
      BY <1>1, <3>1, Halves, ZenonT(30)
    <3>2. ASSUME c = [slot[k] EXCEPT !.plg = "error"]
          PROVE  /\ IsCall(c) /\ c.op = slot[k].op /\ c.obj = slot[k].obj
                 /\ c.inst = slot[k].inst /\ c.plg = "error"
      BY <1>1, <3>2, Halves, Zenon
    <3>. QED  BY <2>1, <3>1, <3>2, Zenon
  <2>2. ASSUME c = [slot[k] EXCEPT !.drv = "over"]
        PROVE  /\ IsCall(c) /\ c.op = slot[k].op /\ c.obj = slot[k].obj
               /\ c.inst = slot[k].inst /\ c.plg = slot[k].plg
    BY <1>1, <2>2, Halves, Zenon
  <2>. QED  BY <1>2, <2>1, <2>2, Zenon
<1>4. Types' /\ Others(k) /\ slot'[k] = c
  BY <1>1, <1>2, <1>3, OneSlot, Zenon DEF CallsInv, Types
<1>5. \A j \in Slots : j # k => slot'[j] = slot[j] /\ Busy(j)' = Busy(j)
  BY <1>4, Zenon DEF Others
<1>. QED  BY <1>1, <1>3, <1>4, <1>5, SlotsMove, Zenon DEF Busy

LEMMA RestartMoves ==
    ASSUME CallsInv, Settled, Revives, Restart
    PROVE  Settled' /\ Moves
<1>1. UNCHANGED <<plan, store, handle, gone>>
  BY Zenon DEF Restart
<1>2. ASSUME NEW k \in Slots, Busy(k)'
      PROVE  /\ Busy(k) /\ slot'[k].op = slot[k].op /\ slot'[k].obj = slot[k].obj
             /\ slot'[k].inst = slot[k].inst /\ slot'[k].plg = slot[k].plg
  <2>1. slot'[k] = Abandon(slot[k])
    BY Zenon DEF Restart
  <2>2. slot'[k] = [slot[k] EXCEPT !.drv = "over"] /\ Busy(k)
    BY <1>2, <2>1, Zenon DEF Abandon, Busy
  <2>3. IsCall(slot[k])
    BY <2>2, Zenon DEF CallsInv, Types
  <2>4. PICK c : c = [slot[k] EXCEPT !.drv = "over"]
    BY Zenon
  <2>5. /\ c.plg = slot[k].plg /\ c.op = slot[k].op /\ c.obj = slot[k].obj
        /\ c.inst = slot[k].inst
    BY <2>3, <2>4, Halves, Zenon
  <2>. QED  BY <2>2, <2>4, <2>5, Zenon
<1>. QED  BY <1>1, <1>2, SlotsMove, Zenon

LEMMA WorkMoves ==
    ASSUME CallsInv, Settled, Revives, NEW k \in Slots, Work(k)
    PROVE  Settled' /\ Moves
<1>1. /\ UNCHANGED <<plan, handle, gone>> /\ store' = Effect(slot[k])
      /\ Busy(k) /\ IsCall(slot[k]) /\ slot[k].obj \in Objects
  BY Zenon DEF Work, Running, CallsInv, Types, IsCall
<1>2. PICK c : c = IF slot[k].drv = "over" THEN Idle ELSE [slot[k] EXCEPT !.plg = "ok"]
  BY Zenon
<1>3. slot' = [slot EXCEPT ![k] = c]
  BY <1>2, Zenon DEF Work
<1>4. c = Idle \/ /\ IsCall(c) /\ c.op = slot[k].op /\ c.obj = slot[k].obj
                  /\ c.inst = slot[k].inst
  BY <1>1, <1>2, Halves, Zenon
<1>5. Types' /\ Others(k) /\ slot'[k] = c
  BY <1>1, <1>3, <1>4, OneSlot, Zenon DEF CallsInv, Types
<1>6. \A j \in Slots : Busy(j)' =>
          /\ Busy(j) /\ slot'[j].op = slot[j].op /\ slot'[j].obj = slot[j].obj
          /\ slot'[j].inst = slot[j].inst
          /\ j # k /\ slot'[j].plg = "ok" => slot[j].plg = "ok"
  BY <1>1, <1>4, <1>5, Zenon DEF Others, Busy
<1>7. /\ \A p \in store \ store' : Deleting(k) /\ p = Target(k)
      /\ Deleting(k) => Target(k) \notin store'
  BY <1>1, Zenon DEF Effect, Deleting, Target
<1>8. \A j \in Slots : Deleting(j) => Given(Target(j))
  <2>. SUFFICES ASSUME NEW j \in Slots, Deleting(j) PROVE Given(Target(j))
    BY Zenon
  <2>1. /\ Target(j)[1] = slot[j].obj /\ slot[j].obj \in Objects
        /\ slot[j].inst = handle[slot[j].obj] /\ slot[j].inst # None
    BY Zenon DEF Target, Settled, Deleting, CallsInv, Types, IsCall
  <2>. QED  BY <2>1, Zenon DEF Given, Target
<1>9. /\ \A p : Given(p) /\ Absent(p) => Absent(p)'
      /\ revived \subseteq revived'
  BY RevivedInSight, Zenon
<1>10. Moves
  BY <1>1, <1>7, <1>8, <1>9, Zenon DEF Moves
<1>13. \A j \in Slots : Deleting(j)' => /\ slot'[j].inst = handle'[slot'[j].obj]
                                        /\ slot'[j].inst # None
  BY <1>1, <1>6, ZenonT(30) DEF Settled, Deleting
<1>14. ASSUME NEW j \in Slots, Deleting(j)', slot'[j].plg = "ok" PROVE Absent(Target(j))'
  <2>1. Deleting(j) /\ Target(j)' = Target(j)
    BY <1>6, <1>14, Zenon DEF Deleting, Target
  <2>2. CASE j = k
    BY <1>7, <2>1, <2>2, Zenon DEF Absent
  <2>3. CASE j # k
    <3>1. Absent(Target(j)) /\ Given(Target(j))
      BY <1>6, <1>8, <1>14, <2>1, <2>3, Zenon DEF Settled, Deleting
    <3>2. PICK p : p = Target(j)
      BY Zenon
    <3>3. Absent(p)'
      BY <1>9, <3>1, <3>2, Zenon
    <3>. QED  BY <2>1, <3>2, <3>3, Zenon DEF Absent
  <2>. QED  BY <2>2, <2>3, Zenon
<1>15. ASSUME NEW o \in gone'
       PROVE  o \in Objects /\ handle'[o] # None /\ Absent(<<o, handle[o]>>)'
  <2>1. o \in Objects /\ handle[o] # None /\ Absent(<<o, handle[o]>>)
    BY <1>1, <1>15, Zenon DEF Settled
  <2>2. PICK p : p = <<o, handle[o]>>
    BY Zenon
  <2>3. p[1] = o
    BY <2>2, Zenon
  <2>4. Given(p) /\ Absent(p)
    BY <2>1, <2>2, <2>3, Zenon DEF Given
  <2>5. Absent(p)'
    BY <1>9, <2>4, Zenon
  <2>. QED  BY <1>1, <2>1, <2>2, <2>5, Zenon DEF Absent
<1>. QED  BY <1>10, <1>13, <1>14, <1>15, Zenon DEF Settled

\* The answer to a create finds its id not given, so no delete is about it.
LEMMA AnswerMoves ==
    ASSUME CallsInv, Settled, Revives, NEW k \in Slots, Answer(k)
    PROVE  Settled' /\ Moves
<1>0. plan' = plan /\ store' = store
  BY Zenon DEF Answer
<1>1. /\ Busy(k) /\ IsCall(slot[k]) /\ Waiting(k)
      /\ slot[k].obj \in Objects /\ slot' = [slot EXCEPT ![k] = Idle]
      /\ gone' = IF Deleting(k) /\ slot[k].plg = "ok" THEN gone \cup {slot[k].obj} ELSE gone
      /\ handle' = IF Creating(k) /\ slot[k].plg = "ok"
                   THEN [handle EXCEPT ![slot[k].obj] = slot[k].inst] ELSE handle
  BY Zenon DEF Answer, Waiting, Deleting, Creating, CallsInv, Types, IsCall
<1>2. handle' = [o \in Objects |-> handle'[o]]
  BY <1>1, Zenon DEF CallsInv, Types
<1>3. Others(k) /\ slot'[k] = Idle
  BY <1>0, <1>1, <1>2, OneSlot, Zenon DEF CallsInv
<1>4. \A j \in Slots : Busy(j)' => j # k /\ Busy(j) /\ slot'[j] = slot[j]
  BY <1>3, Zenon DEF Others, Busy
<1>5. \A o \in Objects : (o = slot[k].obj /\ Creating(k)) \/ handle'[o] = handle[o]
  BY <1>1, Zenon DEF CallsInv, Types
<1>6. Creating(k) => handle[slot[k].obj] = None
  BY <1>1, Zenon DEF CallsInv, Placed
<1>7. \A o \in Objects : handle[o] # None => handle'[o] = handle[o]
  BY <1>5, <1>6, Zenon
<1>8. gone \subseteq gone' /\ revived' = revived /\ \A p : Absent(p)' <=> Absent(p)
  BY <1>0, <1>1, Zenon DEF Revives, Absent
<1>9. Moves
  BY <1>0, <1>7, <1>8, Zenon DEF Moves
<1>11. ASSUME NEW j \in Slots, Deleting(j)'
       PROVE  /\ slot'[j].inst = handle'[slot'[j].obj] /\ slot'[j].inst # None
              /\ slot'[j].plg = "ok" => Absent(Target(j))'
  <2>1. Deleting(j) /\ slot'[j] = slot[j]
    BY <1>4, <1>11, Zenon DEF Deleting
  <2>2. slot[j].obj \in Objects
    BY <2>1, Zenon DEF Deleting, CallsInv, Types, IsCall
  <2>3. slot[j].inst = handle[slot[j].obj] /\ slot[j].inst # None
    BY <2>1, Zenon DEF Settled
  <2>4. handle'[slot[j].obj] = handle[slot[j].obj]
    BY <1>7, <2>2, <2>3, Zenon
  <2>5. slot[j].plg = "ok" => Absent(Target(j))
    BY <2>1, Zenon DEF Settled
  <2>. QED  BY <1>0, <1>8, <2>1, <2>3, <2>4, <2>5, Zenon DEF Target, Absent
<1>12. ASSUME NEW o \in gone'
       PROVE  o \in Objects /\ handle'[o] # None /\ Absent(<<o, handle[o]>>)'
  <2>1. o \in gone \/ (o = slot[k].obj /\ Deleting(k) /\ slot[k].plg = "ok")
    BY <1>1, <1>12, Zenon
  <2>2. o \in Objects /\ handle[o] # None /\ Absent(<<o, handle[o]>>)
    BY <1>1, <2>1, Zenon DEF Settled, Target
  <2>3. handle'[o] = handle[o]
    BY <1>7, <2>2, Zenon
  <2>. QED  BY <1>0, <1>8, <2>2, <2>3, Zenon DEF Absent
<1>. QED  BY <1>9, <1>11, <1>12, Zenon DEF Settled

LEMMA StepMoves ==
    ASSUME CallsInv, Settled, Revives, [Next]_vars
    PROVE  Settled' /\ Moves
<1>1. ASSUME UNCHANGED <<plan, callVars>> PROVE Settled' /\ Moves
  BY <1>1, SlotsMove, Zenon DEF callVars, Busy
<1>2. plan.slots \subseteq Slots /\ plan.objs \subseteq Objects
  BY Scenarios, Zenon DEF CallsInv, Types
<1>3. ASSUME NEW k \in plan.slots, NEW o \in plan.objs, Call(k, o) PROVE Settled' /\ Moves
  BY <1>2, <1>3, CallMoves, Zenon
<1>4. ASSUME NEW k \in plan.slots,
             Handle(k) \/ Work(k) \/ Refuse(k) \/ Notice(k) \/ Answer(k) \/ Deadline(k)
      PROVE  Settled' /\ Moves
  BY <1>2, <1>4, HalfMoves, WorkMoves, AnswerMoves, Zenon
<1>5. ASSUME Edit \/ WatchList \/ WatchEvent \/ SetBackends \/ StreamError
      PROVE  Settled' /\ Moves
  BY <1>1, <1>5, Zenon DEF Edit, WatchList, WatchEvent, SetBackends, StreamError
<1>6. ASSUME UNCHANGED vars PROVE Settled' /\ Moves
  BY <1>1, <1>6, Zenon DEF vars
<1>. QED  BY <1>3, <1>4, <1>5, <1>6, RestartMoves, Zenon DEF Next

LEMMA SettledStart == Init => Settled
<1>. SUFFICES ASSUME Init PROVE Settled
  OBVIOUS
<1>1. gone = {} /\ \A k \in Slots : ~ Busy(k)
  BY Zenon DEF Init, Busy
<1>. QED  BY <1>1, Zenon DEF Settled, Creating, Deleting

-----------------------------------------------------------------------------
(* A scan beside the driver *)

\* The steps of a scan that follow a read.
AfterSnapshots   == {"probe"}
AfterVolumes     == AfterSnapshots \cup {"snapshots"}
AfterAttachments == AfterVolumes \cup {"volumes"}
AfterNodes       == AfterAttachments \cup {"csinodes", "attachments"}
AfterContents    == AfterNodes \cup {"nodes"}
AfterPVs         == AfterContents \cup {"contents"}

Names(ns) == {n.name : n \in ns}

\* What was read is what ids name; a probe that answered knew the instance.
Read ==
    /\ scan \in AfterPVs \cup {"idle", "pvs"}
    /\ report # None => scan = "idle"
    /\ scan # "idle" => blind \subseteq hidden
    /\ \A p \in pvs : Given(p)
    /\ contents # None => \A p \in contents : Given(p)
    /\ scan # "probe" => DOMAIN probes = {}
    /\ \A p \in DOMAIN probes :
          /\ Given(p)
          /\ probes[p] = "gone" => Absent(p) \/ p[1] \in plan.shallow
          /\ probes[p] = "healthy" => p \notin drift0.ghosts \/ p \in revived
          /\ probes[p] = "unknown" => p[2] \in hidden
    /\ \A a \in attached : a[1] \in Objects /\ handle[a[1]] # None

\* A ghost stays one until Kubernetes forgets it, and no read shows its object.
GhostRead(p) ==
    /\ scan \in AfterPVs /\ p[1] \notin Snapshots => p \in pvs
    /\ scan \in AfterContents /\ p[1] \in Snapshots => contents = None \/ p \in contents
    /\ scan \in AfterVolumes => vols = None \/ p \notin vols
    /\ scan \in AfterSnapshots => snaps = None \/ p \notin snaps

Ghosts == \A p \in drift0.ghosts :
             Given(p) /\ Absent(p) /\ (p \in revived \/ p[1] \in gone \/ GhostRead(p))

\* A leak stays one unless its id is given out; the lists show it if the plugin
\* looks there.
Unlisted(p) == p[2] \in hidden \/ p[1] \in Unlistable

Leaks == \A p \in drift0.leaks :
             \/ Given(p)
             \/ /\ p \in store
                /\ scan \in AfterVolumes /\ p[1] \notin Snapshots =>
                       vols = None \/ p \in vols \/ Unlisted(p)
                /\ scan \in AfterSnapshots /\ p[1] \in Snapshots =>
                       snaps = None \/ p \in snaps \/ Unlisted(p)

\* An attachment to a deleted volume or a lost node stays one as long as it is there.
StaleRead(a) ==
    \/ a[1] \in gone /\ (scan \in AfterPVs => \A p \in pvs : p[1] # a[1])
    \/ a[2] \notin Names(nodes) /\ (scan \in AfterNodes => seen = None \/ a[2] \notin Names(seen))

Stale == \A a \in drift0.stale :
             /\ StaleRead(a)
             /\ a \in attached /\ scan \in AfterAttachments => vas = None \/ a \in vas

Unread(ks) == report.skips \cap ks # {}

Topology ==
    \A n \in Registration, c \in scfg :
        n.zone # "" =>
           (<<n, c.type>> \in report.topology.nobackend
              <=> Watch!Resolve(scfg, c.type, <<n.zone>>, <<>>) = {})

\* The report holds what DriftReported promises, or what makes it void.
Told ==
    /\ \A p \in report.volumes.confirmed : Given(p) /\ (Absent(p) \/ p[1] \in plan.shallow)
    /\ \A p \in drift0.leaks :
          Given(p) \/ Unlisted(p) \/ ~Asked
          \/ p \in report.volumes.orphans \cup report.snaps.orphans
          \/ Unread({"volumes", "snapshots", "contents"})
    /\ \A p \in drift0.ghosts :
          p \in revived \/ p[1] \in gone
          \/ p \in report.volumes.ghosts \cup report.snaps.ghosts \cup report.unknown
          \/ p[2] \in report.missing \cap hidden
          \/ Unread({"volumes", "snapshots", "contents"})
    /\ \A a \in drift0.stale \cap attached :
          a \in report.stale \/ Unread({"nodes", "attachments"})
    /\ Topology

ScanInv ==
    /\ Read
    /\ scan # "idle" \/ report # None => Ghosts /\ Leaks /\ Stale
    /\ report # None => Told

\* What ids name, and what they do not, stays so.
LEMMA GivenStays ==
    ASSUME Moves, NEW p, Given(p)
    PROVE  Given(p)' /\ (Absent(p) => Absent(p)')
<1>1. p[1] \in Objects /\ handle[p[1]] # None /\ p = <<p[1], handle[p[1]]>>
  BY Zenon DEF Given
<1>2. handle'[p[1]] = handle[p[1]]
  BY <1>1, Zenon DEF Moves
<1>. QED  BY <1>1, <1>2, Zenon DEF Given, Moves

LEMMA TopologyStays ==
    ASSUME UNCHANGED <<scfg, seen, csinodes, report>>, Topology
    PROVE  Topology'
  BY Zenon DEF Topology, Registration

\* The driver, its plugins, the nodes and the attachments between two steps of the
\* scan.
LEMMA Between ==
    ASSUME ScanInv, Moves,
           scan' = scan, scfg' = scfg, pvs' = pvs, contents' = contents, seen' = seen,
           csinodes' = csinodes, vas' = vas, vols' = vols, snaps' = snaps,
           probes' = probes, report' = report, drift0' = drift0,
           hidden \subseteq hidden', scan = "idle" => hidden' = hidden,
           scan # "idle" => blind' \subseteq hidden', nodes' \subseteq nodes,
           \A a \in attached' :
               \/ a \in attached
               \/ /\ a[1] \in Objects /\ handle[a[1]] # None
                  /\ a[1] \notin gone /\ a[2] \in Names(nodes)
    PROVE  ScanInv'
<1>0. Read
  BY Zenon DEF ScanInv
<1>1. \A p : Given(p) => Given(p)' /\ (Absent(p) => Absent(p)')
  BY GivenStays, Zenon
<1>2. \A o \in Objects : handle[o] # None => handle'[o] # None
  BY Zenon DEF Moves
<1>3. \A p : Unlisted(p) => Unlisted(p)'
  BY Zenon DEF Unlisted, Unlistable, Moves
<1>4. Read'
  <2>1. \A p \in pvs' : Given(p)'
    BY <1>0, <1>1, Zenon DEF Read
  <2>2. contents' # None => \A p \in contents' : Given(p)'
    BY <1>0, <1>1, Zenon DEF Read
  <2>3. ASSUME NEW p \in DOMAIN probes'
        PROVE  /\ Given(p)'
               /\ probes'[p] = "gone" => Absent(p)' \/ p[1] \in plan'.shallow
               /\ probes'[p] = "healthy" => p \notin drift0'.ghosts \/ p \in revived'
               /\ probes'[p] = "unknown" => p[2] \in hidden'
    <3>1. /\ Given(p)
          /\ probes[p] = "gone" => Absent(p) \/ p[1] \in plan.shallow
          /\ probes[p] = "healthy" => p \notin drift0.ghosts \/ p \in revived
          /\ probes[p] = "unknown" => p[2] \in hidden
      BY <1>0, <2>3, Zenon DEF Read
    <3>2. (p[2] \in hidden => p[2] \in hidden') /\ (p \in revived => p \in revived') /\ plan' = plan
      BY Zenon DEF Moves
    <3>. QED  BY <1>1, <3>1, <3>2, Zenon
  <2>4. \A a \in attached' : a[1] \in Objects /\ handle'[a[1]] # None
    BY <1>0, <1>2, Zenon DEF Read
  <2>. QED  BY <1>0, <2>1, <2>2, <2>3, <2>4, Zenon DEF Read
<1>5. ASSUME Ghosts PROVE Ghosts'
  <2>1. \A p : GhostRead(p) => GhostRead(p)'
    BY Zenon DEF GhostRead
  <2>2. gone \subseteq gone' /\ revived \subseteq revived'
    BY Zenon DEF Moves
  <2>. QED  BY <1>1, <1>5, <2>1, <2>2, Zenon DEF Ghosts
<1>6. ASSUME Leaks PROVE Leaks'
  <2>1. \A p : p \in store => p \in store' \/ Given(p)
    BY Zenon DEF Moves, Given
  <2>. QED  BY <1>1, <1>3, <1>6, <2>1, Zenon DEF Leaks
<1>7. ASSUME Stale PROVE Stale'
  <2>1. \A x : x \notin Names(nodes) => x \notin Names(nodes')
    BY Zenon DEF Names
  <2>2. gone \subseteq gone'
    BY Zenon DEF Moves
  <2>3. \A a : StaleRead(a) => StaleRead(a)'
    BY <2>1, <2>2, Zenon DEF StaleRead, Names
  <2>4. \A a \in drift0.stale : a \in attached' => a \in attached
    BY <1>7, Zenon DEF Stale, StaleRead
  <2>. QED  BY <1>7, <2>3, <2>4, Zenon DEF Stale
<1>8. ASSUME report # None, Stale, Told PROVE Told'
  <2>1. hidden' = hidden /\ (Asked' <=> Asked)
    BY <1>0, <1>8, Zenon DEF Read, Asked, Watch!Registered, Watch!OfType
  <2>2. \A a \in drift0.stale : a \in attached' => a \in attached
    BY <1>8, Zenon DEF Stale, StaleRead
  <2>3. gone \subseteq gone' /\ revived \subseteq revived' /\ plan' = plan
    BY Zenon DEF Moves
  <2>4. Topology'
    BY <1>8, TopologyStays, Zenon DEF Told
  <2>5. \A p \in report'.volumes.confirmed :
          Given(p)' /\ (Absent(p)' \/ p[1] \in plan'.shallow)
    BY <1>1, <1>8, <2>3, Zenon DEF Told
  <2>6. \A p \in drift0'.leaks :
          Given(p)' \/ Unlisted(p)' \/ ~Asked'
          \/ p \in report'.volumes.orphans \cup report'.snaps.orphans
          \/ Unread({"volumes", "snapshots", "contents"})'
    BY <1>1, <1>3, <1>8, <2>1, Zenon DEF Told, Unread
  <2>7. \A p \in drift0'.ghosts :
          p \in revived' \/ p[1] \in gone'
          \/ p \in report'.volumes.ghosts \cup report'.snaps.ghosts \cup report'.unknown
          \/ p[2] \in report'.missing \cap hidden'
          \/ Unread({"volumes", "snapshots", "contents"})'
    BY <1>8, <2>1, <2>3, Zenon DEF Told, Unread
  <2>8. \A a \in drift0'.stale \cap attached' :
          a \in report'.stale \/ Unread({"nodes", "attachments"})'
    BY <1>8, <2>2, Zenon DEF Told, Unread
  <2>. QED  BY <2>4, <2>5, <2>6, <2>7, <2>8, Zenon DEF Told
<1>. QED  BY <1>4, <1>5, <1>6, <1>7, <1>8, Zenon DEF ScanInv

\* What a step of the scan leaves alone.
Frozen ==
    /\ plan' = plan /\ handle' = handle /\ store' = store /\ gone' = gone
    /\ blind' = blind /\ nodes' = nodes /\ attached' = attached
    /\ report' = report /\ drift0' = drift0 /\ hidden' = hidden /\ revived' = revived

LEMMA ReadingFrozen ==
    ASSUME NEW step, NEW next, Reading(step, next)
    PROVE  Frozen /\ scan = step /\ scan' = next
  BY Zenon DEF Reading, Frozen, vars, callVars, clusterVars

\* A scan that goes on has made no report.
LEMMA GoesOn ==
    ASSUME ScanInv, Frozen, scan # "idle", scan' # "idle",
           Read', Ghosts => Ghosts', Leaks => Leaks', Stale => Stale'
    PROVE  ScanInv'
  BY Zenon DEF ScanInv, Read, Frozen

\* What the reads that a step does not make leave as they were.
LEMMA ReadKept ==
    ASSUME Read, Frozen, scan' \in AfterPVs, scan # "idle", report = None,
           \A p \in pvs' : Given(p),
           contents' # None => \A p \in contents' : Given(p),
           probes' = probes, scan # "probe", scan' # "probe" \/ DOMAIN probes = {}
    PROVE  Read'
<1>1. \A p : Given(p)' <=> Given(p)
  BY Zenon DEF Given, Frozen
<1>2. DOMAIN probes' = {}
  BY Zenon DEF Read
<1>. QED  BY <1>1, <1>2, Zenon DEF Read, Frozen

LEMMA PVsAreGiven ==
    /\ \A p : p \in PVs <=> Given(p) /\ p[1] \notin gone /\ p[1] \notin Snapshots
    /\ \A p : p \in Contents <=> Given(p) /\ p[1] \notin gone /\ p[1] \in Snapshots
  BY DEF PVs, Contents, Given, Live

\* FetchPVs: the handles of the volumes that are live, or the end of the scan.
LEMMA PVsRead ==
    ASSUME ScanInv, FetchPVs
    PROVE  ScanInv'
<1>1. ASSUME plan.skips, Reading("pvs", "idle"), pvs' = {} PROVE ScanInv'
  <2>0. Read /\ Frozen /\ scan = "pvs" /\ scan' = "idle"
    BY <1>1, ReadingFrozen, Zenon DEF ScanInv
  <2>1. Read /\ Frozen /\ scan' = "idle" /\ scan # "idle" /\ scan # "probe"
    BY <2>0, Zenon
  <2>2. contents' = contents /\ probes' = probes
    BY Zenon DEF FetchPVs
  <2>3. report' = None /\ DOMAIN probes' = {} /\ \A p : Given(p)' <=> Given(p)
    BY <2>1, <2>2, Zenon DEF Read, Given, Frozen
  <2>4. Read'
    BY <1>1, <2>1, <2>2, <2>3, Zenon DEF Read, Frozen
  <2>. QED  BY <2>1, <2>3, <2>4, Zenon DEF ScanInv
<1>2. ASSUME Reading("pvs", "contents"), pvs' = PVs PROVE ScanInv'
  <2>0. Read /\ Frozen /\ scan = "pvs" /\ scan' = "contents"
    BY <1>2, ReadingFrozen, Zenon DEF ScanInv
  <2>1. /\ scan \notin AfterPVs /\ scan \notin AfterContents /\ scan \notin AfterNodes
        /\ scan \notin AfterAttachments /\ scan \notin AfterVolumes
        /\ scan \notin AfterSnapshots
        /\ scan' \in AfterPVs /\ scan' \notin AfterContents /\ scan' \notin AfterNodes
        /\ scan' \notin AfterAttachments /\ scan' \notin AfterVolumes
        /\ scan' \notin AfterSnapshots
        /\ scan # "idle" /\ scan' # "idle" /\ scan # "probe"
    BY <2>0, Zenon DEF AfterPVs, AfterContents, AfterNodes, AfterAttachments, AfterVolumes, AfterSnapshots
  <2>2. report = None /\ \A p : Given(p)' <=> Given(p)
    BY <2>0, <2>1, Zenon DEF Read, Given, Frozen
  <2>3. /\ scfg' = scfg /\ contents' = contents /\ seen' = seen /\ csinodes' = csinodes
        /\ vas' = vas /\ vols' = vols /\ snaps' = snaps /\ probes' = probes
    BY Zenon DEF FetchPVs
  <2>4. Read'
    BY <2>0, <2>1, <2>2, <2>3, <1>2, ReadKept, PVsAreGiven, Zenon DEF Read
  <2>5. ASSUME Ghosts PROVE Ghosts'
    BY <2>0, <2>1, <2>2, <2>3, <2>5, <1>2, PVsAreGiven, Zenon DEF Ghosts, GhostRead, Absent, Frozen
  <2>6. ASSUME Leaks PROVE Leaks'
    BY <2>0, <2>1, <2>2, <2>3, <2>6, Zenon DEF Leaks, Unlisted, Unlistable, Frozen
  <2>7. ASSUME Stale PROVE Stale'
    <3>1. \A a : StaleRead(a) => StaleRead(a)'
      BY <2>0, <2>1, <2>3, <1>2, PVsAreGiven, Zenon DEF StaleRead, Frozen, Names
    <3>. QED  BY <2>0, <2>1, <2>3, <2>7, <3>1, Zenon DEF Stale, Frozen
  <2>. QED  BY <2>0, <2>1, <2>4, <2>5, <2>6, <2>7, GoesOn, Zenon
<1>. QED  BY <1>1, <1>2, Zenon DEF FetchPVs

\* FetchContents.
LEMMA ContentsRead ==
    ASSUME ScanInv, FetchContents
    PROVE  ScanInv'
<1>0. Read /\ Frozen /\ scan = "contents" /\ scan' = "nodes"
  BY ReadingFrozen, Zenon DEF FetchContents, ScanInv
<1>1. /\ scan \in AfterPVs /\ scan \notin AfterContents /\ scan \notin AfterNodes
      /\ scan \notin AfterAttachments /\ scan \notin AfterVolumes
      /\ scan \notin AfterSnapshots
      /\ scan' \in AfterPVs /\ scan' \in AfterContents /\ scan' \notin AfterNodes
      /\ scan' \notin AfterAttachments /\ scan' \notin AfterVolumes
      /\ scan' \notin AfterSnapshots
      /\ scan # "idle" /\ scan' # "idle" /\ scan # "probe"
  BY <1>0, Zenon DEF AfterPVs, AfterContents, AfterNodes, AfterAttachments, AfterVolumes, AfterSnapshots
<1>2. report = None /\ \A p : Given(p)' <=> Given(p)
  BY <1>0, <1>1, Zenon DEF Read, Given, Frozen
<1>3. /\ scfg' = scfg /\ pvs' = pvs /\ seen' = seen /\ csinodes' = csinodes /\ vas' = vas
      /\ vols' = vols /\ snaps' = snaps /\ probes' = probes
      /\ contents' = Contents \/ contents' = None
  BY Zenon DEF FetchContents, Fetched
<1>4. Read'
  BY <1>0, <1>1, <1>2, <1>3, ReadKept, PVsAreGiven, Zenon DEF Read
<1>5. ASSUME Ghosts PROVE Ghosts'
  BY <1>0, <1>1, <1>2, <1>3, <1>5, PVsAreGiven, Zenon DEF Ghosts, GhostRead, Absent, Frozen
<1>6. ASSUME Leaks PROVE Leaks'
  BY <1>0, <1>1, <1>2, <1>3, <1>6, Zenon DEF Leaks, Unlisted, Unlistable, Frozen
<1>7. ASSUME Stale PROVE Stale'
  BY <1>0, <1>1, <1>2, <1>3, <1>7, Zenon DEF Stale, StaleRead, Frozen, Names
<1>. QED  BY <1>0, <1>1, <1>4, <1>5, <1>6, <1>7, GoesOn, Zenon

\* FetchNodes.
LEMMA NodesRead ==
    ASSUME ScanInv, FetchNodes
    PROVE  ScanInv'
<1>0. Read /\ Frozen /\ scan = "nodes" /\ scan' = "csinodes"
  BY ReadingFrozen, Zenon DEF FetchNodes, ScanInv
<1>1. /\ scan \in AfterPVs /\ scan \in AfterContents /\ scan \notin AfterNodes
      /\ scan \notin AfterAttachments /\ scan \notin AfterVolumes
      /\ scan \notin AfterSnapshots
      /\ scan' \in AfterPVs /\ scan' \in AfterContents /\ scan' \in AfterNodes
      /\ scan' \notin AfterAttachments /\ scan' \notin AfterVolumes
      /\ scan' \notin AfterSnapshots
      /\ scan # "idle" /\ scan' # "idle" /\ scan # "probe"
  BY <1>0, Zenon DEF AfterPVs, AfterContents, AfterNodes, AfterAttachments, AfterVolumes, AfterSnapshots
<1>2. report = None /\ \A p : Given(p)' <=> Given(p)
  BY <1>0, <1>1, Zenon DEF Read, Given, Frozen
<1>3. /\ scfg' = scfg /\ pvs' = pvs /\ contents' = contents /\ csinodes' = csinodes
      /\ vas' = vas /\ vols' = vols /\ snaps' = snaps /\ probes' = probes
      /\ seen' = nodes \/ seen' = None
  BY Zenon DEF FetchNodes, Fetched
<1>4. Read'
  BY <1>0, <1>1, <1>2, <1>3, ReadKept, Zenon DEF Read
<1>5. ASSUME Ghosts PROVE Ghosts'
  BY <1>0, <1>1, <1>2, <1>3, <1>5, Zenon DEF Ghosts, GhostRead, Absent, Frozen
<1>6. ASSUME Leaks PROVE Leaks'
  BY <1>0, <1>1, <1>2, <1>3, <1>6, Zenon DEF Leaks, Unlisted, Unlistable, Frozen
<1>7. ASSUME Stale PROVE Stale'
  <2>1. \A a : StaleRead(a) => StaleRead(a)'
    BY <1>0, <1>1, <1>3, Zenon DEF StaleRead, Frozen
  <2>. QED  BY <1>0, <1>1, <1>3, <1>7, <2>1, Zenon DEF Stale, Frozen
<1>. QED  BY <1>0, <1>1, <1>4, <1>5, <1>6, <1>7, GoesOn, Zenon

\* FetchCSINodes.
LEMMA CSINodesRead ==
    ASSUME ScanInv, FetchCSINodes
    PROVE  ScanInv'
<1>0. Read /\ Frozen /\ scan = "csinodes" /\ scan' = "attachments"
  BY ReadingFrozen, Zenon DEF FetchCSINodes, ScanInv
<1>1. /\ scan \in AfterPVs /\ scan \in AfterContents /\ scan \in AfterNodes
      /\ scan \notin AfterAttachments /\ scan \notin AfterVolumes
      /\ scan \notin AfterSnapshots
      /\ scan' \in AfterPVs /\ scan' \in AfterContents /\ scan' \in AfterNodes
      /\ scan' \notin AfterAttachments /\ scan' \notin AfterVolumes
      /\ scan' \notin AfterSnapshots
      /\ scan # "idle" /\ scan' # "idle" /\ scan # "probe"
  BY <1>0, Zenon DEF AfterPVs, AfterContents, AfterNodes, AfterAttachments, AfterVolumes, AfterSnapshots
<1>2. report = None /\ \A p : Given(p)' <=> Given(p)
  BY <1>0, <1>1, Zenon DEF Read, Given, Frozen
<1>3. /\ scfg' = scfg /\ pvs' = pvs /\ contents' = contents /\ seen' = seen /\ vas' = vas
      /\ vols' = vols /\ snaps' = snaps /\ probes' = probes
      /\ TRUE
  BY Zenon DEF FetchCSINodes
<1>4. Read'
  BY <1>0, <1>1, <1>2, <1>3, ReadKept, Zenon DEF Read
<1>5. ASSUME Ghosts PROVE Ghosts'
  BY <1>0, <1>1, <1>2, <1>3, <1>5, Zenon DEF Ghosts, GhostRead, Absent, Frozen
<1>6. ASSUME Leaks PROVE Leaks'
  BY <1>0, <1>1, <1>2, <1>3, <1>6, Zenon DEF Leaks, Unlisted, Unlistable, Frozen
<1>7. ASSUME Stale PROVE Stale'
  BY <1>0, <1>1, <1>2, <1>3, <1>7, Zenon DEF Stale, StaleRead, Frozen, Names
<1>. QED  BY <1>0, <1>1, <1>4, <1>5, <1>6, <1>7, GoesOn, Zenon

\* FetchAttachments.
LEMMA AttachmentsRead ==
    ASSUME ScanInv, FetchAttachments
    PROVE  ScanInv'
<1>0. Read /\ Frozen /\ scan = "attachments" /\ scan' = "volumes"
  BY ReadingFrozen, Zenon DEF FetchAttachments, ScanInv
<1>1. /\ scan \in AfterPVs /\ scan \in AfterContents /\ scan \in AfterNodes
      /\ scan \notin AfterAttachments /\ scan \notin AfterVolumes
      /\ scan \notin AfterSnapshots
      /\ scan' \in AfterPVs /\ scan' \in AfterContents /\ scan' \in AfterNodes
      /\ scan' \in AfterAttachments /\ scan' \notin AfterVolumes
      /\ scan' \notin AfterSnapshots
      /\ scan # "idle" /\ scan' # "idle" /\ scan # "probe"
  BY <1>0, Zenon DEF AfterPVs, AfterContents, AfterNodes, AfterAttachments, AfterVolumes, AfterSnapshots
<1>2. report = None /\ \A p : Given(p)' <=> Given(p)
  BY <1>0, <1>1, Zenon DEF Read, Given, Frozen
<1>3. /\ scfg' = scfg /\ pvs' = pvs /\ contents' = contents /\ seen' = seen
      /\ csinodes' = csinodes /\ vols' = vols /\ snaps' = snaps /\ probes' = probes
      /\ vas' = attached \/ vas' = None
  BY Zenon DEF FetchAttachments, Fetched
<1>4. Read'
  BY <1>0, <1>1, <1>2, <1>3, ReadKept, Zenon DEF Read
<1>5. ASSUME Ghosts PROVE Ghosts'
  BY <1>0, <1>1, <1>2, <1>3, <1>5, Zenon DEF Ghosts, GhostRead, Absent, Frozen
<1>6. ASSUME Leaks PROVE Leaks'
  BY <1>0, <1>1, <1>2, <1>3, <1>6, Zenon DEF Leaks, Unlisted, Unlistable, Frozen
<1>7. ASSUME Stale PROVE Stale'
  BY <1>0, <1>1, <1>2, <1>3, <1>7, Zenon DEF Stale, StaleRead, Frozen, Names
<1>. QED  BY <1>0, <1>1, <1>4, <1>5, <1>6, <1>7, GoesOn, Zenon

\* ListVolumes.
LEMMA VolumesRead ==
    ASSUME ScanInv, ListVolumes
    PROVE  ScanInv'
<1>0. Read /\ Frozen /\ scan = "volumes" /\ scan' = "snapshots"
  BY ReadingFrozen, Zenon DEF ListVolumes, ScanInv
<1>1. /\ scan \in AfterPVs /\ scan \in AfterContents /\ scan \in AfterNodes
      /\ scan \in AfterAttachments /\ scan \notin AfterVolumes
      /\ scan \notin AfterSnapshots
      /\ scan' \in AfterPVs /\ scan' \in AfterContents /\ scan' \in AfterNodes
      /\ scan' \in AfterAttachments /\ scan' \in AfterVolumes
      /\ scan' \notin AfterSnapshots
      /\ scan # "idle" /\ scan' # "idle" /\ scan # "probe"
  BY <1>0, Zenon DEF AfterPVs, AfterContents, AfterNodes, AfterAttachments, AfterVolumes, AfterSnapshots
<1>2. report = None /\ \A p : Given(p)' <=> Given(p)
  BY <1>0, <1>1, Zenon DEF Read, Given, Frozen
<1>3. /\ scfg' = scfg /\ pvs' = pvs /\ contents' = contents /\ seen' = seen
      /\ csinodes' = csinodes /\ vas' = vas /\ snaps' = snaps /\ probes' = probes
      /\ \/ vols' = None
         \/ vols' = {p \in Listed : p[1] \notin Snapshots}
  BY Zenon DEF ListVolumes, Fetched
<1>4. Read'
  BY <1>0, <1>1, <1>2, <1>3, ReadKept, Zenon DEF Read
<1>5. ASSUME Ghosts PROVE Ghosts'
  <2>1. vols' = None \/ \A p \in vols' : p \in store
    BY <1>3, Zenon DEF Listed
  <2>. QED  BY <1>0, <1>1, <1>2, <1>3, <1>5, <2>1, Zenon DEF Ghosts, GhostRead, Absent, Frozen
<1>6. ASSUME Leaks PROVE Leaks'
  <2>1. ASSUME NEW p \in store, p[1] \notin Snapshots
        PROVE  vols' = None \/ p \in vols' \/ Unlisted(p)
    <3>1. blind \subseteq hidden
      BY <1>0, <1>1, Zenon DEF Read
    <3>. QED  BY <1>3, <2>1, <3>1, Zenon DEF Listed, Unlisted
  <2>2. \A p : Unlisted(p)' <=> Unlisted(p)
    BY <1>0, Zenon DEF Unlisted, Unlistable, Frozen
  <2>. QED  BY <1>0, <1>1, <1>2, <1>3, <1>6, <2>1, <2>2, Zenon DEF Leaks, Frozen
<1>7. ASSUME Stale PROVE Stale'
  BY <1>0, <1>1, <1>2, <1>3, <1>7, Zenon DEF Stale, StaleRead, Frozen, Names
<1>. QED  BY <1>0, <1>1, <1>4, <1>5, <1>6, <1>7, GoesOn, Zenon

\* ListSnapshots.
LEMMA SnapshotsRead ==
    ASSUME ScanInv, ListSnapshots
    PROVE  ScanInv'
<1>0. Read /\ Frozen /\ scan = "snapshots" /\ scan' = "probe"
  BY ReadingFrozen, Zenon DEF ListSnapshots, ScanInv
<1>1. /\ scan \in AfterPVs /\ scan \in AfterContents /\ scan \in AfterNodes
      /\ scan \in AfterAttachments /\ scan \in AfterVolumes /\ scan \notin AfterSnapshots
      /\ scan' \in AfterPVs /\ scan' \in AfterContents /\ scan' \in AfterNodes
      /\ scan' \in AfterAttachments /\ scan' \in AfterVolumes /\ scan' \in AfterSnapshots
      /\ scan # "idle" /\ scan' # "idle" /\ scan # "probe"
  BY <1>0, Zenon DEF AfterPVs, AfterContents, AfterNodes, AfterAttachments, AfterVolumes, AfterSnapshots
<1>2. report = None /\ \A p : Given(p)' <=> Given(p)
  BY <1>0, <1>1, Zenon DEF Read, Given, Frozen
<1>3. /\ scfg' = scfg /\ pvs' = pvs /\ contents' = contents /\ seen' = seen
      /\ csinodes' = csinodes /\ vas' = vas /\ vols' = vols /\ probes' = probes
      /\ \/ snaps' = None
         \/ snaps' = {p \in Listed : p[1] \in Snapshots}
  BY Zenon DEF ListSnapshots, Fetched
<1>4. Read'
  BY <1>0, <1>1, <1>2, <1>3, ReadKept, Zenon DEF Read
<1>5. ASSUME Ghosts PROVE Ghosts'
  <2>1. snaps' = None \/ \A p \in snaps' : p \in store
    BY <1>3, Zenon DEF Listed
  <2>. QED  BY <1>0, <1>1, <1>2, <1>3, <1>5, <2>1, Zenon DEF Ghosts, GhostRead, Absent, Frozen
<1>6. ASSUME Leaks PROVE Leaks'
  <2>1. ASSUME NEW p \in store, p[1] \in Snapshots
        PROVE  snaps' = None \/ p \in snaps' \/ Unlisted(p)
    <3>1. blind \subseteq hidden
      BY <1>0, <1>1, Zenon DEF Read
    <3>. QED  BY <1>3, <2>1, <3>1, Zenon DEF Listed, Unlisted
  <2>2. \A p : Unlisted(p)' <=> Unlisted(p)
    BY <1>0, Zenon DEF Unlisted, Unlistable, Frozen
  <2>. QED  BY <1>0, <1>1, <1>2, <1>3, <1>6, <2>1, <2>2, Zenon DEF Leaks, Frozen
<1>7. ASSUME Stale PROVE Stale'
  BY <1>0, <1>1, <1>2, <1>3, <1>7, Zenon DEF Stale, StaleRead, Frozen, Names
<1>. QED  BY <1>0, <1>1, <1>4, <1>5, <1>6, <1>7, GoesOn, Zenon

\* loadConfig: what there is to report is read off the cluster.
LEMMA ScanStarts ==
    ASSUME CallsInv, Settled, ScanInv, ScanStart
    PROVE  ScanInv'
<1>1. /\ scan = "idle" /\ scan' = "pvs" /\ report' = None /\ drift0' = Drift
      /\ hidden' = blind /\ plan' = plan /\ handle' = handle /\ store' = store
      /\ gone' = gone /\ blind' = blind /\ nodes' = nodes /\ attached' = attached
      /\ pvs' = pvs /\ contents' = contents /\ probes' = probes /\ revived' = revived /\ Read
  BY Zenon DEF ScanStart, vars, callVars, clusterVars, ScanInv
<1>2. /\ scan' \notin AfterPVs /\ scan' \notin AfterContents /\ scan' \notin AfterNodes
      /\ scan' \notin AfterAttachments /\ scan' \notin AfterVolumes
      /\ scan' \notin AfterSnapshots /\ scan # "probe"
  BY <1>1, Zenon DEF AfterPVs, AfterContents, AfterNodes, AfterAttachments, AfterVolumes, AfterSnapshots
<1>3. \A p : Given(p)' <=> Given(p)
  BY <1>1, Zenon DEF Given
<1>4. /\ \A p \in drift0'.leaks : p \in store
      /\ \A p \in drift0'.ghosts : (p \in PVs \/ p \in Contents) /\ p \notin store
      /\ \A a \in drift0'.stale : a \in attached /\ (a[1] \notin Live \/ a[2] \notin Names(nodes))
  BY <1>1, Zenon DEF Drift, Names
<1>5. Read'
  <2>1. DOMAIN probes' = {}
    BY <1>1, <1>2, Zenon DEF Read
  <2>. QED  BY <1>1, <1>3, <2>1, Zenon DEF Read
<1>6. Ghosts'
  BY <1>1, <1>2, <1>3, <1>4, PVsAreGiven, Zenon DEF Ghosts, GhostRead, Absent
<1>7. Leaks'
  BY <1>1, <1>2, <1>4, Zenon DEF Leaks
<1>8. Stale'
  <2>1. ASSUME NEW a \in drift0'.stale PROVE a[1] \in gone \/ a[2] \notin Names(nodes)
    BY <1>1, <1>4, Zenon DEF Live, Read
  <2>. QED  BY <1>1, <1>2, <2>1, Zenon DEF Stale, StaleRead, Names
<1>. QED  BY <1>1, <1>5, <1>6, <1>7, <1>8, Zenon DEF ScanInv

\* GetVolumeHealth: one more candidate has been probed.
LEMMA Probes ==
    ASSUME ScanInv, Probe
    PROVE  ScanInv'
<1>0. Read /\ Frozen /\ scan = "probe" /\ scan' = scan
  BY ReadingFrozen, Zenon DEF Probe, ScanInv
<1>1. scan # "idle" /\ scan' # "idle"
  BY <1>0, Zenon
<1>2. report = None /\ \A p : Given(p)' <=> Given(p)
  BY <1>0, <1>1, Zenon DEF Read, Given, Frozen
<1>3. /\ scfg' = scfg /\ pvs' = pvs /\ contents' = contents /\ seen' = seen
      /\ csinodes' = csinodes /\ vas' = vas /\ vols' = vols /\ snaps' = snaps
  BY Zenon DEF Probe
<1>4. PICK p, said : /\ p \in GhostCandidates /\ said \in {Verdict(p), "failed"}
                     /\ probes' = [q \in DOMAIN probes \cup {p} |->
                                       IF q = p THEN said ELSE probes[q]]
  BY DEF Probe
<1>5. ASSUME Ghosts PROVE Read'
  <2>1. /\ \A q \in DOMAIN probes' : q = p \/ q \in DOMAIN probes
        /\ probes'[p] = said /\ \A q \in DOMAIN probes : q # p => probes'[q] = probes[q]
    BY <1>4, Zenon
  <2>2. Given(p)
    BY <1>0, <1>4, Zenon DEF GhostCandidates, Read
  <2>3. /\ said = "gone" => Absent(p) \/ p[1] \in plan.shallow
        /\ said = "healthy" => p \notin drift0.ghosts \/ p \in revived
        /\ said = "unknown" => p[2] \in hidden
    <3>1. blind \subseteq hidden
      BY <1>0, <1>1, Zenon DEF Read
    <3>2. p \in store => p \notin drift0.ghosts \/ p \in revived
      BY <1>5, Zenon DEF Ghosts, Absent
    <3>. QED  BY <1>4, <3>1, <3>2, Zenon DEF Verdict, Absent
  <2>4. ASSUME NEW q \in DOMAIN probes'
        PROVE  /\ Given(q)'
               /\ probes'[q] = "gone" => Absent(q)' \/ q[1] \in plan'.shallow
               /\ probes'[q] = "healthy" => q \notin drift0'.ghosts \/ q \in revived'
               /\ probes'[q] = "unknown" => q[2] \in hidden'
    <3>1. /\ drift0' = drift0 /\ hidden' = hidden /\ revived' = revived /\ plan' = plan
          /\ \A r : Absent(r)' <=> Absent(r)
      BY <1>0, Zenon DEF Frozen, Absent
    <3>2. CASE q = p
      BY <1>2, <2>1, <2>2, <2>3, <3>1, <3>2, Zenon
    <3>3. CASE q # p
      BY <1>0, <1>2, <2>1, <2>4, <3>1, <3>3, Zenon DEF Read
    <3>. QED  BY <3>2, <3>3, Zenon
  <2>. QED  BY <1>0, <1>2, <1>3, <2>4, Zenon DEF Read, Frozen
<1>6. ASSUME Ghosts PROVE Ghosts'
  BY <1>0, <1>2, <1>3, <1>6, Zenon DEF Ghosts, GhostRead, Absent, Frozen
<1>7. ASSUME Leaks PROVE Leaks'
  BY <1>0, <1>2, <1>3, <1>7, Zenon DEF Leaks, Unlisted, Unlistable, Frozen
<1>8. ASSUME Stale PROVE Stale'
  BY <1>0, <1>3, <1>8, Zenon DEF Stale, StaleRead, Frozen, Names
<1>9. Read'
  BY <1>1, <1>5, Zenon DEF ScanInv
<1>. QED  BY <1>0, <1>1, <1>6, <1>7, <1>8, <1>9, GoesOn, Zenon

-----------------------------------------------------------------------------
(* The report *)

LEMMA SkipsNamed ==
    /\ contents = None => "contents" \in Skips
    /\ seen = None => "nodes" \in Skips
    /\ vas = None => "attachments" \in Skips
    /\ vols = None /\ Asked => "volumes" \in Skips
    /\ snaps = None /\ Asked => "snapshots" \in Skips
  BY Zenon DEF Skips

\* A type without a resource has no instance that is known.
LEMMA NoneKnown ==
    ASSUME ~Asked, NEW H, NEW p \in H
    PROVE  p \in UnknownInstances(H)
  BY Zenon DEF Asked, UnknownInstances, Watch!Registered, Watch!OfType

\* zoneResolvable says what Resolve does, for a type that has a resource.
LEMMA ResolvableIsResolved ==
    ASSUME NEW c \in scfg, NEW z
    PROVE  ZoneResolvable(c.type, z) <=> Watch!Resolve(scfg, c.type, <<z>>, <<>>) # {}
<1>. DEFINE of == Watch!OfType(scfg, c.type)
            zones == <<z>> \o <<>>
            served == {k \in DOMAIN zones : \E d \in of : d.zone = zones[k]}
            First(k) == \A j \in served : k <= j
            hits == {d.inst : d \in {e \in of : \E k \in served : First(k) /\ e.zone = zones[k]}}
            marked == {d.inst : d \in {e \in of : e.dflt}}
            all == {d.inst : d \in of}
<1>1. c \in of
  BY Zenon DEF Watch!OfType
<1>2. DOMAIN zones = {1} /\ zones[1] = z
  OBVIOUS
<1>3. served # {} <=> \E d \in of : d.zone = z
  BY <1>2, Zenon
<1>4. served # {} => hits # {}
  BY <1>2
<1>5. (\E d \in of : d.dflt) <=> marked # {}
  OBVIOUS
<1>6. all # {}
  BY <1>1, Zenon
<1>7. Watch!Resolve(scfg, c.type, <<z>>, <<>>) =
          IF served # {} THEN hits ELSE IF \E d \in of : d.dflt THEN marked
          ELSE IF (\E d \in of : of = {d}) THEN all ELSE {}
  BY Zenon DEF Watch!Resolve
<1>8. ZoneResolvable(c.type, z) <=>
          (\E d \in of : d.zone = z) \/ (\E d \in of : d.dflt) \/ (\E d \in of : of = {d})
  BY Zenon DEF ZoneResolvable
<1>. HIDE DEF of, zones, served, First, hits, marked, all
<1>. QED  BY <1>3, <1>4, <1>5, <1>6, <1>7, <1>8, Zenon

\* What Check writes.
LEMMA FindingsAre ==
    /\ Findings.missing = MissingInstances
    /\ Findings.unknown = UnknownInstances(pvs \cup (IF contents = None THEN {} ELSE contents))
    /\ Findings.stale = CheckAttachments
    /\ Findings.skips = Skips
    /\ Findings.topology.nobackend =
          {x \in Registration \X {c.type : c \in scfg} :
              x[1].zone # "" /\ ~ZoneResolvable(x[2], x[1].zone)}
    /\ \A p : p \in Findings.volumes.confirmed =>
          p \in GhostCandidates /\ Probed(p, "gone")
    /\ \A p \in GhostCandidates : p[2] \in MissingInstances \/ Probed(p, "healthy")
                                  \/ p \in Findings.volumes.ghosts
    /\ vols # None => \A p \in vols \ pvs : p \in Findings.volumes.orphans
    /\ contents # None /\ snaps # None =>
          /\ \A p \in contents \ snaps : p[2] \in MissingInstances \/ p \in Findings.snaps.ghosts
          /\ \A p \in snaps \ contents : p \in Findings.snaps.orphans
<1>1. /\ Findings.missing = MissingInstances
      /\ Findings.unknown = UnknownInstances(pvs \cup (IF contents = None THEN {} ELSE contents))
      /\ Findings.stale = CheckAttachments
      /\ Findings.skips = Skips
      /\ Findings.volumes = CheckVolumes /\ Findings.snaps = CheckSnapshots
      /\ Findings.topology = CheckTopology
  BY Zenon DEF Findings
<1>2. CheckTopology.nobackend =
          {x \in Registration \X {c.type : c \in scfg} :
              x[1].zone # "" /\ ~ZoneResolvable(x[2], x[1].zone)}
  BY Zenon DEF CheckTopology
<1>3. /\ \A p : p \in CheckVolumes.confirmed => p \in GhostCandidates /\ Probed(p, "gone")
      /\ \A p \in GhostCandidates : p[2] \in MissingInstances \/ Probed(p, "healthy")
                                    \/ p \in CheckVolumes.ghosts
      /\ vols # None => \A p \in vols \ pvs : p \in CheckVolumes.orphans
  BY Zenon DEF CheckVolumes
<1>4. contents # None /\ snaps # None =>
          /\ \A p \in contents \ snaps : p[2] \in MissingInstances \/ p \in CheckSnapshots.ghosts
          /\ \A p \in snaps \ contents : p \in CheckSnapshots.orphans
  BY Zenon DEF CheckSnapshots
<1>. QED  BY <1>1, <1>2, <1>3, <1>4, Zenon

\* Check: the report is made of the reads, all of which are over.
LEMMA CheckTells ==
    ASSUME Read, Ghosts, Leaks, Stale, Check
    PROVE  Told'
<1>0. /\ report' = Findings /\ scan = "probe" /\ GhostCandidates \subseteq DOMAIN probes
      /\ plan' = plan /\ handle' = handle /\ store' = store /\ gone' = gone
      /\ nodes' = nodes /\ attached' = attached /\ scfg' = scfg /\ seen' = seen
      /\ csinodes' = csinodes /\ drift0' = drift0 /\ hidden' = hidden /\ revived' = revived
  BY Zenon DEF Check, vars, callVars, clusterVars
<1>1. /\ scan \in AfterPVs /\ scan \in AfterContents /\ scan \in AfterNodes
      /\ scan \in AfterAttachments /\ scan \in AfterVolumes /\ scan \in AfterSnapshots
  BY <1>0, Zenon DEF AfterPVs, AfterContents, AfterNodes, AfterAttachments, AfterVolumes, AfterSnapshots
<1>2. \A p : Given(p)' <=> Given(p)
  BY <1>0, Zenon DEF Given
<1>3. report'.skips = Skips /\ \A ks : Unread(ks)' <=> Skips \cap ks # {}
  BY <1>0, FindingsAre, Zenon DEF Unread
<1>4. \A x \in MissingInstances : x \in hidden
  BY Zenon DEF MissingInstances, Read
<1>5. ASSUME NEW p \in report'.volumes.confirmed
      PROVE  Given(p)' /\ (Absent(p)' \/ p[1] \in plan'.shallow)
  <2>1. p \in GhostCandidates /\ Probed(p, "gone")
    BY <1>0, <1>5, FindingsAre, Zenon
  <2>. QED  BY <1>0, <1>2, <2>1, Zenon DEF Probed, Read, Absent
<1>6. ASSUME NEW p \in drift0.leaks
      PROVE  \/ Given(p) \/ Unlisted(p) \/ ~Asked
             \/ p \in report'.volumes.orphans \/ p \in report'.snaps.orphans
             \/ Skips \cap {"volumes", "snapshots", "contents"} # {}
  <2>. SUFFICES ASSUME ~Given(p), ~Unlisted(p), Asked,
                       "volumes" \notin Skips, "snapshots" \notin Skips, "contents" \notin Skips
                PROVE  p \in report'.volumes.orphans \/ p \in report'.snaps.orphans
    OBVIOUS
  <2>1. contents # None /\ vols # None /\ snaps # None
    BY SkipsNamed, Zenon
  <2>2. p \notin pvs /\ p \notin contents
    BY <2>1, Zenon DEF Read
  <2>3. CASE p[1] \notin Snapshots
    <3>1. p \in vols \ pvs
      BY <1>1, <2>1, <2>2, <2>3, Zenon DEF Leaks
    <3>. QED  BY <1>0, <2>1, <3>1, FindingsAre, Zenon
  <2>4. CASE p[1] \in Snapshots
    <3>1. p \in snaps \ contents
      BY <1>1, <2>1, <2>2, <2>4, Zenon DEF Leaks
    <3>. QED  BY <1>0, <2>1, <3>1, FindingsAre, Zenon
  <2>. QED  BY <2>3, <2>4, Zenon
<1>7. ASSUME NEW p \in drift0.ghosts
      PROVE  \/ p \in revived \/ p[1] \in gone
             \/ p \in report'.volumes.ghosts \/ p \in report'.snaps.ghosts
             \/ p \in report'.unknown
             \/ (p[2] \in report'.missing /\ p[2] \in hidden)
             \/ Skips \cap {"volumes", "snapshots", "contents"} # {}
  <2>. SUFFICES ASSUME p \notin revived, p[1] \notin gone,
                       "volumes" \notin Skips, "snapshots" \notin Skips, "contents" \notin Skips
                PROVE  \/ p \in report'.volumes.ghosts \/ p \in report'.snaps.ghosts
                       \/ p \in report'.unknown
                       \/ (p[2] \in report'.missing /\ p[2] \in hidden)
    OBVIOUS
  <2>1. GhostRead(p)
    BY Zenon DEF Ghosts
  <2>2. contents # None /\ (Asked => vols # None /\ snaps # None)
    BY SkipsNamed, Zenon
  <2>3. p \in pvs \/ p \in contents
    BY <1>1, <2>1, <2>2, Zenon DEF GhostRead
  <2>4. CASE ~Asked
    <3>1. PICK H : H = pvs \cup (IF contents = None THEN {} ELSE contents)
      BY Zenon
    <3>2. p \in H
      BY <2>2, <2>3, <3>1, Zenon
    <3>3. p \in UnknownInstances(H)
      BY <2>4, <3>2, NoneKnown, Zenon
    <3>4. p \in report'.unknown
      BY <1>0, <3>1, <3>3, FindingsAre, Zenon
    <3>. QED  BY <3>4, Zenon
  <2>5. CASE Asked /\ p[1] \notin Snapshots
    <3>1. p \in pvs \ vols
      BY <1>1, <2>1, <2>2, <2>5, Zenon DEF GhostRead
    <3>2. p \in GhostCandidates
      BY <2>2, <2>5, <3>1, Zenon DEF GhostCandidates
    <3>3. ~Probed(p, "healthy")
      BY Zenon DEF Probed, Read
    <3>. QED  BY <1>0, <1>4, <3>2, <3>3, FindingsAre, Zenon
  <2>6. CASE Asked /\ p[1] \in Snapshots
    <3>1. p \in contents \ snaps
      BY <1>1, <2>1, <2>2, <2>6, Zenon DEF GhostRead
    <3>. QED  BY <1>0, <1>4, <2>2, <2>6, <3>1, FindingsAre, Zenon
  <2>. QED  BY <2>4, <2>5, <2>6, Zenon
<1>8. ASSUME NEW a \in drift0.stale, a \in attached
      PROVE  a \in report'.stale \/ Skips \cap {"nodes", "attachments"} # {}
  <2>. SUFFICES ASSUME "nodes" \notin Skips, "attachments" \notin Skips
                PROVE  a \in report'.stale
    OBVIOUS
  <2>1. seen # None /\ vas # None
    BY SkipsNamed, Zenon
  <2>2. a \in vas /\ StaleRead(a)
    BY <1>1, <1>8, <2>1, Zenon DEF Stale
  <2>3. (\A p \in pvs : p[1] # a[1]) \/ a[2] \notin Names(seen)
    BY <1>1, <2>1, <2>2, Zenon DEF StaleRead
  <2>4. a \in CheckAttachments
    BY <2>1, <2>2, <2>3, Zenon DEF CheckAttachments, Names
  <2>. QED  BY <1>0, <2>4, FindingsAre, Zenon
<1>9. Topology'
  <2>1. Registration' = Registration
    BY <1>0, Zenon DEF Registration
  <2>2. ASSUME NEW n \in Registration, NEW c \in scfg, n.zone # ""
        PROVE  <<n, c.type>> \in report'.topology.nobackend
                  <=> Watch!Resolve(scfg, c.type, <<n.zone>>, <<>>) = {}
    <3>1. ZoneResolvable(c.type, n.zone) <=> Watch!Resolve(scfg, c.type, <<n.zone>>, <<>>) # {}
      BY ResolvableIsResolved, Zenon
    <3>2. report'.topology.nobackend =
              {x \in Registration \X {d.type : d \in scfg} :
                  x[1].zone # "" /\ ~ZoneResolvable(x[2], x[1].zone)}
      BY <1>0, FindingsAre, Zenon
    <3>3. <<n, c.type>> \in report'.topology.nobackend <=> ~ZoneResolvable(c.type, n.zone)
      BY <2>2, <3>2, Zenon
    <3>. QED  BY <3>1, <3>3, Zenon
  <2>. QED  BY <1>0, <2>1, <2>2, Zenon DEF Topology
<1>10. \A p \in drift0'.leaks :
          Given(p)' \/ Unlisted(p)' \/ ~Asked'
          \/ p \in report'.volumes.orphans \cup report'.snaps.orphans
          \/ Unread({"volumes", "snapshots", "contents"})'
  <2>1. Asked' <=> Asked
    BY <1>0, Zenon DEF Asked
  <2>2. \A p : Unlisted(p)' <=> Unlisted(p)
    BY <1>0, Zenon DEF Unlisted, Unlistable
  <2>. QED  BY <1>0, <1>2, <1>3, <1>6, <2>1, <2>2, Zenon
<1>11. \A p \in drift0'.ghosts :
          p \in revived' \/ p[1] \in gone'
          \/ p \in report'.volumes.ghosts \cup report'.snaps.ghosts \cup report'.unknown
          \/ p[2] \in report'.missing \cap hidden'
          \/ Unread({"volumes", "snapshots", "contents"})'
  BY <1>0, <1>3, <1>7, Zenon
<1>12. \A a \in drift0'.stale \cap attached' :
          a \in report'.stale \/ Unread({"nodes", "attachments"})'
  BY <1>0, <1>3, <1>8, Zenon
<1>. QED  BY <1>5, <1>9, <1>10, <1>11, <1>12, Zenon DEF Told

LEMMA Checks ==
    ASSUME ScanInv, Check
    PROVE  ScanInv'
<1>0. /\ scan = "probe" /\ scan' = "idle" /\ pvs' = {} /\ contents' = None
      /\ DOMAIN probes' = {} /\ handle' = handle /\ store' = store /\ gone' = gone
      /\ nodes' = nodes /\ attached' = attached /\ drift0' = drift0 /\ Read
      /\ blind' = blind /\ revived' = revived /\ plan' = plan
  BY Zenon DEF Check, vars, callVars, clusterVars, ScanInv
<1>1. /\ scan # "idle" /\ scan' \notin AfterPVs /\ scan' \notin AfterContents
      /\ scan' \notin AfterNodes /\ scan' \notin AfterAttachments
      /\ scan' \notin AfterVolumes /\ scan' \notin AfterSnapshots
  BY <1>0, Zenon DEF AfterPVs, AfterContents, AfterNodes, AfterAttachments, AfterVolumes, AfterSnapshots
<1>2. \A p : Given(p)' <=> Given(p)
  BY <1>0, Zenon DEF Given
<1>3. Ghosts /\ Leaks /\ Stale
  BY <1>1, Zenon DEF ScanInv
<1>4. Read'
  BY <1>0, <1>2, Zenon DEF Read
<1>5. Ghosts'
  BY <1>0, <1>1, <1>2, <1>3, Zenon DEF Ghosts, GhostRead, Absent
<1>6. Leaks'
  BY <1>0, <1>1, <1>2, <1>3, Zenon DEF Leaks
<1>7. Stale'
  BY <1>0, <1>1, <1>3, Zenon DEF Stale, StaleRead, Names
<1>8. Told'
  BY <1>0, <1>3, CheckTells, Zenon
<1>. QED  BY <1>4, <1>5, <1>6, <1>7, <1>8, Zenon DEF ScanInv

-----------------------------------------------------------------------------
(* The driver and a scan beside it *)

InspectInv == CallsInv /\ Settled /\ ScanInv

LEMMA InspectStart == InspectInit => InspectInv
<1>. SUFFICES ASSUME InspectInit PROVE InspectInv
  OBVIOUS
<1>1. Init /\ scan = "idle" /\ report = None /\ pvs = {} /\ contents = None
      /\ DOMAIN probes = {} /\ attached = {}
  BY Zenon DEF InspectInit
<1>2. ScanInv
  BY <1>1, Zenon DEF ScanInv, Read
<1>. QED  BY <1>1, <1>2, CallsStart, SettledStart, Zenon DEF InspectInv

LEMMA AroundStep ==
    ASSUME CallsInv, Settled, ScanInv,
           DriverStep \/ (\E i \in plan.instances : PluginRestart(i))
           \/ (\E n \in nodes : NodeLost(n) \/ \E o \in plan.objs : AttachNew(o, n))
           \/ (\E a \in attached : AttachEnd(a))
    PROVE  ScanInv'
<1>0. Read /\ (scan # "idle" => blind \subseteq hidden)
  BY Zenon DEF ScanInv, Read
<1>1. ASSUME DriverStep PROVE ScanInv'
  <2>1. Moves
    BY <1>1, StepMoves, Zenon DEF DriverStep, Revives
  <2>2. UNCHANGED <<clusterVars, scanVars>>
    BY <1>1, Zenon DEF DriverStep
  <2>. QED  BY <1>0, <2>1, <2>2, Between, Zenon DEF clusterVars, scanVars, readVars
<1>2. ASSUME UNCHANGED vars, revived' = revived PROVE Moves
  BY <1>2, Zenon DEF vars, callVars, Moves, Given, Absent
<1>3. ASSUME NEW i, PluginRestart(i) PROVE ScanInv'
  <2>1. /\ UNCHANGED vars /\ UNCHANGED <<nodes, attached, scan, readVars, report, drift0, revived>>
        /\ hidden' = IF scan = "idle" THEN hidden ELSE hidden \cup blind'
    BY <1>3, Zenon DEF PluginRestart
  <2>2. /\ hidden \subseteq hidden' /\ (scan = "idle" => hidden' = hidden)
        /\ (scan # "idle" => blind' \subseteq hidden')
    BY <2>1, Zenon
  <2>. QED  BY <1>2, <2>1, <2>2, Between, Zenon DEF readVars
<1>4. ASSUME NEW n, NodeLost(n) PROVE ScanInv'
  <2>1. /\ UNCHANGED vars /\ UNCHANGED <<blind, attached, scanVars, revived>> /\ nodes' = nodes \ {n}
    BY <1>4, Zenon DEF NodeLost
  <2>. QED  BY <1>0, <1>2, <2>1, Between, Zenon DEF scanVars, readVars
<1>5. ASSUME NEW n \in nodes, NEW o, AttachNew(o, n) PROVE ScanInv'
  <2>1. /\ UNCHANGED vars /\ UNCHANGED <<blind, nodes, scanVars, revived>>
        /\ attached' = attached \cup {<<o, n.name>>} /\ o \in Live
    BY <1>5, Zenon DEF AttachNew
  <2>2. \A a \in attached' :
            \/ a \in attached
            \/ /\ a[1] \in Objects /\ handle[a[1]] # None
               /\ a[1] \notin gone /\ a[2] \in Names(nodes)
    BY <2>1 DEF Live, Names
  <2>. QED  BY <1>0, <1>2, <2>1, <2>2, Between, Zenon DEF scanVars, readVars
<1>6. ASSUME NEW a, AttachEnd(a) PROVE ScanInv'
  <2>1. /\ UNCHANGED vars /\ UNCHANGED <<blind, nodes, scanVars, revived>> /\ attached' = attached \ {a}
    BY <1>6, Zenon DEF AttachEnd
  <2>. QED  BY <1>0, <1>2, <2>1, Between, Zenon DEF scanVars, readVars
<1>. QED  BY <1>1, <1>3, <1>4, <1>5, <1>6, Zenon

LEMMA InspectStep == InspectInv /\ [InspectNext]_allVars => InspectInv'
<1>. SUFFICES ASSUME InspectInv, [InspectNext]_allVars PROVE InspectInv'
  OBVIOUS
<1>1. [Next]_vars
  BY Zenon DEF InspectNext, allVars, DriverStep, ScanStep, PluginRestart, NodeLost, AttachNew,
     AttachEnd, ScanStart, FetchPVs, FetchContents, FetchNodes, FetchCSINodes,
     FetchAttachments, ListVolumes, ListSnapshots, Probe, Check, Reading
<1>2. CallsInv'
  BY <1>1, CallsStep, Zenon DEF InspectInv
<1>3. Revives
  <2>1. CASE DriverStep
    BY <2>1, Zenon DEF DriverStep, Revives
  <2>2. CASE ~DriverStep
    <3>1. store' = store /\ revived' = revived
      BY <2>2, Zenon DEF InspectNext, allVars, vars, callVars, ScanStep, PluginRestart, NodeLost,
         AttachNew, AttachEnd, ScanStart, FetchPVs, FetchContents, FetchNodes, FetchCSINodes,
         FetchAttachments, ListVolumes, ListSnapshots, Probe, Check, Reading
    <3>. QED  BY <3>1, Zenon DEF Revives
  <2>. QED  BY <2>1, <2>2, Zenon
<1>4. Settled' /\ Moves
  BY <1>1, <1>3, StepMoves, Zenon DEF InspectInv
<1>5. ScanInv'
  <2>1. CallsInv /\ Settled /\ ScanInv
    BY Zenon DEF InspectInv
  <2>3. CASE UNCHANGED allVars
    <3>1. UNCHANGED clusterVars /\ UNCHANGED scanVars
      BY <2>3, Zenon DEF allVars
    <3>2. scan # "idle" => blind \subseteq hidden
      BY <2>1, Zenon DEF ScanInv, Read
    <3>. QED  BY <1>4, <2>1, <3>1, <3>2, Between, Zenon DEF clusterVars, scanVars, readVars
  <2>4. CASE ScanStep
    BY <2>1, <2>4, ScanStarts, PVsRead, ContentsRead, NodesRead, CSINodesRead,
       AttachmentsRead, VolumesRead, SnapshotsRead, Probes, Checks, Zenon DEF ScanStep
  <2>5. CASE InspectNext /\ ~ScanStep
    BY <2>1, <2>5, AroundStep, Zenon DEF InspectNext
  <2>. QED  BY <2>3, <2>4, <2>5, Zenon
<1>. QED  BY <1>2, <1>4, <1>5, Zenon DEF InspectInv

\* probeGhostCandidates and checkVolumes: a report never calls a volume gone that is
\* there, for any interleaving of a scan with calls, plugin restarts and node losses,
\* but one that a create made again whose caller had given up, and CephFS's shallow
\* volumes.
THEOREM ConfirmedAreGone == InspectSpec => []ConfirmedGhostsGone
<1>1. InspectInv => ConfirmedGhostsGone
  BY Zenon DEF InspectInv, ScanInv, Told, ConfirmedGhostsGone, Absent
<1>. QED  BY <1>1, InspectStart, InspectStep, PTL DEF InspectSpec

\* checkVolumes, checkSnapshots, checkAttachments and checkTopology: drift that lasts
\* from the beginning of a scan has a finding, or the report says what it did not
\* read, for any interleaving of a scan with calls, plugin restarts and node losses.
THEOREM LastingDriftReported == InspectSpec => []DriftReported
<1>1. InspectInv => DriftReported
  <2>. SUFFICES ASSUME InspectInv, report # None PROVE DriftReported
    BY Zenon DEF DriftReported
  <2>0. Settled /\ Told
    BY Zenon DEF InspectInv, ScanInv
  <2>1. /\ \A p \in Drift.leaks : p \in store /\ p \notin PVs /\ p \notin Contents
        /\ \A p \in Drift.ghosts : p \in PVs \/ p \in Contents
        /\ \A a \in Drift.stale : a \in attached
    BY Zenon DEF Drift
  <2>2. \A p \in Drift.leaks : Given(p) => p \in revived
    BY <2>0, <2>1, PVsAreGiven, ZenonT(30) DEF Given, Settled, Absent
  <2>3. \A p \in Drift.ghosts : p[1] \notin gone
    BY <2>1, PVsAreGiven, Zenon
  <2>4. \A p \in (drift0.leaks \cap Drift.leaks) \ revived :
              p[2] \in hidden \/ p[1] \in Unlistable \/ ~Asked
              \/ p \in report.volumes.orphans \cup report.snaps.orphans
              \/ report.skips \cap {"volumes", "snapshots", "contents"} # {}
    BY <2>0, <2>2, Zenon DEF Told, Unlisted, Unread
  <2>5. \A p \in (drift0.ghosts \cap Drift.ghosts) \ revived :
              p \in report.volumes.ghosts \cup report.snaps.ghosts \cup report.unknown
              \/ p[2] \in report.missing \cap hidden
              \/ report.skips \cap {"volumes", "snapshots", "contents"} # {}
    BY <2>0, <2>3, Zenon DEF Told, Unread
  <2>6. \A a \in drift0.stale \cap Drift.stale :
              a \in report.stale \/ report.skips \cap {"nodes", "attachments"} # {}
    BY <2>0, <2>1, Zenon DEF Told, Unread
  <2>. QED  BY <2>0, <2>4, <2>5, <2>6, Zenon DEF DriftReported, Told, Topology
<1>. QED  BY <1>1, InspectStart, InspectStep, PTL DEF InspectSpec

\* The claims and the placement of copies (HandlersExclude, CopiesStayBeside) hold as
\* well beside scans: a scan changes nothing of the driver.
THEOREM ScansLeaveTheDriver == InspectSpec => [](OneHandler /\ CopiesBesideSource)
<1>1. InspectInv => OneHandler /\ CopiesBesideSource
  BY ClaimsServe, Zenon DEF InspectInv, CallsInv, Placed, Beside, CopiesBesideSource
<1>. QED  BY <1>1, InspectStart, InspectStep, PTL DEF InspectSpec
=============================================================================
