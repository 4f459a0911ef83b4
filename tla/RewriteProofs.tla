---------------------------- MODULE RewriteProofs ----------------------------
(***************************************************************************)
(* Proofs about Rewrite, for any number of disks, filesystems and blocks.  *)
(***************************************************************************)
EXTENDS Rewrite, TLAPS

MarkedPc == {"freeze", "freezing", "settle", "batch", "lock", "write", "thaw"}

\* Where a rewriter stands, and what it then has in hand.
ShapeOf(d) ==
  /\ rw[d].mounts \subseteq {m \in Mount : DiskOf[m] = d}
  /\ rw[d].guards \subseteq rw[d].mounts
  /\ rw[d].locked \subseteq rw[d].guards
  /\ rw[d].freezing \subseteq rw[d].mounts \ rw[d].guards
  /\ rw[d].freezing # {} => rw[d].pc \in {"freezing", "settle"}
  /\ \A m, n \in rw[d].freezing : m = n
  /\ rw[d].locked # {} => rw[d].pc \in {"lock", "write"}
  /\ rw[d].guards # {} => rw[d].pc \in MarkedPc
  /\ rw[d].pc \in {"batch", "lock", "write"} => rw[d].guards = rw[d].mounts
  /\ rw[d].pc = "write" => rw[d].locked = rw[d].guards
  /\ rw[d].pc \in {"lock", "write"} => rw[d].next <= Slow
Shape == \A d \in Disk : ShapeOf(d)

\* A guard and the goroutine that made it agree.
GuardOf(m) ==
  /\ guard[m].hold <=> m \in rw[DiskOf[m]].guards
  /\ guard[m].released => guard[m].hold
  /\ guard[m].hold => (guard[m].tripped <=> guard[m].released)
  /\ m \in rw[DiskOf[m]].locked => ~guard[m].released
Guards == \A m \in Mount : GuardOf(m)

\* No goroutine outlives its process.
Dead == ~Running => rw = [d \in Disk |-> Idle] /\ guard = [m \in Mount |-> NoGuard]

Inv == TypeOK /\ Shape /\ Guards /\ Dead

LEMMA InvInit == Init => Inv
  BY RewriteAssumption DEF Init, Inv, TypeOK, Shape, ShapeOf, Guards, GuardOf, Dead, Up,
     Idle, NoGuard, MarkedPc, Pc, Running, Block, Progress, Guard


LEMMA StepType ==
  ASSUME TypeOK, NEW d \in Disk, NEW f \in Progress, Step(d, f)
  PROVE  rw' \in [Disk -> Progress]
  BY DEF TypeOK, Step


LEMMA IdleType == Idle \in Progress
  BY RewriteAssumption DEF Progress, Idle, Pc

LEMMA GuardType == NoGuard \in Guard
  BY DEF NoGuard, Guard

LEMMA AdvanceType ==
  ASSUME NEW r \in Progress, r.next <= Slow
  PROVE  Advance(r) \in Progress
<1>1. r.next + 1 \in 1 .. Slow + 1
  BY RewriteAssumption DEF Progress
<1>2. \A n \in 1 .. Slow + 1 :
        [r EXCEPT !.pc = "batch", !.locked = {}, !.next = n, !.some = TRUE] \in Progress
  BY DEF Progress, Pc
<1> QED
  BY <1>1, <1>2 DEF Advance

LEMMA RwType ==
  ASSUME TypeOK, Shape, NEW d \in Disk, Rewriter(d)
  PROVE  rw' \in [Disk -> Progress]
<1> SUFFICES \E f \in Progress : Step(d, f)
  BY StepType
<1>0. rw[d] \in Progress /\ Idle \in Progress
  BY IdleType DEF TypeOK
<1>1. CASE ListMounts(d)
  <2>1. [Idle EXCEPT !.pc = "open", !.mounts = OnDisk(d)] \in Progress
    BY IdleType DEF Progress, Pc, OnDisk, TypeOK
  <2> QED
    BY <1>1, <2>1 DEF ListMounts
<1>2. CASE Open(d) \/ Top(d) \/ SaveFreezeMarker(d) \/ AllFrozen(d) \/ After(d) \/ NextBlock(d)
  <2>1. \A pc \in Pc : /\ [rw[d] EXCEPT !.pc = pc] \in Progress
                       /\ [rw[d] EXCEPT !.pc = pc, !.over = TRUE] \in Progress
                       /\ [rw[d] EXCEPT !.some = FALSE, !.pc = pc] \in Progress
    BY <1>0 DEF Progress
  <2> QED
    BY <1>0, <1>2, <2>1
    DEF Open, Top, SaveFreezeMarker, AllFrozen, After, NextBlock, Pc
<1>3. CASE Freeze(d) \/ FreezeReturns(d) \/ Settle(d)
  BY <1>0, <1>3 DEF Freeze, FreezeReturns, Settle, Progress, Pc
<1>4. CASE Lock(d) \/ Release(d) \/ ClearFreezeMarker(d)
  BY <1>0, <1>4 DEF Lock, Release, ClearFreezeMarker, TypeOK, Guard, Progress, Pc
<1>5. CASE Read(d) \/ WriteBack(d)
  <2>1. rw[d].next <= Slow
    BY <1>5 DEF Read, WriteBack, Shape, ShapeOf, At
  <2>2. /\ Advance(rw[d]) \in Progress
        /\ [rw[d] EXCEPT !.pc = "thaw", !.locked = {}, !.over = TRUE] \in Progress
    BY <1>0, <2>1, AdvanceType DEF Progress, Pc
  <2>3. ASSUME Read(d) PROVE rw[d].next \in Block
    BY <1>0, <2>1 DEF Progress, Block
  <2>4. ASSUME Read(d)
        PROVE [rw[d] EXCEPT !.pc = "write", !.buf = content[d][rw[d].next]] \in Progress
    <3>1. content[d][rw[d].next] \in BOOLEAN
      BY <2>3, <2>4 DEF TypeOK
    <3> QED
      BY <1>0, <3>1 DEF Progress, Pc
  <2> QED
    BY <1>5, <2>2, <2>4 DEF Read, WriteBack
<1> QED
  BY <1>1, <1>2, <1>3, <1>4, <1>5 DEF Rewriter, Batch, Thaw

\* The steps that change nothing but where the goroutine stands.
QuietStep(d) ==
  \/ ListMounts(d) \/ Open(d) \/ Top(d) \/ AllFrozen(d)
  \/ NextBlock(d) \/ Lock(d) \/ Read(d) \/ After(d)

LEMMA QuietSteps ==
  ASSUME NEW d \in Disk, QuietStep(d)
  PROVE  UNCHANGED <<mounted, content, wanted, daemon, crashes, frozen, guard, marker>>
  BY DEF QuietStep, ListMounts, Open, Top, AllFrozen, NextBlock, Lock, Read, After,
     Quiet, device, process

LEMMA TypeStep == TypeOK /\ Shape /\ [Next]_vars => TypeOK'
<1> SUFFICES ASSUME TypeOK, Shape, [Next]_vars PROVE TypeOK'
  OBVIOUS
<1>1. CASE UNCHANGED vars
  BY <1>1 DEF vars, TypeOK
<1>2. ASSUME NEW m \in Mount, MountFs(m) \/ UnmountFs(m) PROVE TypeOK'
  BY <1>2 DEF MountFs, UnmountFs, process, TypeOK
<1>3. ASSUME NEW m \in Mount, Watchdog(m) PROVE TypeOK'
  BY <1>3 DEF Watchdog, Fired, Thawed, Quiet, device, process, TypeOK, Guard
<1>4. ASSUME NEW m \in Mount, NEW b \in Block, FsWrite(m, b) PROVE TypeOK'
  BY <1>4, RewriteAssumption DEF FsWrite, process, TypeOK
<1>5. ASSUME NEW d \in Disk, Rewriter(d) PROVE TypeOK'
  <2>1. rw' \in [Disk -> Progress] /\ rw[d] \in Progress
    BY <1>5, RwType DEF TypeOK
  <2>2. CASE QuietStep(d)
    BY <2>1, <2>2, QuietSteps DEF TypeOK
  <2>3. CASE SaveFreezeMarker(d) \/ ClearFreezeMarker(d)
    BY <2>1, <2>3 DEF SaveFreezeMarker, ClearFreezeMarker, Quiet, device, process, TypeOK, Progress
  <2>4. CASE Freeze(d) \/ FreezeReturns(d) \/ Settle(d) \/ Release(d)
    <3>1. guard' \in [Mount -> Guard]
      <4>1. /\ guard \in [Mount -> Guard] /\ NoGuard \in Guard /\ NewGuard \in Guard
            /\ \A g \in Guard : [g EXCEPT !.hold = TRUE] \in Guard
        BY DEF TypeOK, NoGuard, NewGuard, Guard
      <4>2. \A m \in Mount, g \in Guard : [guard EXCEPT ![m] = g] \in [Mount -> Guard]
        BY <4>1
      <4>3. CASE Freeze(d) \/ FreezeReturns(d) \/ Release(d)
        BY <2>1, <4>1, <4>2, <4>3 DEF Freeze, FreezeReturns, Release, Progress
      <4>4. CASE Settle(d)
        BY <2>1, <4>1, <4>4 DEF Settle, Progress
      <4> QED
        BY <2>4, <4>3, <4>4
    <3>2. frozen' \subseteq Mount
      BY <2>1, <2>4 DEF Freeze, FreezeReturns, Settle, Release, Thawed, TypeOK, Progress
    <3>3. UNCHANGED <<mounted, content, wanted, daemon, crashes, marker>>
      BY <2>4 DEF Freeze, FreezeReturns, Settle, Release, Quiet, device, process
    <3> QED
      BY <2>1, <3>1, <3>2, <3>3 DEF TypeOK
  <2>5. CASE WriteBack(d)
    <3>1. content' \in [Disk -> [Block -> BOOLEAN]]
      <4> DEFINE written == [content EXCEPT ![d][rw[d].next] = rw[d].buf]
      <4>1. content \in [Disk -> [Block -> BOOLEAN]] /\ rw[d].buf \in BOOLEAN
        BY <2>1 DEF TypeOK, Progress
      <4>2. written \in [Disk -> [Block -> BOOLEAN]]
        BY <4>1
      <4>3. content' \in {content, written}
        BY <2>5 DEF WriteBack
      <4> QED
        BY <4>1, <4>2, <4>3
    <3> QED
      BY <2>1, <2>5, <3>1 DEF WriteBack, process, TypeOK
  <2> QED
    BY <1>5, <2>2, <2>3, <2>4, <2>5 DEF Rewriter, Batch, Thaw, QuietStep
<1>6. CASE Crash \/ PowerCut
  <2>1. crashes' \in 0 .. MaxCrashes
    <3>1. crashes \in 0 .. MaxCrashes /\ crashes < MaxCrashes /\ crashes' = crashes + 1
      BY <1>6 DEF Crash, PowerCut, Dies, TypeOK
    <3> QED
      BY <3>1, RewriteAssumption
  <2>2. rw' \in [Disk -> Progress]
    BY <1>6, IdleType DEF Crash, PowerCut, Dies
  <2>3. guard' \in [Mount -> Guard]
    BY <1>6, GuardType DEF Crash, PowerCut, Dies
  <2> QED
    BY <1>6, <2>1, <2>2, <2>3 DEF Crash, PowerCut, Dies, device, TypeOK
<1>7. CASE Start \/ ThawLeftover \/ ClearLeftovers
  BY <1>7 DEF Start, ThawLeftover, ClearLeftovers, Up, Thawed, device, TypeOK
<1> QED
  BY <1>1, <1>2, <1>3, <1>4, <1>5, <1>6, <1>7 DEF Next

\* A step of one goroutine leaves the others where they are.
LEMMA OneSteps ==
  ASSUME TypeOK, NEW d \in Disk, NEW f, Step(d, f)
  PROVE  rw'[d] = f /\ \A e \in Disk \ {d} : rw'[e] = rw[e]
  BY DEF TypeOK, Step

LEMMA ShapeStep == TypeOK /\ Shape /\ [Next]_vars => Shape'
<1> SUFFICES ASSUME TypeOK, Shape, [Next]_vars, NEW e \in Disk PROVE ShapeOf(e)'
  BY DEF Shape
<1>0. ShapeOf(e) /\ rw[e] \in Progress
  BY DEF Shape, TypeOK
<1>1. CASE rw'[e] = rw[e]
  BY <1>0, <1>1 DEF ShapeOf
<1>2. CASE UNCHANGED rw
  BY <1>1, <1>2
<1>3. CASE Crash \/ PowerCut
  BY <1>3 DEF Crash, PowerCut, Dies, ShapeOf, Idle
<1>4. CASE Rewriter(e)
  <2> USE <1>0 DEF At, MarkedPc
  <2>1. CASE ListMounts(e)
    <3>1. rw'[e] = [Idle EXCEPT !.pc = "open", !.mounts = OnDisk(e)]
      BY <2>1, OneSteps DEF ListMounts
    <3> QED
      BY <3>1 DEF ShapeOf, Idle, OnDisk, TypeOK
  <2>2. CASE Open(e) \/ Top(e) \/ SaveFreezeMarker(e) \/ After(e)
    <3>1. \/ rw'[e] = Idle
          \/ rw'[e] = [rw[e] EXCEPT !.pc = "top"]
          \/ rw'[e] = [rw[e] EXCEPT !.pc = "freeze"]
          \/ rw'[e] = [rw[e] EXCEPT !.some = FALSE, !.pc = "mark"]
          \/ rw'[e] = [rw[e] EXCEPT !.some = FALSE, !.pc = "batch"] /\ rw[e].mounts = {}
      BY <2>2, OneSteps DEF Open, Top, SaveFreezeMarker, After
    <3>2. rw[e].pc \in {"open", "top", "mark", "after"}
      BY <2>2 DEF Open, Top, SaveFreezeMarker, After
    <3>3. rw'[e] # Idle =>
            /\ rw'[e].pc \in {"top", "freeze", "mark", "batch"}
            /\ rw'[e].pc = "batch" => rw[e].mounts = {}
            /\ rw'[e].mounts = rw[e].mounts /\ rw'[e].guards = rw[e].guards
            /\ rw'[e].locked = rw[e].locked /\ rw'[e].freezing = rw[e].freezing
      BY <3>1 DEF Progress
    <3>4. CASE rw'[e] = Idle
      BY <3>4 DEF ShapeOf, Idle
    <3> QED
      BY <3>2, <3>3, <3>4 DEF ShapeOf
  <2>3. CASE Freeze(e) \/ AllFrozen(e)
    <3>1. /\ rw[e].pc = "freeze"
          /\ \/ \E m \in rw[e].mounts \ rw[e].guards :
                  rw'[e] = [rw[e] EXCEPT !.pc = "freezing", !.freezing = {m}]
             \/ rw[e].mounts = rw[e].guards /\ rw'[e] = [rw[e] EXCEPT !.pc = "batch"]
      BY <2>3, OneSteps DEF Freeze, AllFrozen
    <3>2. /\ rw'[e].mounts = rw[e].mounts /\ rw'[e].guards = rw[e].guards
          /\ rw'[e].locked = rw[e].locked
          /\ \/ /\ rw'[e].pc = "freezing"
                /\ \E m \in rw[e].mounts \ rw[e].guards : rw'[e].freezing = {m}
             \/ /\ rw'[e].pc = "batch" /\ rw[e].mounts = rw[e].guards
                /\ rw'[e].freezing = rw[e].freezing
      BY <3>1 DEF Progress
    <3> QED
      BY <3>1, <3>2 DEF ShapeOf
  <2>4. CASE FreezeReturns(e) \/ Settle(e)
    <3>1. /\ rw[e].pc \in {"freezing", "settle"}
          /\ \/ rw'[e] = [rw[e] EXCEPT !.pc = "settle"]
             \/ rw'[e] = [rw[e] EXCEPT !.pc = "thaw", !.freezing = {}, !.over = TRUE]
             \/ \E m \in rw[e].freezing :
                  rw'[e] = [rw[e] EXCEPT !.pc = "freeze", !.freezing = {}, !.guards = @ \cup {m}]
      BY <2>4, OneSteps DEF FreezeReturns, Settle
    <3>2. /\ rw'[e].mounts = rw[e].mounts /\ rw'[e].locked = rw[e].locked
          /\ \/ /\ rw'[e].pc = "settle"
                /\ rw'[e].freezing = rw[e].freezing /\ rw'[e].guards = rw[e].guards
             \/ /\ rw'[e].pc = "thaw"
                /\ rw'[e].freezing = {} /\ rw'[e].guards = rw[e].guards
             \/ /\ rw'[e].pc = "freeze" /\ rw'[e].freezing = {}
                /\ \E m \in rw[e].freezing : rw'[e].guards = rw[e].guards \cup {m}
      BY <3>1 DEF Progress
    <3> QED
      BY <3>1, <3>2 DEF ShapeOf
  <2>5. CASE NextBlock(e)
    <3>1. /\ rw[e].pc = "batch"
          /\ \/ rw[e].next <= Slow /\ rw'[e] = [rw[e] EXCEPT !.pc = "lock"]
             \/ rw'[e] = [rw[e] EXCEPT !.pc = "thaw"]
             \/ rw'[e] = [rw[e] EXCEPT !.pc = "thaw", !.over = TRUE]
      BY <2>5, OneSteps DEF NextBlock
    <3> QED
      BY <3>1 DEF ShapeOf, Progress
  <2>6. CASE Lock(e) \/ Read(e) \/ WriteBack(e)
    <3>1. /\ rw[e].pc \in {"lock", "write"}
          /\ \/ rw'[e] = [rw[e] EXCEPT !.pc = "thaw", !.locked = {}, !.over = TRUE]
             \/ rw[e].pc = "lock" /\ \E m \in rw[e].guards \ rw[e].locked :
                  rw'[e] = [rw[e] EXCEPT !.locked = @ \cup {m}]
             \/ /\ rw[e].locked = rw[e].guards
                /\ rw'[e] = [rw[e] EXCEPT !.pc = "write", !.buf = content[e][rw[e].next]]
             \/ rw'[e] = Advance(rw[e])
      <4>1. CASE Lock(e)
        <5>1. rw[e].pc = "lock"
          BY <4>1 DEF Lock
        <5>2. PICK m \in rw[e].guards \ rw[e].locked :
                \/ Step(e, [rw[e] EXCEPT !.pc = "thaw", !.locked = {}, !.over = TRUE])
                \/ Step(e, [rw[e] EXCEPT !.locked = @ \cup {m}])
          BY <4>1 DEF Lock
        <5> QED
          BY <5>1, <5>2, OneSteps
      <4>2. CASE Read(e)
        BY <4>2, OneSteps DEF Read
      <4>3. CASE WriteBack(e)
        BY <4>3, OneSteps DEF WriteBack
      <4> QED
        BY <2>6, <4>1, <4>2, <4>3
    <3>2. /\ rw'[e].mounts = rw[e].mounts /\ rw'[e].guards = rw[e].guards
          /\ rw'[e].freezing = rw[e].freezing
          /\ \/ rw'[e].pc \in {"thaw", "batch"} /\ rw'[e].locked = {}
             \/ /\ rw[e].pc = "lock" /\ rw'[e].pc = "lock" /\ rw'[e].next = rw[e].next
                /\ \E m \in rw[e].guards : rw'[e].locked = rw[e].locked \cup {m}
             \/ /\ rw'[e].pc = "write" /\ rw'[e].next = rw[e].next
                /\ rw'[e].locked = rw[e].locked /\ rw[e].locked = rw[e].guards
      BY <3>1 DEF Progress, Advance
    <3> QED
      BY <3>1, <3>2 DEF ShapeOf
  <2>7. CASE Release(e) \/ ClearFreezeMarker(e)
    <3>1. /\ rw[e].pc = "thaw"
          /\ \/ \E m \in rw[e].guards :
                  rw'[e] = [rw[e] EXCEPT !.guards = @ \ {m},
                                         !.over = @ \/ guard[m].tripped \/ m \in frozen']
             \/ rw[e].guards = {} /\ rw'[e] = [rw[e] EXCEPT !.pc = "after"]
             \/ rw[e].guards = {} /\ rw'[e] = [rw[e] EXCEPT !.pc = "after", !.over = TRUE]
      BY <2>7, OneSteps DEF Release, ClearFreezeMarker, AllThawed
    <3>2. /\ rw'[e].mounts = rw[e].mounts /\ rw'[e].locked = rw[e].locked
          /\ rw'[e].freezing = rw[e].freezing
          /\ \/ /\ rw'[e].pc = "thaw"
                /\ \E m \in rw[e].guards : rw'[e].guards = rw[e].guards \ {m}
             \/ /\ rw'[e].pc = "after"
                /\ rw[e].guards = {} /\ rw'[e].guards = {}
      BY <3>1 DEF Progress
    <3> QED
      BY <3>1, <3>2 DEF ShapeOf
  <2> QED
    BY <1>4, <2>1, <2>2, <2>3, <2>4, <2>5, <2>6, <2>7 DEF Rewriter, Batch, Thaw
<1>5. CASE \E d \in Disk \ {e} : Rewriter(d)
  <2>1. PICK d \in Disk \ {e} : Rewriter(d)
    BY <1>5
  <2>2. \E f : Step(d, f)
    BY <2>1 DEF Rewriter, Batch, Thaw, ListMounts, Open, Top, SaveFreezeMarker, Freeze, AllFrozen,
       FreezeReturns, Settle, NextBlock, Lock, Read, WriteBack, Release, ClearFreezeMarker, After
  <2> QED
    BY <1>1, <2>2, OneSteps
<1> QED
  BY <1>2, <1>3, <1>4, <1>5 DEF Next, vars, MountFs, UnmountFs, Watchdog, FsWrite, Start,
     ThawLeftover, ClearLeftovers

\* Guards, and the death of the process.
LEMMA GuardsStep == Inv /\ [Next]_vars => Guards'
<1> SUFFICES ASSUME TypeOK, Shape, Guards, [Next]_vars, NEW m \in Mount PROVE GuardOf(m)'
  BY DEF Inv, Guards
<1>0. PICK d \in Disk : /\ d = DiskOf[m] /\ GuardOf(m) /\ ShapeOf(d)
                         /\ rw[d] \in Progress /\ guard[m] \in Guard
  BY RewriteAssumption DEF Guards, Shape, TypeOK
<1>1. CASE guard'[m] = guard[m] /\ rw'[d] = rw[d]
  <2>1. rw'[DiskOf[m]] = rw[DiskOf[m]] /\ guard'[m] = guard[m] /\ GuardOf(m)
    BY <1>0, <1>1
  <2> QED
    BY <2>1 DEF GuardOf
<1>2. CASE Watchdog(m)
  <2>1. rw' = rw /\ m \notin rw[d].locked /\ guard'[m] = Fired(guard[m])
    BY <1>0, <1>2 DEF Watchdog, TypeOK
  <2>2. /\ guard'[m].tripped /\ guard'[m].hold = guard[m].hold
        /\ guard'[m].released = guard[m].hold
    BY <1>0, <2>1 DEF Fired, Guard
  <2> QED
    BY <1>0, <2>1, <2>2 DEF GuardOf
<1>3. CASE \E n \in Mount \ {m} : Watchdog(n)
  BY <1>1, <1>3 DEF Watchdog, TypeOK
<1>4. CASE Crash \/ PowerCut
  BY <1>0, <1>4 DEF Crash, PowerCut, Dies, GuardOf, NoGuard, Idle
<1>5. CASE Rewriter(d)
  <2> USE <1>0
  <2>1. CASE ListMounts(d) \/ Open(d) \/ Top(d) \/ AllFrozen(d) \/ NextBlock(d) \/ After(d)
             \/ SaveFreezeMarker(d)
    <3>1. guard' = guard
      BY <2>1 DEF ListMounts, Open, Top, AllFrozen, NextBlock, After, SaveFreezeMarker
    <3>2. rw'[d].guards = rw[d].guards /\ rw'[d].locked = rw[d].locked
      <4>1. rw[d].guards = {} => rw[d].locked = {}
        BY DEF ShapeOf
      <4>2. rw[d].pc \in {"idle", "open", "top", "mark", "after"} => rw[d].guards = {}
        BY DEF ShapeOf, MarkedPc
      <4>3. Idle.guards = {} /\ Idle.locked = {}
        BY DEF Idle
      <4>4. CASE ListMounts(d)
        <5>1. rw'[d] = [Idle EXCEPT !.pc = "open", !.mounts = OnDisk(d)] /\ rw[d].pc = "idle"
          BY <4>4, OneSteps DEF ListMounts, At
        <5> QED
          BY <5>1, <4>1, <4>2 DEF Idle
      <4>5. CASE \E pc \in Pc : \/ rw'[d] = [rw[d] EXCEPT !.pc = pc]
                                 \/ rw'[d] = [rw[d] EXCEPT !.pc = pc, !.over = TRUE]
                                 \/ rw'[d] = [rw[d] EXCEPT !.some = FALSE, !.pc = pc]
        BY <4>5 DEF Progress
      <4>6. CASE rw'[d] = Idle /\ rw[d].pc \in {"open", "top", "mark", "after"}
        BY <4>1, <4>2, <4>3, <4>6
      <4>7. CASE Open(d) \/ Top(d) \/ After(d) \/ SaveFreezeMarker(d)
        <5>1. \/ rw'[d] = Idle
              \/ rw'[d] = [rw[d] EXCEPT !.pc = "top"]
              \/ rw'[d] = [rw[d] EXCEPT !.some = FALSE, !.pc = "batch"]
              \/ rw'[d] = [rw[d] EXCEPT !.some = FALSE, !.pc = "mark"]
              \/ rw'[d] = [rw[d] EXCEPT !.pc = "freeze"]
          BY <4>7, OneSteps DEF Open, Top, After, SaveFreezeMarker
        <5>2. rw[d].pc \in {"open", "top", "mark", "after"}
          BY <4>7 DEF Open, Top, After, SaveFreezeMarker, At
        <5> QED
          BY <5>1, <5>2, <4>5, <4>6 DEF Pc
      <4>8. CASE AllFrozen(d) \/ NextBlock(d)
        <5>1. \/ rw'[d] = [rw[d] EXCEPT !.pc = "batch"]
              \/ rw'[d] = [rw[d] EXCEPT !.pc = "lock"]
              \/ rw'[d] = [rw[d] EXCEPT !.pc = "thaw"]
              \/ rw'[d] = [rw[d] EXCEPT !.pc = "thaw", !.over = TRUE]
          BY <4>8, OneSteps DEF AllFrozen, NextBlock
        <5> QED
          BY <5>1, <4>5 DEF Pc
      <4> QED
        BY <2>1, <4>4, <4>7, <4>8
    <3> QED
      BY <3>1, <3>2 DEF GuardOf
  <2>2. CASE Freeze(d)
    <3>1. PICK n \in rw[d].mounts \ rw[d].guards :
            /\ guard' = [guard EXCEPT ![n] = NewGuard]
            /\ Step(d, [rw[d] EXCEPT !.pc = "freezing", !.freezing = {n}])
      BY <2>2 DEF Freeze
    <3>2. rw'[d].guards = rw[d].guards /\ rw'[d].locked = rw[d].locked
      <4>1. rw'[d] = [rw[d] EXCEPT !.pc = "freezing", !.freezing = {n}]
        BY <3>1, OneSteps
      <4> QED
        BY <4>1 DEF Progress
    <3>3. guard'[m] = IF n = m THEN NewGuard ELSE guard[m]
      BY <3>1 DEF TypeOK
    <3> QED
      BY <3>2, <3>3 DEF GuardOf, NewGuard, NoGuard, ShapeOf
  <2>3. CASE FreezeReturns(d)
    <3>1. PICK n \in rw[d].freezing :
            /\ guard' \in {guard, [guard EXCEPT ![n] = NoGuard]}
            /\ \/ Step(d, [rw[d] EXCEPT !.pc = "settle"])
               \/ Step(d, [rw[d] EXCEPT !.pc = "thaw", !.freezing = {}, !.over = TRUE])
      BY <2>3 DEF FreezeReturns
    <3>2. rw'[d].guards = rw[d].guards /\ rw'[d].locked = rw[d].locked
      <4>1. \/ rw'[d] = [rw[d] EXCEPT !.pc = "settle"]
            \/ rw'[d] = [rw[d] EXCEPT !.pc = "thaw", !.freezing = {}, !.over = TRUE]
        BY <3>1, OneSteps
      <4> QED
        BY <4>1 DEF Progress
    <3>3. guard'[m] = guard[m] \/ (n = m /\ guard'[m] = NoGuard)
      BY <3>1 DEF TypeOK
    <3> QED
      BY <3>2, <3>3 DEF GuardOf, NoGuard, ShapeOf
  <2>4. CASE Settle(d)
    <3>1. PICK n \in rw[d].freezing :
            \/ /\ guard' = [guard EXCEPT ![n] = NoGuard]
               /\ Step(d, [rw[d] EXCEPT !.pc = "thaw", !.freezing = {}, !.over = TRUE])
            \/ /\ ~guard[n].tripped
               /\ guard' = [guard EXCEPT ![n].hold = TRUE]
               /\ Step(d, [rw[d] EXCEPT !.pc = "freeze", !.freezing = {}, !.guards = @ \cup {n}])
      BY <2>4 DEF Settle, Lost
    <3>2. n \in Mount /\ n \notin rw[d].guards
      BY DEF ShapeOf
    <3>3. /\ rw'[d].locked = rw[d].locked
          /\ \/ rw'[d].guards = rw[d].guards /\ guard' = [guard EXCEPT ![n] = NoGuard]
             \/ /\ rw'[d].guards = rw[d].guards \cup {n} /\ ~guard[n].tripped
                /\ guard' = [guard EXCEPT ![n].hold = TRUE]
      <4>1. \/ /\ guard' = [guard EXCEPT ![n] = NoGuard]
               /\ rw'[d] = [rw[d] EXCEPT !.pc = "thaw", !.freezing = {}, !.over = TRUE]
            \/ /\ ~guard[n].tripped
               /\ guard' = [guard EXCEPT ![n].hold = TRUE]
               /\ rw'[d] = [rw[d] EXCEPT !.pc = "freeze", !.freezing = {}, !.guards = @ \cup {n}]
        BY <3>1, OneSteps
      <4> QED
        BY <4>1 DEF Progress
    <3>4. CASE n # m
      BY <3>2, <3>3, <3>4 DEF GuardOf, TypeOK
    <3>5. CASE n = m
      <4>1. \/ guard'[m] = NoGuard /\ rw'[d].guards = rw[d].guards
            \/ /\ guard'[m] = [guard[m] EXCEPT !.hold = TRUE] /\ ~guard[m].tripped
               /\ m \in rw'[d].guards
        BY <3>3, <3>5 DEF TypeOK
      <4>2. m \notin rw[d].guards /\ m \notin rw[d].locked /\ ~guard[m].released
        BY <3>2, <3>5 DEF ShapeOf, GuardOf
      <4> QED
        BY <3>3, <4>1, <4>2 DEF GuardOf, NoGuard, Guard
    <3> QED
      BY <3>4, <3>5
  <2>5. CASE Lock(d)
    <3>1. PICK n \in rw[d].guards \ rw[d].locked :
            IF Refuses(guard[n])
            THEN Step(d, [rw[d] EXCEPT !.pc = "thaw", !.locked = {}, !.over = TRUE])
            ELSE Step(d, [rw[d] EXCEPT !.locked = @ \cup {n}])
      BY <2>5 DEF Lock
    <3>2. guard' = guard
      BY <2>5 DEF Lock
    <3>3. /\ rw'[d].guards = rw[d].guards
          /\ \/ rw'[d].locked = {}
             \/ rw'[d].locked = rw[d].locked \cup {n} /\ ~guard[n].released
      <4>1. \/ rw'[d] = [rw[d] EXCEPT !.pc = "thaw", !.locked = {}, !.over = TRUE]
            \/ rw'[d] = [rw[d] EXCEPT !.locked = @ \cup {n}] /\ ~guard[n].released
        BY <3>1, OneSteps DEF Refuses
      <4> QED
        BY <4>1 DEF Progress
    <3> QED
      BY <3>2, <3>3 DEF GuardOf
  <2>6. CASE Read(d) \/ WriteBack(d)
    <3>1. guard' = guard
      BY <2>6 DEF Read, WriteBack
    <3>2. \/ rw'[d] = [rw[d] EXCEPT !.pc = "write", !.buf = content[d][rw[d].next]]
          \/ rw'[d] = [rw[d] EXCEPT !.pc = "thaw", !.locked = {}, !.over = TRUE]
          \/ rw'[d] = Advance(rw[d])
      BY <2>6, OneSteps DEF Read, WriteBack
    <3>3. rw'[d].guards = rw[d].guards /\ rw'[d].locked \in {{}, rw[d].locked}
      BY <3>2 DEF Progress, Advance
    <3> QED
      BY <3>1, <3>3 DEF GuardOf
  <2>7. CASE Release(d)
    <3>1. PICK n \in rw[d].guards :
            /\ guard' = [guard EXCEPT ![n] = NoGuard]
            /\ Step(d, [rw[d] EXCEPT !.guards = @ \ {n},
                                     !.over = @ \/ guard[n].tripped \/ n \in frozen'])
      BY <2>7 DEF Release
    <3>2. rw'[d].guards = rw[d].guards \ {n} /\ rw'[d].locked = rw[d].locked
      <4>1. rw'[d] = [rw[d] EXCEPT !.guards = @ \ {n},
                                   !.over = @ \/ guard[n].tripped \/ n \in frozen']
        BY <3>1, OneSteps
      <4> QED
        BY <4>1 DEF Progress
    <3>3. rw[d].locked = {}
      BY <2>7 DEF Release, ShapeOf, At
    <3>4. guard'[m] = IF n = m THEN NoGuard ELSE guard[m]
      BY <3>1 DEF TypeOK
    <3> QED
      BY <3>2, <3>3, <3>4 DEF GuardOf, NoGuard
  <2>8. CASE ClearFreezeMarker(d)
    <3>1. /\ guard' = guard
          /\ \/ rw'[d] = [rw[d] EXCEPT !.pc = "after"]
             \/ rw'[d] = [rw[d] EXCEPT !.pc = "after", !.over = TRUE]
      BY <2>8, OneSteps DEF ClearFreezeMarker
    <3>2. rw'[d].guards = rw[d].guards /\ rw'[d].locked = rw[d].locked
      BY <3>1 DEF Progress
    <3> QED
      BY <3>1, <3>2 DEF GuardOf
  <2> QED
    BY <1>5, <2>1, <2>2, <2>3, <2>4, <2>5, <2>6, <2>7, <2>8 DEF Rewriter, Batch, Thaw
<1>6. CASE \E e \in Disk \ {d} : Rewriter(e)
  <2>1. PICK e \in Disk \ {d} : Rewriter(e)
    BY <1>6
  <2>2. rw'[d] = rw[d]
    <3>1. \E f : Step(e, f)
      BY <2>1 DEF Rewriter, Batch, Thaw, ListMounts, Open, Top, SaveFreezeMarker, Freeze, AllFrozen,
         FreezeReturns, Settle, NextBlock, Lock, Read, WriteBack, Release, ClearFreezeMarker, After
    <3> QED
      BY <3>1, OneSteps
  <2>3. m \notin rw[e].mounts /\ m \notin rw[e].guards /\ m \notin rw[e].freezing
    BY <1>0 DEF Shape, ShapeOf
  <2>4. guard'[m] = guard[m]
    <3>1. CASE guard' = guard
      BY <3>1
    <3>2. CASE Freeze(e) \/ FreezeReturns(e) \/ Settle(e) \/ Release(e)
      BY <2>3, <3>2 DEF Freeze, FreezeReturns, Settle, Release, TypeOK
    <3> QED
      BY <2>1, <3>1, <3>2 DEF Rewriter, Batch, Thaw, ListMounts, Open, Top, SaveFreezeMarker,
         AllFrozen, NextBlock, Lock, Read, WriteBack, ClearFreezeMarker, After
  <2> QED
    BY <1>1, <2>2, <2>4
<1> QED
  <2>1. CASE UNCHANGED <<rw, guard>>
    BY <1>1, <2>1
  <2> QED
    BY <2>1, <1>2, <1>3, <1>4, <1>5, <1>6 DEF Next, vars, MountFs, UnmountFs, FsWrite, Start,
       ThawLeftover, ClearLeftovers

LEMMA DeadStep == Inv /\ [Next]_vars => Dead'
<1> SUFFICES ASSUME Inv, [Next]_vars PROVE Dead'
  OBVIOUS
<1>1. CASE Crash \/ PowerCut
  BY <1>1 DEF Crash, PowerCut, Dies, Dead, Running
<1>2. CASE Start \/ ThawLeftover \/ ClearLeftovers
  BY <1>2 DEF Start, ThawLeftover, ClearLeftovers, Inv, Dead, Running, TypeOK
<1>3. CASE Running /\ UNCHANGED daemon
  BY <1>3 DEF Dead, Running
<1>4. CASE UNCHANGED <<rw, guard, daemon>>
  BY <1>4 DEF Inv, Dead, Running
<1>5. ASSUME NEW d \in Disk, Rewriter(d) PROVE Running /\ UNCHANGED daemon
  <2>1. CASE QuietStep(d)
    BY <2>1, QuietSteps DEF QuietStep, ListMounts, Open, Top, AllFrozen, NextBlock, Lock, Read, After
  <2> QED
    BY <1>5, <2>1 DEF Rewriter, Batch, Thaw, QuietStep, SaveFreezeMarker, Freeze, FreezeReturns,
       Settle, WriteBack, Release, ClearFreezeMarker, Quiet, process
<1> QED
  BY <1>1, <1>2, <1>3, <1>4, <1>5 DEF Next, vars, MountFs, UnmountFs, FsWrite, Watchdog,
     Quiet, process

\* The types, and where goroutines, guards and the process stand.
THEOREM RewriteTypes == Spec => [](TypeOK /\ Inv)
<1>1. Inv /\ [Next]_vars => Inv'
  BY TypeStep, ShapeStep, GuardsStep, DeadStep DEF Inv
<1> QED
  BY <1>1, InvInit, PTL DEF Spec, Inv

-----------------------------------------------------------------------------
(***************************************************************************)
(* What the freeze is for: no write of a filesystem is undone.  It relies  *)
(* on the rewriter's list of mounts staying right while it has one.        *)
(***************************************************************************)

NoLateMount == "mount_mid_phase" \notin Faults

\* Whatever is mounted is on the list for as long as the rewriter goes by it.
ListedOn(d) ==
  rw[d].mounts # {} \/ rw[d].pc \notin {"idle", "open"} => OnDisk(d) \subseteq rw[d].mounts
Listed == \A d \in Disk : ListedOn(d)

\* A hold that has not been released holds, and so does a Freeze that has
\* returned and not been settled.
Settling(m) == rw[DiskOf[m]].pc = "settle" /\ m \in rw[DiskOf[m]].freezing
HeldOf(m) == Holds(m) \/ Settling(m) => m \in frozen
HeldFrozen == \A m \in Mount : HeldOf(m)

\* What is in the buffer is what is on the medium.
BufferOf(d) == rw[d].pc = "write" => rw[d].buf = content[d][rw[d].next]
Buffered == \A d \in Disk : BufferOf(d)

LossInv == Inv /\ Listed /\ HeldFrozen /\ Buffered /\ NothingLost

\* Only ListMounts makes a list; after it the goroutine keeps it or is idle.
LEMMA MountsKept ==
  ASSUME TypeOK, NEW d \in Disk, Rewriter(d), ~ListMounts(d)
  PROVE  \/ rw'[d] = Idle
         \/ /\ rw'[d].mounts = rw[d].mounts
            /\ rw[d].pc # "idle"
            /\ rw[d].pc = "open" => rw[d].mounts # {} \/ OnDisk(d) = {}
<1>0. rw[d] \in Progress
  BY DEF TypeOK
<1>1. CASE Open(d)
  <2>1. \/ rw'[d] = Idle
        \/ rw'[d] = [rw[d] EXCEPT !.pc = "top"] /\ (rw[d].mounts # {} \/ OnDisk(d) = {})
    BY <1>1, OneSteps DEF Open
  <2> QED
    BY <1>0, <1>1, <2>1 DEF Open, At, Progress
<1>2. rw[d].pc = "idle" \/ rw[d].pc = "open" => ListMounts(d) \/ Open(d)
  BY DEF Rewriter, Batch, Thaw, At, Top, SaveFreezeMarker, Freeze, AllFrozen, FreezeReturns,
     Settle, NextBlock, Lock, Read, WriteBack, Release, ClearFreezeMarker, After
<1>3. ~Open(d) => rw'[d] = Idle \/ rw'[d].mounts = rw[d].mounts
  <2>1. CASE Top(d) \/ AllFrozen(d) \/ NextBlock(d) \/ After(d) \/ SaveFreezeMarker(d)
             \/ ClearFreezeMarker(d)
    <3>1. \/ rw'[d] = Idle
          \/ \E pc \in Pc : \/ rw'[d] = [rw[d] EXCEPT !.pc = pc]
                            \/ rw'[d] = [rw[d] EXCEPT !.pc = pc, !.over = TRUE]
                            \/ rw'[d] = [rw[d] EXCEPT !.some = FALSE, !.pc = pc]
      BY <2>1, OneSteps DEF Top, AllFrozen, NextBlock, After, SaveFreezeMarker,
         ClearFreezeMarker, Pc
    <3> QED
      BY <1>0, <3>1 DEF Progress
  <2>2. CASE Freeze(d) \/ FreezeReturns(d)
    <3>1. \/ \E m : rw'[d] = [rw[d] EXCEPT !.pc = "freezing", !.freezing = {m}]
          \/ rw'[d] = [rw[d] EXCEPT !.pc = "settle"]
          \/ rw'[d] = [rw[d] EXCEPT !.pc = "thaw", !.freezing = {}, !.over = TRUE]
      BY <2>2, OneSteps DEF Freeze, FreezeReturns
    <3> QED
      BY <1>0, <3>1 DEF Progress
  <2>3. CASE Settle(d)
    <3>1. \/ rw'[d] = [rw[d] EXCEPT !.pc = "thaw", !.freezing = {}, !.over = TRUE]
          \/ \E m : rw'[d] = [rw[d] EXCEPT !.pc = "freeze", !.freezing = {},
                                           !.guards = @ \cup {m}]
      BY <2>3, OneSteps DEF Settle
    <3> QED
      BY <1>0, <3>1 DEF Progress
  <2>4. CASE Lock(d)
    <3>1. PICK m : \/ Step(d, [rw[d] EXCEPT !.pc = "thaw", !.locked = {}, !.over = TRUE])
                   \/ Step(d, [rw[d] EXCEPT !.locked = @ \cup {m}])
      BY <2>4 DEF Lock
    <3>2. \/ rw'[d] = [rw[d] EXCEPT !.pc = "thaw", !.locked = {}, !.over = TRUE]
          \/ rw'[d] = [rw[d] EXCEPT !.locked = @ \cup {m}]
      BY <3>1, OneSteps
    <3> QED
      BY <1>0, <3>2 DEF Progress
  <2>5. CASE Read(d) \/ WriteBack(d)
    <3>1. \/ rw'[d] = [rw[d] EXCEPT !.pc = "write", !.buf = content[d][rw[d].next]]
          \/ rw'[d] = Advance(rw[d])
          \/ rw'[d] = [rw[d] EXCEPT !.pc = "thaw", !.locked = {}, !.over = TRUE]
      BY <2>5, OneSteps DEF Read, WriteBack
    <3> QED
      BY <1>0, <3>1 DEF Progress, Advance
  <2>6. CASE Release(d)
    <3>1. PICK m : Step(d, [rw[d] EXCEPT !.guards = @ \ {m},
                                         !.over = @ \/ guard[m].tripped \/ m \in frozen'])
      BY <2>6 DEF Release
    <3>2. rw'[d] = [rw[d] EXCEPT !.guards = @ \ {m},
                                 !.over = @ \/ guard[m].tripped \/ m \in frozen']
      BY <3>1, OneSteps
    <3> QED
      BY <1>0, <3>2 DEF Progress
  <2> QED
    BY <2>1, <2>2, <2>3, <2>4, <2>5, <2>6 DEF Rewriter, Batch, Thaw
<1> QED
  BY <1>1, <1>2, <1>3 DEF Open, At, ListMounts

\* Nothing but mounting and unmounting changes what is mounted.
LEMMA MountedStep ==
  ASSUME TypeOK, [Next]_vars
  PROVE  mounted' = mounted \/ \E m \in Mount : MountFs(m) \/ UnmountFs(m)
<1>1. ASSUME NEW d \in Disk, Rewriter(d) PROVE mounted' = mounted
  <2>1. CASE QuietStep(d)
    BY <2>1, QuietSteps
  <2> QED
    BY <1>1, <2>1 DEF Rewriter, Batch, Thaw, QuietStep, SaveFreezeMarker, Freeze, FreezeReturns,
       Settle, WriteBack, Release, ClearFreezeMarker, Quiet, device
<1> QED
  BY <1>1 DEF Next, vars, FsWrite, Watchdog, Crash, PowerCut, Dies, Start, ThawLeftover,
     ClearLeftovers, Quiet, device

\* A disk's goroutine moves in its own steps, and when the process dies.
LEMMA RwStep ==
  ASSUME TypeOK, [Next]_vars, NEW d \in Disk
  PROVE  rw'[d] = rw[d] \/ rw'[d] = Idle \/ Rewriter(d)
<1>1. ASSUME NEW e \in Disk \ {d}, Rewriter(e) PROVE rw'[d] = rw[d]
  <2>1. \E f : Step(e, f)
    BY <1>1 DEF Rewriter, Batch, Thaw, ListMounts, Open, Top, SaveFreezeMarker, Freeze, AllFrozen,
       FreezeReturns, Settle, NextBlock, Lock, Read, WriteBack, Release, ClearFreezeMarker, After
  <2> QED
    BY <2>1, OneSteps
<1>2. CASE Crash \/ PowerCut
  BY <1>2 DEF Crash, PowerCut, Dies
<1>3. CASE UNCHANGED rw
  BY <1>3
<1> QED
  BY <1>1, <1>2, <1>3 DEF Next, vars, MountFs, UnmountFs, FsWrite, Watchdog, Start,
     ThawLeftover, ClearLeftovers

LEMMA ListedStep ==
  ASSUME NoLateMount, TypeOK, Listed, [Next]_vars
  PROVE  Listed'
<1> SUFFICES ASSUME NEW d \in Disk PROVE ListedOn(d)'
  BY DEF Listed
<1>0. ListedOn(d)
  BY DEF Listed
<1>1. CASE mounted' = mounted
  <2>1. OnDisk(d)' = OnDisk(d)
    BY <1>1 DEF OnDisk
  <2>2. CASE rw'[d] = rw[d]
    BY <1>0, <2>1, <2>2 DEF ListedOn
  <2>3. CASE rw'[d] = Idle
    BY <2>3 DEF ListedOn, Idle
  <2>4. CASE ListMounts(d)
    <3>1. rw'[d] = [Idle EXCEPT !.pc = "open", !.mounts = OnDisk(d)]
      BY <2>4, OneSteps DEF ListMounts
    <3> QED
      BY <2>1, <3>1 DEF ListedOn, Idle
  <2>5. CASE Rewriter(d) /\ ~ListMounts(d)
    BY <1>0, <2>1, <2>3, <2>5, MountsKept DEF ListedOn
  <2> QED
    BY <2>2, <2>3, <2>4, <2>5, RwStep
<1>2. ASSUME NEW m \in Mount, MountFs(m) \/ UnmountFs(m) PROVE ListedOn(d)'
  <2>1. rw' = rw
    BY <1>2 DEF MountFs, UnmountFs
  <2>2. CASE DiskOf[m] # d
    <3>1. OnDisk(d)' = OnDisk(d)
      BY <1>2, <2>2 DEF MountFs, UnmountFs, OnDisk
    <3> QED
      BY <1>0, <2>1, <3>1 DEF ListedOn
  <2>3. CASE DiskOf[m] = d
    <3>2. CASE MountFs(m)
      <4>1. rw[d].mounts = {} /\ rw[d].pc \in {"idle", "open"}
        BY <2>3, <3>2 DEF MountFs, Relied, Exclusive, NoLateMount
      <4> QED
        BY <2>1, <4>1 DEF ListedOn
    <3>3. CASE UnmountFs(m)
      <4>1. OnDisk(d)' \subseteq OnDisk(d)
        BY <3>3 DEF UnmountFs, OnDisk
      <4> QED
        BY <1>0, <2>1, <4>1 DEF ListedOn
    <3> QED
      BY <1>2, <3>2, <3>3
  <2> QED
    BY <2>2, <2>3
<1> QED
  BY <1>1, <1>2, MountedStep

\* A goroutine leaves the filesystems of other disks alone.
LEMMA OtherDisks ==
  ASSUME TypeOK, Shape, NEW d \in Disk, Rewriter(d), NEW n \in Mount, DiskOf[n] # d
  PROVE  guard'[n] = guard[n] /\ (n \in frozen' <=> n \in frozen)
<1>0. ShapeOf(d) /\ \A m \in rw[d].mounts : m # n
  BY DEF Shape, ShapeOf
<1>1. rw[d].guards \subseteq rw[d].mounts /\ rw[d].freezing \subseteq rw[d].mounts
  BY <1>0 DEF ShapeOf
<1>2. CASE QuietStep(d) \/ SaveFreezeMarker(d) \/ ClearFreezeMarker(d) \/ WriteBack(d)
  BY <1>2, QuietSteps DEF SaveFreezeMarker, ClearFreezeMarker, WriteBack
<1>3. CASE Freeze(d)
  <2>1. PICK m \in rw[d].mounts : guard' = [guard EXCEPT ![m] = NewGuard]
    BY <1>3 DEF Freeze
  <2> QED
    BY <1>0, <1>3, <2>1 DEF Freeze, TypeOK
<1>4. CASE FreezeReturns(d)
  <2>1. PICK m \in rw[d].freezing :
          \/ frozen' = frozen \cup {m} /\ guard' = guard
          \/ frozen' = frozen /\ guard' = [guard EXCEPT ![m] = NoGuard]
    BY <1>4 DEF FreezeReturns
  <2> QED
    BY <1>0, <1>1, <2>1 DEF TypeOK
<1>5. CASE Settle(d) \/ Release(d)
  <2>1. PICK m \in rw[d].mounts :
          /\ frozen' = frozen \/ frozen' = frozen \ {m}
          /\ \/ guard' = [guard EXCEPT ![m] = NoGuard]
             \/ guard' = [guard EXCEPT ![m].hold = TRUE]
    BY <1>1, <1>5 DEF Settle, Release, Thawed
  <2> QED
    BY <1>0, <2>1 DEF TypeOK
<1> QED
  BY <1>2, <1>3, <1>4, <1>5 DEF Rewriter, Batch, Thaw, QuietStep

\* What a watchdog does to a filesystem's guard and freeze.
LEMMA WatchdogStep ==
  ASSUME TypeOK, NEW m \in Mount, Watchdog(m)
  PROVE  /\ rw' = rw
         /\ \A n \in Mount \ {m} : guard'[n] = guard[n] /\ (n \in frozen' <=> n \in frozen)
         /\ guard'[m].hold = guard[m].hold /\ guard'[m].released = guard[m].hold
         /\ ~Holds(m) => frozen' = frozen
<1>1. guard[m] \in Guard /\ guard'[m] = Fired(guard[m])
  BY DEF Watchdog, TypeOK
<1>2. guard'[m].hold = guard[m].hold /\ guard'[m].released = guard[m].hold
  BY <1>1 DEF Fired, Guard
<1>3. frozen' = frozen \/ frozen' = frozen \ {m}
  BY DEF Watchdog, Thawed
<1>4. \A n \in Mount \ {m} : guard'[n] = guard[n] /\ (n \in frozen' <=> n \in frozen)
  BY <1>3 DEF Watchdog, TypeOK
<1> QED
  BY <1>2, <1>4 DEF Watchdog

LEMMA HeldStep ==
  ASSUME Inv, HeldFrozen, [Next]_vars
  PROVE  HeldFrozen'
<1> SUFFICES ASSUME NEW m \in Mount PROVE HeldOf(m)'
  BY DEF HeldFrozen
<1>0. PICK d \in Disk : /\ d = DiskOf[m] /\ TypeOK /\ Shape /\ GuardOf(m) /\ ShapeOf(d)
                         /\ HeldOf(m) /\ rw[d] \in Progress /\ guard[m] \in Guard
  BY RewriteAssumption DEF Inv, TypeOK, Guards, Shape, HeldFrozen
<1>1. CASE guard'[m] = guard[m] /\ rw'[d] = rw[d] /\ (m \in frozen' <=> m \in frozen)
  BY <1>0, <1>1 DEF HeldOf, Holds, Settling
<1>2. ASSUME NEW n \in Mount, Watchdog(n) PROVE HeldOf(m)'
  <2>1. CASE n # m
    BY <1>0, <1>1, <1>2, <2>1, WatchdogStep
  <2>2. CASE n = m
    <3>1. ~Holds(m)'
      BY <1>0, <1>2, <2>2, WatchdogStep DEF Holds
    <3>2. Settling(m) => ~Holds(m)
      BY <1>0 DEF Settling, Holds, ShapeOf, GuardOf
    <3> QED
      BY <1>0, <1>2, <2>2, <3>1, <3>2, WatchdogStep DEF HeldOf, Settling
  <2> QED
    BY <2>1, <2>2
<1>3. CASE ~Running'
  <2>1. rw'[d] = Idle /\ guard'[m] = NoGuard
    BY <1>0, <1>3, DeadStep DEF Dead, Inv
  <2> QED
    BY <1>0, <2>1 DEF HeldOf, Holds, Settling, Idle, NoGuard
<1>4. CASE Start \/ ClearLeftovers
  BY <1>1, <1>4 DEF Start, ClearLeftovers
<1>5. CASE Crash \/ PowerCut \/ ThawLeftover
  BY <1>3, <1>5 DEF Crash, PowerCut, Dies, ThawLeftover, Running, Inv, TypeOK
<1>6. CASE Rewriter(d)
  <2>0. HeldOf(m)' <=> (Holds(m) \/ Settling(m))' => m \in frozen'
    BY DEF HeldOf
  <2>1. CASE Freeze(d)
    <3>1. PICK k \in Mount : /\ guard' = [guard EXCEPT ![k] = NewGuard]
                             /\ Step(d, [rw[d] EXCEPT !.pc = "freezing", !.freezing = {k}])
      BY <1>0, <2>1 DEF Freeze, ShapeOf
    <3>2. rw'[d].pc = "freezing" /\ guard'[k].hold = FALSE
      <4>1. rw'[d] = [rw[d] EXCEPT !.pc = "freezing", !.freezing = {k}]
        BY <1>0, <3>1, OneSteps
      <4>2. guard'[k] = NewGuard
        BY <1>0, <3>1 DEF TypeOK
      <4> QED
        BY <1>0, <4>1, <4>2 DEF Progress, NewGuard, NoGuard
    <3>3. m # k => guard'[m] = guard[m]
      BY <1>0, <3>1 DEF TypeOK
    <3> QED
      BY <1>0, <2>0, <2>1, <3>2, <3>3 DEF Freeze, HeldOf, Holds, Settling
  <2>2. CASE FreezeReturns(d)
    <3>1. PICK k \in rw[d].freezing :
            \/ /\ frozen' = frozen \cup {k} /\ guard' = guard
               /\ Step(d, [rw[d] EXCEPT !.pc = "settle"])
            \/ /\ frozen' = frozen /\ guard' = [guard EXCEPT ![k] = NoGuard]
               /\ Step(d, [rw[d] EXCEPT !.pc = "thaw", !.freezing = {}, !.over = TRUE])
      BY <2>2 DEF FreezeReturns
    <3>2. k \in Mount /\ rw[d].freezing = {k}
      BY <1>0 DEF ShapeOf
    <3>3. CASE frozen' = frozen \cup {k} /\ guard' = guard
               /\ Step(d, [rw[d] EXCEPT !.pc = "settle"])
      <4>1. rw'[d].freezing = rw[d].freezing
        BY <1>0, <3>3, OneSteps DEF Progress
      <4> QED
        BY <1>0, <2>0, <3>2, <3>3, <4>1 DEF HeldOf, Holds, Settling
    <3>4. CASE frozen' = frozen /\ guard' = [guard EXCEPT ![k] = NoGuard]
               /\ Step(d, [rw[d] EXCEPT !.pc = "thaw", !.freezing = {}, !.over = TRUE])
      <4>1. rw'[d].freezing = {} /\ guard'[k].hold = FALSE
        <5>1. rw'[d] = [rw[d] EXCEPT !.pc = "thaw", !.freezing = {}, !.over = TRUE]
          BY <1>0, <3>4, OneSteps
        <5>2. guard'[k] = NoGuard
          BY <1>0, <3>2, <3>4 DEF TypeOK
        <5> QED
          BY <1>0, <5>1, <5>2 DEF Progress, NoGuard
      <4>2. m # k => guard'[m] = guard[m]
        BY <1>0, <3>2, <3>4 DEF TypeOK
      <4> QED
        BY <1>0, <2>0, <3>2, <3>4, <4>1, <4>2 DEF HeldOf, Holds, Settling
    <3> QED
      BY <3>1, <3>3, <3>4
  <2>3. CASE Settle(d)
    <3>1. PICK k \in rw[d].freezing :
            \/ /\ frozen' \in Thawed(k) /\ guard' = [guard EXCEPT ![k] = NoGuard]
               /\ Step(d, [rw[d] EXCEPT !.pc = "thaw", !.freezing = {}, !.over = TRUE])
            \/ /\ frozen' = frozen /\ guard' = [guard EXCEPT ![k].hold = TRUE]
               /\ Step(d, [rw[d] EXCEPT !.pc = "freeze", !.freezing = {},
                                        !.guards = @ \cup {k}])
      BY <2>3 DEF Settle
    <3>2. k \in Mount /\ DiskOf[k] = d /\ rw[d].pc = "settle"
      BY <1>0, <2>3 DEF ShapeOf, Settle, At
    <3>3. k \in frozen
      BY <3>2 DEF HeldFrozen, HeldOf, Settling
    <3>4. rw'[d].freezing = {}
      <4>1. \/ rw'[d] = [rw[d] EXCEPT !.pc = "thaw", !.freezing = {}, !.over = TRUE]
            \/ rw'[d] = [rw[d] EXCEPT !.pc = "freeze", !.freezing = {}, !.guards = @ \cup {k}]
        BY <1>0, <3>1, OneSteps
      <4> QED
        BY <1>0, <4>1 DEF Progress
    <3>5. m # k => guard'[m] = guard[m] /\ (m \in frozen' <=> m \in frozen)
      BY <1>0, <3>1, <3>2 DEF TypeOK, Thawed
    <3>6. frozen' = frozen \/ guard'[k].hold = FALSE
      BY <1>0, <3>1, <3>2 DEF TypeOK, NoGuard
    <3> QED
      BY <1>0, <2>0, <3>3, <3>4, <3>5, <3>6 DEF HeldOf, Holds, Settling
  <2>4. CASE Release(d)
    <3>1. PICK k \in rw[d].guards :
            /\ frozen' = frozen \/ frozen' = frozen \ {k}
            /\ guard' = [guard EXCEPT ![k] = NoGuard]
            /\ Step(d, [rw[d] EXCEPT !.guards = @ \ {k},
                                     !.over = @ \/ guard[k].tripped \/ k \in frozen'])
      BY <2>4 DEF Release, Thawed
    <3>2. k \in Mount /\ rw[d].freezing = {} /\ rw[d].pc = "thaw"
      BY <1>0, <2>4 DEF ShapeOf, Release, At
    <3>3. rw'[d].freezing = {}
      <4>1. rw'[d] = [rw[d] EXCEPT !.guards = @ \ {k},
                                   !.over = @ \/ guard[k].tripped \/ k \in frozen']
        BY <1>0, <3>1, OneSteps
      <4> QED
        BY <1>0, <3>2, <4>1 DEF Progress
    <3>4. m # k => guard'[m] = guard[m] /\ (m \in frozen' <=> m \in frozen)
      BY <1>0, <3>1, <3>2 DEF TypeOK
    <3>5. guard'[k].hold = FALSE
      BY <1>0, <3>1, <3>2 DEF TypeOK, NoGuard
    <3> QED
      BY <1>0, <2>0, <3>3, <3>4, <3>5 DEF HeldOf, Holds, Settling
  <2>5. CASE QuietStep(d) \/ SaveFreezeMarker(d) \/ ClearFreezeMarker(d) \/ WriteBack(d)
    <3>1. guard' = guard /\ frozen' = frozen
      <4>1. CASE QuietStep(d)
        BY <4>1, QuietSteps
      <4> QED
        BY <2>5, <4>1 DEF SaveFreezeMarker, ClearFreezeMarker, WriteBack
    <3>2. rw[d].pc \notin {"freezing", "settle"}
      BY <2>5 DEF QuietStep, ListMounts, Open, Top, AllFrozen, NextBlock, Lock, Read, After,
         SaveFreezeMarker, ClearFreezeMarker, WriteBack, At
    <3>3. rw[d].freezing = {}
      BY <1>0, <3>2 DEF ShapeOf
    <3>4. rw'[d] = Idle \/ rw'[d].pc # "settle"
      <4>1. CASE ListMounts(d)
        <5>1. rw'[d] = [Idle EXCEPT !.pc = "open", !.mounts = OnDisk(d)]
          BY <1>0, <4>1, OneSteps DEF ListMounts
        <5> QED
          BY <5>1 DEF Idle
      <4>2. CASE Open(d) \/ Top(d) \/ AllFrozen(d) \/ NextBlock(d) \/ After(d)
                 \/ SaveFreezeMarker(d) \/ ClearFreezeMarker(d)
        <5>1. \/ rw'[d] = Idle
              \/ rw'[d] = [rw[d] EXCEPT !.pc = "top"]
              \/ rw'[d] = [rw[d] EXCEPT !.some = FALSE, !.pc = "mark"]
              \/ rw'[d] = [rw[d] EXCEPT !.some = FALSE, !.pc = "batch"]
              \/ rw'[d] = [rw[d] EXCEPT !.pc = "freeze"]
              \/ rw'[d] = [rw[d] EXCEPT !.pc = "batch"]
              \/ rw'[d] = [rw[d] EXCEPT !.pc = "lock"]
              \/ rw'[d] = [rw[d] EXCEPT !.pc = "thaw"]
              \/ rw'[d] = [rw[d] EXCEPT !.pc = "thaw", !.over = TRUE]
              \/ rw'[d] = [rw[d] EXCEPT !.pc = "after"]
              \/ rw'[d] = [rw[d] EXCEPT !.pc = "after", !.over = TRUE]
          <6>1. CASE Open(d) \/ Top(d) \/ After(d)
            BY <1>0, <6>1, OneSteps DEF Open, Top, After
          <6>2. CASE SaveFreezeMarker(d) \/ AllFrozen(d)
            BY <1>0, <6>2, OneSteps DEF SaveFreezeMarker, AllFrozen
          <6>3. CASE NextBlock(d) \/ ClearFreezeMarker(d)
            BY <1>0, <6>3, OneSteps DEF NextBlock, ClearFreezeMarker
          <6> QED
            BY <4>2, <6>1, <6>2, <6>3
        <5> QED
          BY <1>0, <5>1 DEF Progress
      <4>3. CASE Lock(d)
        <5>1. PICK k : \/ Step(d, [rw[d] EXCEPT !.pc = "thaw", !.locked = {}, !.over = TRUE])
                       \/ Step(d, [rw[d] EXCEPT !.locked = @ \cup {k}])
          BY <4>3 DEF Lock
        <5>2. \/ rw'[d] = [rw[d] EXCEPT !.pc = "thaw", !.locked = {}, !.over = TRUE]
              \/ rw'[d] = [rw[d] EXCEPT !.locked = @ \cup {k}]
          BY <1>0, <5>1, OneSteps
        <5> QED
          BY <1>0, <3>2, <5>2 DEF Progress
      <4>4. CASE Read(d) \/ WriteBack(d)
        <5>1. \/ rw'[d] = [rw[d] EXCEPT !.pc = "write", !.buf = content[d][rw[d].next]]
              \/ rw'[d] = Advance(rw[d])
              \/ rw'[d] = [rw[d] EXCEPT !.pc = "thaw", !.locked = {}, !.over = TRUE]
          BY <1>0, <4>4, OneSteps DEF Read, WriteBack
        <5> QED
          BY <1>0, <5>1 DEF Progress, Advance
      <4> QED
        BY <2>5, <4>1, <4>2, <4>3, <4>4 DEF QuietStep
    <3> QED
      BY <1>0, <2>0, <3>1, <3>4 DEF HeldOf, Holds, Settling, Idle
  <2> QED
    BY <1>6, <2>1, <2>2, <2>3, <2>4, <2>5 DEF Rewriter, Batch, Thaw, QuietStep
<1>7. ASSUME NEW e \in Disk, e # d, Rewriter(e) PROVE HeldOf(m)'
  <2>1. rw'[d] = rw[d]
    <3>1. \E f : Step(e, f)
      BY <1>7 DEF Rewriter, Batch, Thaw, ListMounts, Open, Top, SaveFreezeMarker, Freeze, AllFrozen,
         FreezeReturns, Settle, NextBlock, Lock, Read, WriteBack, Release, ClearFreezeMarker, After
    <3> QED
      BY <1>0, <1>7, <3>1, OneSteps
  <2> QED
    BY <1>0, <1>1, <1>7, <2>1, OtherDisks
<1> QED
  BY <1>0, <1>1, <1>2, <1>4, <1>5, <1>6, <1>7 DEF Next, vars, MountFs, UnmountFs, FsWrite

\* Nothing but Read reaches the write.
LEMMA WriteOnlyAfterRead ==
  ASSUME TypeOK, NEW d \in Disk, Rewriter(d), ~Read(d)
  PROVE  rw'[d].pc # "write"
<1>0. rw[d] \in Progress /\ Idle.pc = "idle"
  BY DEF TypeOK, Idle
<1>1. CASE ListMounts(d)
  <2>1. rw'[d] = [Idle EXCEPT !.pc = "open", !.mounts = OnDisk(d)]
    BY <1>1, OneSteps DEF ListMounts
  <2> QED
    BY <2>1 DEF Idle
<1>2. CASE Open(d) \/ Top(d) \/ After(d)
  <2>1. \/ rw'[d] = Idle
        \/ rw'[d] = [rw[d] EXCEPT !.pc = "top"]
        \/ rw'[d] = [rw[d] EXCEPT !.some = FALSE, !.pc = "mark"]
        \/ rw'[d] = [rw[d] EXCEPT !.some = FALSE, !.pc = "batch"]
    BY <1>2, OneSteps DEF Open, Top, After
  <2> QED
    BY <1>0, <2>1 DEF Progress
<1>3. CASE SaveFreezeMarker(d) \/ AllFrozen(d)
  <2>1. \/ rw'[d] = Idle
        \/ rw'[d] = [rw[d] EXCEPT !.pc = "freeze"]
        \/ rw'[d] = [rw[d] EXCEPT !.pc = "batch"]
    BY <1>3, OneSteps DEF SaveFreezeMarker, AllFrozen
  <2> QED
    BY <1>0, <2>1 DEF Progress
<1>4. CASE NextBlock(d) \/ ClearFreezeMarker(d)
  <2>1. \E pc \in {"lock", "thaw", "after"} :
          \/ rw'[d] = [rw[d] EXCEPT !.pc = pc]
          \/ rw'[d] = [rw[d] EXCEPT !.pc = pc, !.over = TRUE]
    BY <1>4, OneSteps DEF NextBlock, ClearFreezeMarker
  <2> QED
    BY <1>0, <2>1 DEF Progress
<1>5. CASE Freeze(d) \/ FreezeReturns(d) \/ Settle(d)
  <2>1. PICK k : \/ Step(d, [rw[d] EXCEPT !.pc = "freezing", !.freezing = {k}])
                 \/ Step(d, [rw[d] EXCEPT !.pc = "settle"])
                 \/ Step(d, [rw[d] EXCEPT !.pc = "thaw", !.freezing = {}, !.over = TRUE])
                 \/ Step(d, [rw[d] EXCEPT !.pc = "freeze", !.freezing = {}, !.guards = @ \cup {k}])
    BY <1>5 DEF Freeze, FreezeReturns, Settle
  <2>2. \/ rw'[d] = [rw[d] EXCEPT !.pc = "freezing", !.freezing = {k}]
        \/ rw'[d] = [rw[d] EXCEPT !.pc = "settle"]
        \/ rw'[d] = [rw[d] EXCEPT !.pc = "thaw", !.freezing = {}, !.over = TRUE]
        \/ rw'[d] = [rw[d] EXCEPT !.pc = "freeze", !.freezing = {}, !.guards = @ \cup {k}]
    BY <2>1, OneSteps
  <2> QED
    BY <1>0, <2>2 DEF Progress
<1>6. CASE Lock(d)
  <2>1. PICK k : \/ Step(d, [rw[d] EXCEPT !.pc = "thaw", !.locked = {}, !.over = TRUE])
                 \/ Step(d, [rw[d] EXCEPT !.locked = @ \cup {k}])
    BY <1>6 DEF Lock
  <2>2. \/ rw'[d] = [rw[d] EXCEPT !.pc = "thaw", !.locked = {}, !.over = TRUE]
        \/ rw'[d] = [rw[d] EXCEPT !.locked = @ \cup {k}]
    BY <2>1, OneSteps
  <2> QED
    BY <1>0, <1>6, <2>2 DEF Progress, Lock, At
<1>7. CASE WriteBack(d)
  <2>1. \/ rw'[d] = Advance(rw[d])
        \/ rw'[d] = [rw[d] EXCEPT !.pc = "thaw", !.locked = {}, !.over = TRUE]
    BY <1>7, OneSteps DEF WriteBack
  <2> QED
    BY <1>0, <2>1 DEF Progress, Advance
<1>8. CASE Release(d)
  <2>1. PICK k, o : Step(d, [rw[d] EXCEPT !.guards = @ \ {k}, !.over = o])
    BY <1>8 DEF Release
  <2>2. rw'[d] = [rw[d] EXCEPT !.guards = @ \ {k}, !.over = o]
    BY <2>1, OneSteps
  <2> QED
    BY <1>0, <1>8, <2>2 DEF Progress, Release, At
<1> QED
  BY <1>1, <1>2, <1>3, <1>4, <1>5, <1>6, <1>7, <1>8 DEF Rewriter, Batch, Thaw

\* A goroutine of another disk changes neither this disk's blocks nor its buffer.
LEMMA BufferStep ==
  ASSUME Inv, Listed, HeldFrozen, Buffered, [Next]_vars
  PROVE  Buffered'
<1> SUFFICES ASSUME NEW d \in Disk PROVE BufferOf(d)'
  BY DEF Buffered
<1>0. BufferOf(d) /\ ListedOn(d) /\ TypeOK /\ ShapeOf(d) /\ rw[d] \in Progress
  BY DEF Buffered, Listed, Inv, Shape, TypeOK
<1>1. CASE rw'[d] = rw[d] /\ content'[d] = content[d]
  BY <1>0, <1>1 DEF BufferOf
<1>2. CASE rw'[d].pc # "write"
  BY <1>2 DEF BufferOf
<1>3. ASSUME NEW m \in Mount, NEW b \in Block, FsWrite(m, b) PROVE BufferOf(d)'
  <2>1. rw' = rw
    BY <1>3 DEF FsWrite
  <2>2. CASE DiskOf[m] # d
    <3>1. content'[d] = content[d]
      BY <1>3, <2>2 DEF FsWrite, TypeOK
    <3> QED
      BY <1>1, <2>1, <3>1
  <2>3. CASE DiskOf[m] = d /\ rw[d].pc = "write"
    <3>1. m \in OnDisk(d)
      BY <1>3, <2>3 DEF FsWrite, OnDisk
    <3>2. m \in rw[d].guards /\ m \in rw[d].locked
      BY <1>0, <2>3, <3>1 DEF ListedOn, ShapeOf
    <3>3. Holds(m)
      BY <2>3, <3>2 DEF Inv, Guards, GuardOf, Holds
    <3>4. m \in frozen
      BY <3>3 DEF HeldFrozen, HeldOf
    <3> QED
      BY <1>3, <3>4 DEF FsWrite
  <2> QED
    BY <1>2, <2>1, <2>2, <2>3
<1>4. CASE Rewriter(d)
  <2>1. CASE Read(d)
    <3>1. \/ rw'[d] = [rw[d] EXCEPT !.pc = "write", !.buf = content[d][rw[d].next]]
          \/ rw'[d] = Advance(rw[d])
          \/ rw'[d] = [rw[d] EXCEPT !.pc = "thaw", !.locked = {}, !.over = TRUE]
      BY <1>0, <2>1, OneSteps DEF Read
    <3>2. content' = content
      BY <2>1, QuietSteps DEF QuietStep
    <3>3. CASE rw'[d] = [rw[d] EXCEPT !.pc = "write", !.buf = content[d][rw[d].next]]
      <4>1. rw'[d].next = rw[d].next /\ rw'[d].buf = content[d][rw[d].next]
        BY <1>0, <3>3 DEF Progress
      <4> QED
        BY <3>2, <4>1 DEF BufferOf
    <3>4. CASE rw'[d] = Advance(rw[d])
      <4>1. rw'[d].pc # "write"
        BY <1>0, <3>4 DEF Progress, Advance
      <4> QED
        BY <1>2, <4>1
    <3>5. CASE rw'[d] = [rw[d] EXCEPT !.pc = "thaw", !.locked = {}, !.over = TRUE]
      <4>1. rw'[d].pc # "write"
        BY <1>0, <3>5 DEF Progress
      <4> QED
        BY <1>2, <4>1
    <3> QED
      BY <3>1, <3>3, <3>4, <3>5
  <2>2. CASE Read(d) \/ rw'[d].pc # "write"
    BY <1>2, <2>1, <2>2
  <2>3. ~Read(d) => rw'[d].pc # "write"
    BY <1>0, <1>4, WriteOnlyAfterRead
  <2> QED
    BY <2>2, <2>3
<1>5. ASSUME NEW e \in Disk, e # d, Rewriter(e) PROVE BufferOf(d)'
  <2>1. rw'[d] = rw[d]
    <3>1. \E f : Step(e, f)
      BY <1>5 DEF Rewriter, Batch, Thaw, ListMounts, Open, Top, SaveFreezeMarker, Freeze, AllFrozen,
         FreezeReturns, Settle, NextBlock, Lock, Read, WriteBack, Release, ClearFreezeMarker, After
    <3> QED
      BY <1>0, <1>5, <3>1, OneSteps
  <2>2. content'[d] = content[d]
    <3>1. CASE QuietStep(e)
      BY <3>1, QuietSteps
    <3>2. CASE WriteBack(e)
      BY <1>0, <1>5, <3>2 DEF WriteBack, TypeOK
    <3> QED
      BY <1>5, <3>1, <3>2 DEF Rewriter, Batch, Thaw, QuietStep, SaveFreezeMarker, Freeze,
         FreezeReturns, Settle, Release, ClearFreezeMarker, Quiet, device
  <2> QED
    BY <1>1, <2>1, <2>2
<1>6. CASE Crash \/ PowerCut
  BY <1>2, <1>6 DEF Crash, PowerCut, Dies, Idle
<1> QED
  BY <1>1, <1>3, <1>4, <1>5, <1>6 DEF Next, vars, MountFs, UnmountFs, Watchdog, Start,
     ThawLeftover, ClearLeftovers, Quiet, device

LEMMA LossStep ==
  ASSUME Inv, Buffered, NothingLost, [Next]_vars
  PROVE  NothingLost'
<1>1. CASE content' = content /\ wanted' = wanted
  BY <1>1 DEF NothingLost
<1>2. ASSUME NEW m \in Mount, NEW b \in Block, FsWrite(m, b) PROVE NothingLost'
  BY <1>2 DEF FsWrite, NothingLost
<1>3. ASSUME NEW d \in Disk, WriteBack(d) PROVE NothingLost'
  <2>1. rw[d].buf = content[d][rw[d].next]
    BY <1>3 DEF Buffered, BufferOf, WriteBack, At
  <2>2. content \in [Disk -> [Block -> BOOLEAN]]
    BY DEF Inv, TypeOK
  <2>3. [content EXCEPT ![d][rw[d].next] = rw[d].buf] = content
    BY <2>1, <2>2
  <2> QED
    BY <1>3, <2>3 DEF WriteBack, NothingLost
<1>4. ASSUME NEW d \in Disk, Rewriter(d), ~WriteBack(d) PROVE content' = content /\ wanted' = wanted
  <2>1. CASE QuietStep(d)
    BY <2>1, QuietSteps
  <2> QED
    BY <1>4, <2>1 DEF Rewriter, Batch, Thaw, QuietStep, SaveFreezeMarker, Freeze,
       FreezeReturns, Settle, Release, ClearFreezeMarker, Quiet, device
<1> QED
  BY <1>1, <1>2, <1>3, <1>4 DEF Next, vars, MountFs, UnmountFs, Watchdog, Crash, PowerCut, Dies,
     Start, ThawLeftover, ClearLeftovers, Quiet, device

\* While nobody mounts a filesystem behind the rewriter's back, no write of a
\* filesystem is ever undone by a write-back, whatever overruns, fails or dies.
THEOREM NothingIsLost ==
  ASSUME NoLateMount
  PROVE  Spec => []NothingLost
<1>1. Init => LossInv
  <2> SUFFICES ASSUME Init PROVE LossInv
    OBVIOUS
  <2>1. Listed
    BY DEF Init, Listed, ListedOn, Idle
  <2>2. HeldFrozen
    BY RewriteAssumption DEF Init, HeldFrozen, HeldOf, Holds, Settling, NoGuard, Idle
  <2>3. Buffered
    BY DEF Init, Buffered, BufferOf, Idle
  <2> QED
    BY <2>1, <2>2, <2>3, InvInit DEF Init, LossInv, NothingLost
<1>2. LossInv /\ [Next]_vars => LossInv'
  <2> SUFFICES ASSUME LossInv, [Next]_vars PROVE LossInv'
    OBVIOUS
  <2>1. Inv /\ TypeOK /\ Listed /\ HeldFrozen /\ Buffered /\ NothingLost
    BY DEF LossInv, Inv
  <2>2. Inv'
    BY <2>1, TypeStep, ShapeStep, GuardsStep, DeadStep DEF Inv
  <2>3. Listed' /\ HeldFrozen' /\ Buffered' /\ NothingLost'
    BY <2>1, ListedStep, HeldStep, BufferStep, LossStep
  <2> QED
    BY <2>2, <2>3 DEF LossInv
<1>3. LossInv => NothingLost
  BY DEF LossInv
<1> QED
  BY <1>1, <1>2, <1>3, PTL DEF Spec

-----------------------------------------------------------------------------
(***************************************************************************)
(* The marker: with one disk, a FITHAW that works and a marker that can be *)
(* read, what is frozen is named on disk at every step, and every freeze   *)
(* has one owner.  With two disks it is false, for they share the file.    *)
(***************************************************************************)

OneDisk == \A d, e \in Disk : d = e
ThawWorks == "thaw_fails" \notin Faults
MarkerReadable == "marker_unreadable" \notin Faults

\* What the process has frozen, a guard holds or a Freeze has yet to settle.
OwnedOf(m) == m \in frozen => Holds(m) \/ Settling(m)
Owned == Running => \A m \in Mount : OwnedOf(m)

\* The marker names the mounts the goroutine freezes while it does.
MarkerOf(d) == rw[d].pc \in MarkedPc /\ rw[d].mounts # {} => marker = rw[d].mounts
MarkerKept == Running => \A d \in Disk : MarkerOf(d)

\* What is left to thaw at a start is all there is.
LeftAll == /\ daemon.pc = "leftovers" => frozen \subseteq daemon.left
           /\ daemon.pc # "run" => frozen \subseteq marker

MarkInv == Inv /\ HeldFrozen /\ Owned /\ MarkerKept /\ LeftAll

\* A freeze that has an owner is one of the mounts the marker names.
LEMMA OwnedIsMarked ==
  ASSUME Inv, Owned, MarkerKept, Running
  PROVE  frozen \subseteq marker
<1> SUFFICES ASSUME NEW m \in frozen PROVE m \in marker
  OBVIOUS
<1>0. PICK d \in Disk : /\ d = DiskOf[m] /\ m \in Mount /\ GuardOf(m) /\ ShapeOf(d) /\ OwnedOf(m)
                         /\ MarkerOf(d)
  BY RewriteAssumption DEF Inv, TypeOK, Guards, Shape, Owned, MarkerKept
<1>1. CASE Holds(m)
  <2>1. m \in rw[d].guards
    BY <1>0, <1>1 DEF Holds, GuardOf
  <2> QED
    BY <1>0, <2>1 DEF ShapeOf, MarkerOf
<1>2. CASE Settling(m)
  <2>1. m \in rw[d].mounts /\ rw[d].pc = "settle"
    BY <1>0, <1>2 DEF Settling, ShapeOf
  <2> QED
    BY <1>0, <2>1 DEF MarkerOf, MarkedPc
<1> QED
  BY <1>0, <1>1, <1>2 DEF OwnedOf

\* A goroutine that is not in the marked part owns nothing.
LEMMA NothingFrozen ==
  ASSUME OneDisk, Inv, Owned, Running, NEW d \in Disk,
         rw[d].guards = {}, rw[d].pc # "settle"
  PROVE  frozen = {}
<1> SUFFICES ASSUME NEW m \in frozen PROVE FALSE
  OBVIOUS
<1>1. m \in Mount /\ DiskOf[m] = d
  BY RewriteAssumption DEF Inv, TypeOK, OneDisk
<1>2. OwnedOf(m) /\ GuardOf(m)
  BY <1>1 DEF Owned, Inv, Guards
<1> QED
  BY <1>1, <1>2 DEF OwnedOf, GuardOf, Holds, Settling

LEMMA OwnedStep ==
  ASSUME ThawWorks, MarkerReadable, MarkInv, [Next]_vars
  PROVE  Owned'
<1> SUFFICES ASSUME Running', NEW m \in Mount PROVE OwnedOf(m)'
  BY DEF Owned
<1>0. PICK d \in Disk : /\ d = DiskOf[m] /\ TypeOK /\ Shape /\ GuardOf(m) /\ ShapeOf(d)
                         /\ rw[d] \in Progress /\ guard[m] \in Guard
  BY RewriteAssumption DEF MarkInv, Inv, TypeOK, Guards, Shape
<1>1. CASE Running /\ guard'[m] = guard[m] /\ rw'[d] = rw[d] /\ (m \in frozen' => m \in frozen)
  BY <1>0, <1>1 DEF MarkInv, Owned, OwnedOf, Holds, Settling
<1>2. CASE Start \/ ClearLeftovers
  <2>1. frozen' = {}
    BY <1>2 DEF Start, ClearLeftovers, MarkInv, LeftAll, Running, MarkerReadable
  <2> QED
    BY <2>1 DEF OwnedOf
<1>3. CASE Crash \/ PowerCut \/ ThawLeftover
  BY <1>0, <1>3 DEF Crash, PowerCut, Dies, ThawLeftover, Running, TypeOK
<1>4. ASSUME NEW n \in Mount, Watchdog(n) PROVE OwnedOf(m)'
  <2>0. Running
    BY <1>4 DEF Watchdog
  <2>1. CASE n # m
    BY <1>0, <1>1, <1>4, <2>0, <2>1, WatchdogStep
  <2>2. CASE n = m
    <3>1. CASE Holds(m)
      BY <1>4, <2>2, <3>1 DEF Watchdog, Thawed, ThawWorks, OwnedOf
    <3>2. CASE ~Holds(m)
      <4>1. frozen' = frozen /\ rw' = rw
        BY <1>0, <1>4, <2>2, <3>2, WatchdogStep
      <4> QED
        BY <1>0, <2>0, <3>2, <4>1 DEF MarkInv, Owned, OwnedOf, Settling
    <3> QED
      BY <3>1, <3>2
  <2> QED
    BY <2>1, <2>2
<1>5. ASSUME NEW e \in Disk, e # d, Rewriter(e) PROVE OwnedOf(m)'
  <2>1. rw'[d] = rw[d] /\ Running
    <3>1. Running /\ \E f : Step(e, f)
      BY <1>5 DEF Rewriter, Batch, Thaw, ListMounts, Open, Top, SaveFreezeMarker, Freeze, AllFrozen,
         FreezeReturns, Settle, NextBlock, Lock, Read, WriteBack, Release, ClearFreezeMarker, After
    <3> QED
      BY <1>0, <1>5, <3>1, OneSteps
  <2> QED
    BY <1>0, <1>1, <1>5, <2>1, OtherDisks
<1>6. CASE Rewriter(d)
  <2>0. Running /\ OwnedOf(m)
    BY <1>6 DEF MarkInv, Owned, Rewriter, Batch, Thaw, ListMounts, Open, Top, SaveFreezeMarker,
       Freeze, AllFrozen, FreezeReturns, Settle, NextBlock, Lock, Read, WriteBack, Release,
       ClearFreezeMarker, After
  <2>1. CASE QuietStep(d) \/ SaveFreezeMarker(d) \/ ClearFreezeMarker(d) \/ WriteBack(d)
    <3>1. guard' = guard /\ frozen' = frozen
      <4>1. CASE QuietStep(d)
        BY <4>1, QuietSteps
      <4> QED
        BY <2>1, <4>1 DEF SaveFreezeMarker, ClearFreezeMarker, WriteBack
    <3>2. ~Settling(m)
      BY <1>0, <2>1 DEF QuietStep, ListMounts, Open, Top, AllFrozen, NextBlock, Lock, Read, After,
         SaveFreezeMarker, ClearFreezeMarker, WriteBack, At, Settling
    <3> QED
      BY <2>0, <3>1, <3>2 DEF OwnedOf, Holds
  <2>2. CASE Freeze(d)
    <3>1. PICK k \in rw[d].mounts \ rw[d].guards :
            guard' = [guard EXCEPT ![k] = NewGuard] /\ frozen' = frozen /\ rw[d].pc = "freeze"
      BY <2>2 DEF Freeze, At
    <3>2. m = k => ~Holds(m)
      BY <1>0, <3>1 DEF GuardOf, Holds
    <3>3. m # k => guard'[m] = guard[m]
      BY <1>0, <3>1 DEF TypeOK
    <3> QED
      BY <1>0, <2>0, <3>1, <3>2, <3>3 DEF OwnedOf, Holds, Settling
  <2>3. CASE FreezeReturns(d)
    <3>1. PICK k \in rw[d].freezing :
            \/ /\ frozen' = frozen \cup {k} /\ guard' = guard
               /\ Step(d, [rw[d] EXCEPT !.pc = "settle"])
            \/ /\ frozen' = frozen /\ guard' = [guard EXCEPT ![k] = NoGuard]
      BY <2>3 DEF FreezeReturns
    <3>2. k \in Mount /\ k \notin rw[d].guards /\ DiskOf[k] = d /\ rw[d].pc = "freezing"
      BY <1>0, <2>3 DEF ShapeOf, FreezeReturns, At
    <3>3. CASE frozen' = frozen \cup {k} /\ guard' = guard
               /\ Step(d, [rw[d] EXCEPT !.pc = "settle"])
      <4>1. rw'[d] = [rw[d] EXCEPT !.pc = "settle"]
        BY <1>0, <3>3, OneSteps
      <4>2. rw'[d].pc = "settle" /\ rw'[d].freezing = rw[d].freezing
        BY <1>0, <4>1 DEF Progress
      <4> QED
        BY <1>0, <2>0, <3>2, <3>3, <4>2 DEF OwnedOf, Holds, Settling
    <3>4. CASE frozen' = frozen /\ guard' = [guard EXCEPT ![k] = NoGuard]
      <4>1. m # k => guard'[m] = guard[m]
        BY <1>0, <3>4 DEF TypeOK
      <4>2. m = k => ~Holds(m)
        BY <1>0, <3>2 DEF GuardOf, Holds
      <4> QED
        BY <1>0, <2>0, <3>2, <3>4, <4>1, <4>2 DEF OwnedOf, Holds, Settling
    <3> QED
      BY <3>1, <3>3, <3>4
  <2>4. CASE Settle(d)
    <3>1. PICK k \in rw[d].freezing :
            \/ frozen' = frozen \ {k} /\ guard' = [guard EXCEPT ![k] = NoGuard]
            \/ frozen' = frozen /\ guard' = [guard EXCEPT ![k].hold = TRUE]
      BY <2>4 DEF Settle, Thawed, ThawWorks
    <3>2. k \in Mount /\ rw[d].freezing = {k} /\ k \notin rw[d].guards /\ DiskOf[k] = d
      BY <1>0 DEF ShapeOf
    <3>3. m # k => guard'[m] = guard[m] /\ ~Settling(m)
      BY <1>0, <3>1, <3>2 DEF TypeOK, Settling
    <3>4. m = k => ~guard[m].released
      BY <1>0, <3>2 DEF GuardOf
    <3>5. m = k /\ frozen' = frozen /\ guard' = [guard EXCEPT ![k].hold = TRUE] =>
            guard'[m].hold /\ guard'[m].released = guard[m].released
      BY <1>0, <3>2 DEF TypeOK, Guard
    <3> QED
      BY <2>0, <3>1, <3>3, <3>4, <3>5 DEF OwnedOf, Holds
  <2>5. CASE Release(d)
    <3>1. PICK k \in rw[d].guards :
            /\ frozen' = frozen \ {k} \/ (frozen' = frozen /\ guard[k].released)
            /\ guard' = [guard EXCEPT ![k] = NoGuard]
      BY <2>5 DEF Release, Thawed, ThawWorks
    <3>2. rw[d].pc = "thaw"
      BY <2>5 DEF Release, At
    <3>3. m # k => guard'[m] = guard[m]
      BY <1>0, <3>1 DEF TypeOK
    <3> QED
      BY <1>0, <2>0, <3>1, <3>2, <3>3 DEF OwnedOf, Holds, Settling
  <2> QED
    BY <1>6, <2>1, <2>2, <2>3, <2>4, <2>5 DEF Rewriter, Batch, Thaw, QuietStep
<1>7. CASE UNCHANGED vars
  BY <1>0, <1>1, <1>7 DEF vars, Running
<1>8. ASSUME NEW n \in Mount, MountFs(n) \/ UnmountFs(n) PROVE OwnedOf(m)'
  BY <1>0, <1>1, <1>8 DEF MountFs, UnmountFs, process, Running
<1>9. ASSUME NEW n \in Mount, NEW b \in Block, FsWrite(n, b) PROVE OwnedOf(m)'
  BY <1>0, <1>1, <1>9 DEF FsWrite, process, Running
<1> QED
  BY <1>2, <1>3, <1>4, <1>5, <1>6, <1>7, <1>8, <1>9 DEF Next

LEMMA RewriterRuns ==
  ASSUME NEW d \in Disk, Rewriter(d)
  PROVE  Running /\ UNCHANGED daemon
<1>1. CASE QuietStep(d)
  BY <1>1, QuietSteps DEF QuietStep, ListMounts, Open, Top, AllFrozen, NextBlock, Lock, Read, After
<1> QED
  BY <1>1 DEF Rewriter, Batch, Thaw, QuietStep, SaveFreezeMarker, Freeze, FreezeReturns,
     Settle, WriteBack, Release, ClearFreezeMarker, Quiet, process

LEMMA MarkerStep ==
  ASSUME OneDisk, MarkInv, [Next]_vars
  PROVE  MarkerKept'
<1> SUFFICES ASSUME Running', NEW d \in Disk PROVE MarkerOf(d)'
  BY DEF MarkerKept
<1>0. TypeOK /\ ShapeOf(d) /\ rw[d] \in Progress /\ Idle.pc = "idle"
  BY DEF MarkInv, Inv, TypeOK, Shape, Idle
<1>1. CASE ~Running
  <2>1. rw[d] = Idle
    BY <1>1 DEF MarkInv, Inv, Dead
  <2>2. ~Rewriter(d)
    BY <1>1, RewriterRuns
  <2> QED
    BY <1>0, <2>1, <2>2, RwStep DEF MarkerOf, MarkedPc
<1>2. CASE Running /\ rw'[d] = rw[d] /\ marker' = marker
  BY <1>2 DEF MarkInv, MarkerKept, MarkerOf
<1>3. CASE Rewriter(d) /\ Running
  <2>1. CASE SaveFreezeMarker(d)
    <3>1. \/ rw'[d] = Idle
          \/ marker' = rw[d].mounts /\ rw'[d] = [rw[d] EXCEPT !.pc = "freeze"]
      BY <1>0, <2>1, OneSteps DEF SaveFreezeMarker
    <3>2. rw'[d] = [rw[d] EXCEPT !.pc = "freeze"] => rw'[d].mounts = rw[d].mounts
      BY <1>0 DEF Progress
    <3> QED
      BY <1>0, <3>1, <3>2 DEF MarkerOf, MarkedPc
  <2>2. CASE ClearFreezeMarker(d)
    <3>1. \/ rw'[d] = [rw[d] EXCEPT !.pc = "after"]
          \/ rw'[d] = [rw[d] EXCEPT !.pc = "after", !.over = TRUE]
      BY <1>0, <2>2, OneSteps DEF ClearFreezeMarker
    <3>2. rw'[d].pc = "after"
      BY <1>0, <3>1 DEF Progress
    <3> QED
      BY <3>2 DEF MarkerOf, MarkedPc
  <2>3. CASE ListMounts(d) \/ Open(d) \/ Top(d) \/ After(d)
    <3>1. \/ rw'[d] = Idle
          \/ rw'[d] = [Idle EXCEPT !.pc = "open", !.mounts = OnDisk(d)]
          \/ rw'[d] = [rw[d] EXCEPT !.pc = "top"]
          \/ rw'[d] = [rw[d] EXCEPT !.some = FALSE, !.pc = "mark"]
          \/ rw[d].mounts = {} /\ rw'[d] = [rw[d] EXCEPT !.some = FALSE, !.pc = "batch"]
      BY <1>0, <2>3, OneSteps DEF ListMounts, Open, Top, After
    <3>2. [Idle EXCEPT !.pc = "open", !.mounts = OnDisk(d)].pc = "open"
      BY DEF Idle
    <3>3. \/ rw'[d].pc \in {"idle", "open", "top", "mark"}
          \/ rw'[d].mounts = {}
      BY <1>0, <3>1, <3>2 DEF Progress
    <3> QED
      BY <3>3 DEF MarkerOf, MarkedPc
  <2>4. CASE rw[d].pc \in MarkedPc /\ ~ClearFreezeMarker(d)
    <3>1. marker' = marker
      <4>1. CASE QuietStep(d)
        BY <4>1, QuietSteps
      <4> QED
        BY <1>3, <2>4, <4>1 DEF Rewriter, Batch, Thaw, QuietStep, SaveFreezeMarker, Freeze,
           FreezeReturns, Settle, WriteBack, Release, MarkedPc, At
    <3>2. rw'[d] = Idle \/ rw'[d].mounts = rw[d].mounts
      <4>1. ~ListMounts(d)
        BY <2>4 DEF ListMounts, At, MarkedPc
      <4> QED
        BY <1>0, <1>3, <4>1, MountsKept
    <3> QED
      BY <1>0, <1>3, <2>4, <3>1, <3>2 DEF MarkerOf, MarkInv, MarkerKept, MarkedPc
  <2> QED
    BY <1>3, <2>1, <2>2, <2>3, <2>4 DEF Rewriter, Batch, Thaw, Freeze, AllFrozen, FreezeReturns,
       Settle, NextBlock, Lock, Read, WriteBack, Release, At, MarkedPc
<1>4. CASE Running /\ (Crash \/ PowerCut)
  BY <1>4 DEF Crash, PowerCut, Dies, Running, TypeOK
<1> QED
  <2>1. ASSUME NEW e \in Disk, Rewriter(e) PROVE Rewriter(d)
    BY <2>1 DEF OneDisk
  <2> QED
    BY <1>1, <1>2, <1>3, <1>4, <2>1 DEF Next, vars, MountFs, UnmountFs, FsWrite, Watchdog,
       Start, ThawLeftover, ClearLeftovers, Crash, PowerCut, Dies, Running

LEMMA LeftStep ==
  ASSUME OneDisk, ThawWorks, MarkerReadable, MarkInv, [Next]_vars
  PROVE  LeftAll'
<1>0. LeftAll /\ TypeOK /\ (Running => frozen \subseteq marker)
  BY OwnedIsMarked DEF MarkInv, Inv
<1>1. CASE Crash
  BY <1>0, <1>1 DEF Crash, Dies, LeftAll, Running
<1>2. CASE PowerCut
  BY <1>2 DEF PowerCut, Dies, LeftAll
<1>3. CASE Start
  BY <1>0, <1>3 DEF Start, LeftAll, Up, MarkerReadable
<1>4. CASE ThawLeftover
  <2>1. PICK m \in daemon.left :
          frozen' = frozen \ {m} /\ daemon' = [daemon EXCEPT !.left = @ \ {m}]
    BY <1>4 DEF ThawLeftover, Thawed, ThawWorks
  <2>2. daemon'.left = daemon.left \ {m} /\ daemon'.pc = "leftovers" /\ marker' = marker
    BY <1>0, <1>4, <2>1 DEF ThawLeftover, TypeOK
  <2> QED
    BY <1>0, <1>4, <2>1, <2>2 DEF LeftAll, ThawLeftover
<1>5. CASE ClearLeftovers
  BY <1>5 DEF ClearLeftovers, LeftAll, Up
<1>6. CASE UNCHANGED <<frozen, marker, daemon>>
  BY <1>0, <1>6 DEF LeftAll
<1>7. CASE Running /\ UNCHANGED daemon
  BY <1>7 DEF Running, LeftAll
<1>8. ASSUME NEW m \in Mount, MountFs(m) \/ UnmountFs(m) \/ Watchdog(m) PROVE LeftAll'
  BY <1>6, <1>7, <1>8 DEF MountFs, UnmountFs, Watchdog, Quiet, process
<1>9. ASSUME NEW m \in Mount, NEW b \in Block, FsWrite(m, b) PROVE LeftAll'
  BY <1>6, <1>9 DEF FsWrite, process
<1>10. ASSUME NEW d \in Disk, Rewriter(d) PROVE LeftAll'
  BY <1>7, <1>10, RewriterRuns
<1> QED
  BY <1>1, <1>2, <1>3, <1>4, <1>5, <1>6, <1>8, <1>9, <1>10 DEF Next, vars

LEMMA MarkInit == Init => MarkInv
<1> SUFFICES ASSUME Init PROVE MarkInv
  OBVIOUS
<1>1. HeldFrozen
  BY RewriteAssumption DEF Init, HeldFrozen, HeldOf, Holds, Settling, NoGuard, Idle
<1>2. Owned /\ LeftAll
  BY DEF Init, Owned, OwnedOf, LeftAll
<1>3. MarkerKept
  BY DEF Init, MarkerKept, MarkerOf, MarkedPc, Idle
<1> QED
  BY <1>1, <1>2, <1>3, InvInit DEF MarkInv

LEMMA MarkStep ==
  ASSUME OneDisk, ThawWorks, MarkerReadable
  PROVE  MarkInv /\ [Next]_vars => MarkInv'
<1> SUFFICES ASSUME MarkInv, [Next]_vars PROVE MarkInv'
  OBVIOUS
<1>1. Inv /\ HeldFrozen
  BY DEF MarkInv
<1>2. Inv'
  BY <1>1, TypeStep, ShapeStep, GuardsStep, DeadStep DEF Inv
<1>3. HeldFrozen' /\ Owned' /\ MarkerKept' /\ LeftAll'
  BY <1>1, HeldStep, OwnedStep, MarkerStep, LeftStep
<1> QED
  BY <1>2, <1>3 DEF MarkInv

\* Written before the freeze and removed after the thaw: with one disk there is
\* no step at which a crash would leave a filesystem frozen that no start thaws.
THEOREM FrozenMarked ==
  ASSUME OneDisk, ThawWorks, MarkerReadable
  PROVE  Spec => []FrozenIsMarked
<1>1. MarkInv => FrozenIsMarked
  <2> SUFFICES ASSUME MarkInv PROVE frozen \subseteq marker
    BY DEF FrozenIsMarked
  <2>1. CASE Running
    BY <2>1, OwnedIsMarked DEF MarkInv
  <2>2. CASE ~Running
    BY <2>2 DEF MarkInv, LeftAll, Running
  <2> QED
    BY <2>1, <2>2
<1> QED
  BY <1>1, MarkInit, MarkStep, PTL DEF Spec

\* Thaw is called exactly once for a freeze, whichever of Release, the watchdog
\* and a failed batch gets there first.
THEOREM ThawsOnce ==
  ASSUME OneDisk, ThawWorks, MarkerReadable
  PROVE  Spec => []ThawnOnce
<1>1. MarkInv => ThawnOnce
  <2> SUFFICES ASSUME MarkInv, Running, NEW m \in Mount
               PROVE  m \in frozen <=> Holds(m) \/ Arriving(m)
    BY DEF ThawnOnce
  <2>1. Arriving(m) <=> Settling(m)
    <3>1. DiskOf[m] \in Disk
      BY RewriteAssumption
    <3>2. ASSUME NEW d \in Disk, m \in rw[d].freezing PROVE DiskOf[m] = d
      BY <3>2 DEF MarkInv, Inv, Shape, ShapeOf
    <3> QED
      BY <3>1, <3>2 DEF Arriving, Settling, At
  <2>2. HeldOf(m) /\ OwnedOf(m)
    BY DEF MarkInv, HeldFrozen, Owned
  <2> QED
    BY <2>1, <2>2 DEF HeldOf, OwnedOf
<1> QED
  BY <1>1, MarkInit, MarkStep, PTL DEF Spec
=============================================================================
