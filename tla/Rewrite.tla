------------------------------- MODULE Rewrite -------------------------------
(***************************************************************************)
(* The rewrite of slow blocks: one goroutine per disk reads each block and *)
(* writes the same bytes back, with every filesystem of the disk frozen    *)
(* around a batch; a watchdog per frozen filesystem thaws it if the batch  *)
(* overruns; a marker file names what is about to be frozen, and the next  *)
(* start of the daemon thaws what it names.                                *)
(*                                                                         *)
(* A freeze belongs to the kernel and outlives the process.  While a       *)
(* filesystem is frozen, writes to it wait, the daemon's own included when *)
(* its state directory is there (Home).  A guard's lock is held by the     *)
(* batch from Lock to the end of the block; everybody else who takes it    *)
(* leaves it in the same step.                                             *)
(***************************************************************************)
EXTENDS Naturals, FiniteSets

CONSTANTS
  Disk,       \* disks with slow blocks to write back
  Mount,      \* filesystems
  DiskOf,     \* the disk a filesystem is on
  F2fs,       \* the filesystems that are f2fs
  Home,       \* the filesystems that hold the state directory: one or none
  Slow,       \* how many slow blocks a round finds on a disk
  Faults,     \* what may go wrong in this instance
  MaxCrashes  \* bound on the times the daemon dies

\* crash: the process is killed.  power: the machine goes down, and its freezes
\* with it.  mount_mid_phase: somebody mounts a filesystem of a disk whose
\* mounts the rewriter has already listed.  thaw_fails: FITHAW returns an error.
\* marker_unreadable: a start finds a frozen.json it cannot read.
AllFaults == {"crash", "power", "mount_mid_phase", "thaw_fails", "marker_unreadable"}

ASSUME RewriteAssumption ==
  /\ Disk # {}
  /\ DiskOf \in [Mount -> Disk]
  /\ F2fs \subseteq Mount
  /\ Home \subseteq Mount
  /\ Slow \in Nat
  /\ Faults \subseteq AllFaults
  /\ MaxCrashes \in Nat

VARIABLES
  mounted,   \* the filesystems that are mounted
  frozen,    \* the filesystems the kernel holds frozen
  content,   \* the blocks on the medium
  wanted,    \* what the filesystems last wrote there
  rw,        \* the rewriter's goroutine of each disk
  guard,     \* the freezeGuard of each filesystem
  marker,    \* the filesystems frozen.json names, none if there is no file
  daemon,    \* the process: whether it runs, or is still thawing leftovers
  crashes    \* times the process has died

vars == <<mounted, frozen, content, wanted, rw, guard, marker, daemon, crashes>>
device == <<mounted, content, wanted>>
process == <<daemon, crashes>>

Block == 1 .. Slow

\* Run's progress: what it does next, the mounts it listed, the index i into
\* offsets, whether this freeze has seen a block, which guards' locks it holds,
\* the mount being frozen, the buffer, and whether a code has ended the phase.
Pc == {"idle", "open", "top", "mark", "freeze", "freezing", "settle", "batch", "lock",
       "write", "thaw", "after"}
Progress ==
  [pc : Pc, mounts : SUBSET Mount, next : 1 .. Slow + 1, some : BOOLEAN,
   locked : SUBSET Mount, guards : SUBSET Mount, freezing : SUBSET Mount,
   buf : BOOLEAN, over : BOOLEAN]
Idle == [pc |-> "idle", mounts |-> {}, next |-> 1, some |-> FALSE, locked |-> {},
         guards |-> {}, freezing |-> {}, buf |-> FALSE, over |-> FALSE]

\* A guard: its timer is running, it has a hold, and what became of it.
Guard == [armed : BOOLEAN, hold : BOOLEAN, released : BOOLEAN, tripped : BOOLEAN]
NoGuard == [armed |-> FALSE, hold |-> FALSE, released |-> FALSE, tripped |-> FALSE]
NewGuard == [NoGuard EXCEPT !.armed = TRUE]
Holds(m) == guard[m].hold /\ ~guard[m].released

Up == [pc |-> "run", left |-> {}]
Running == daemon.pc = "run"
At(d, pc) == rw[d].pc = pc
OnDisk(d) == {m \in mounted : DiskOf[m] = d}
\* What Thaw may leave frozen; its error changes nothing else but the code.
Thawed(m) == {frozen \ {m}} \cup (IF "thaw_fails" \in Faults THEN {frozen} ELSE {})
\* A store write waits while the state directory is on a frozen filesystem.
StoreWritable == Home \cap frozen = {}
\* rw.open with O_EXCL succeeded and the file is still open.
Exclusive(d) == rw[d].pc \notin {"idle", "open"} /\ rw[d].mounts = {}

Init ==
  /\ mounted \in SUBSET Mount
  /\ frozen = {}
  /\ content = [d \in Disk |-> [b \in Block |-> FALSE]]
  /\ wanted = content
  /\ rw = [d \in Disk |-> Idle]
  /\ guard = [m \in Mount |-> NoGuard]
  /\ marker = {}
  /\ daemon = Up
  /\ crashes = 0

-----------------------------------------------------------------------------
(* The machine: filesystems are mounted, written and unmounted.            *)

\* The rewriter of a disk has listed mounts that its freezes rely on.
Relied(d) == rw[d].mounts # {}

MountFs(m) ==
  /\ m \notin mounted
  /\ ~Exclusive(DiskOf[m])
  /\ ~Relied(DiskOf[m]) \/ "mount_mid_phase" \in Faults
  /\ mounted' = mounted \cup {m}
  /\ UNCHANGED <<frozen, content, wanted, rw, guard, marker, process>>

\* One that is frozen, or whose Freeze call has its directory open, is busy.  Any
\* other may go, a listed one between two batches too.
UnmountFs(m) ==
  /\ m \in mounted \ frozen
  /\ m \notin rw[DiskOf[m]].freezing
  /\ mounted' = mounted \ {m}
  /\ UNCHANGED <<frozen, content, wanted, rw, guard, marker, process>>

\* A filesystem that is not frozen writes one of its blocks.
FsWrite(m, b) ==
  /\ m \in mounted \ frozen
  /\ content' = [content EXCEPT ![DiskOf[m]][b] = ~wanted[DiskOf[m]][b]]
  /\ wanted' = [wanted EXCEPT ![DiskOf[m]][b] = ~@]
  /\ UNCHANGED <<mounted, frozen, rw, guard, marker, process>>

-----------------------------------------------------------------------------
(* Run: listing the mounts, opening the disk, and the top of its loop.     *)

Quiet == <<device, process>>
Step(d, f) == rw' = [rw EXCEPT ![d] = f]

\* Anything but f2fs refuses the phase, and the rewriter is idle again.
ListMounts(d) ==
  /\ Running /\ At(d, "idle")
  /\ Slow > 0
  /\ OnDisk(d) \subseteq F2fs
  /\ Step(d, [Idle EXCEPT !.pc = "open", !.mounts = OnDisk(d)])
  /\ UNCHANGED <<Quiet, frozen, guard, marker>>

\* With nothing listed it takes O_EXCL, which a mounted filesystem refuses.
Open(d) ==
  /\ Running /\ At(d, "open")
  /\ \/ /\ rw[d].mounts # {} \/ OnDisk(d) = {}
        /\ Step(d, [rw[d] EXCEPT !.pc = "top"])
     \/ Step(d, Idle)
  /\ UNCHANGED <<Quiet, frozen, guard, marker>>

\* The context may be cancelled, or another process too busy on the disk.
Top(d) ==
  /\ Running /\ At(d, "top")
  /\ \/ Step(d, [rw[d] EXCEPT !.some = FALSE,
                              !.pc = IF rw[d].mounts = {} THEN "batch" ELSE "mark"])
     \/ Step(d, Idle)
  /\ UNCHANGED <<Quiet, frozen, guard, marker>>

-----------------------------------------------------------------------------
(* freezeAll.                                                              *)

SaveFreezeMarker(d) ==
  /\ Running /\ At(d, "mark")
  /\ StoreWritable
  /\ \/ /\ marker' = rw[d].mounts
        /\ Step(d, [rw[d] EXCEPT !.pc = "freeze"])
     \/ Step(d, Idle) /\ UNCHANGED marker
  /\ UNCHANGED <<Quiet, frozen, guard>>

\* The timer starts before the freeze is asked for.
Freeze(d) ==
  /\ Running /\ At(d, "freeze")
  /\ \E m \in rw[d].mounts \ rw[d].guards :
       /\ guard' = [guard EXCEPT ![m] = NewGuard]
       /\ Step(d, [rw[d] EXCEPT !.pc = "freezing", !.freezing = {m}])
  /\ UNCHANGED <<Quiet, frozen, marker>>

AllFrozen(d) ==
  /\ Running /\ At(d, "freeze")
  /\ rw[d].mounts = rw[d].guards
  /\ Step(d, [rw[d] EXCEPT !.pc = "batch"])
  /\ UNCHANGED <<Quiet, frozen, guard, marker>>

\* The ioctl flushes what is dirty, so it takes a while, and may fail.  A listed
\* filesystem that has been unmounted since is not there to be frozen.
FreezeReturns(d) ==
  /\ Running /\ At(d, "freezing")
  /\ \E m \in rw[d].freezing :
       \/ /\ m \in mounted \ frozen
          /\ frozen' = frozen \cup {m}
          /\ Step(d, [rw[d] EXCEPT !.pc = "settle"])
          /\ UNCHANGED guard
       \/ /\ guard' = [guard EXCEPT ![m] = NoGuard]
          /\ Step(d, [rw[d] EXCEPT !.pc = "thaw", !.freezing = {}, !.over = TRUE])
          /\ UNCHANGED frozen
  /\ UNCHANGED <<Quiet, marker>>

\* The watchdog may have fired meanwhile, when there was nothing to thaw.
NeverLost(g) == FALSE  \* mutant of Lost and of Refuses
Lost(g) == g.tripped

Settle(d) ==
  /\ Running /\ At(d, "settle")
  /\ \E m \in rw[d].freezing :
       IF Lost(guard[m])
       THEN /\ frozen' \in Thawed(m)
            /\ guard' = [guard EXCEPT ![m] = NoGuard]
            /\ Step(d, [rw[d] EXCEPT !.pc = "thaw", !.freezing = {}, !.over = TRUE])
       ELSE /\ guard' = [guard EXCEPT ![m].hold = TRUE]
            /\ Step(d, [rw[d] EXCEPT !.pc = "freeze", !.freezing = {},
                                     !.guards = @ \cup {m}])
            /\ UNCHANGED frozen
  /\ UNCHANGED <<Quiet, marker>>

FiredOnly(g) == [g EXCEPT !.armed = FALSE, !.tripped = TRUE]  \* mutant of Fired
Fired(g) == [g EXCEPT !.armed = FALSE, !.tripped = TRUE, !.released = g.hold]

\* The timer of a guard that still has one.  It waits while a block holds the
\* lock.  One that fires after Release finds nothing to do.
Watchdog(m) ==
  /\ Running
  /\ guard[m].armed
  /\ m \notin rw[DiskOf[m]].locked
  /\ guard' = [guard EXCEPT ![m] = Fired(@)]
  /\ frozen' \in IF Holds(m) THEN Thawed(m) ELSE {frozen}
  /\ UNCHANGED <<Quiet, rw, marker>>

-----------------------------------------------------------------------------
(* The batch.                                                              *)

\* At least one block per freeze; then the hold may be up at any block.
NextBlock(d) ==
  /\ Running /\ At(d, "batch")
  /\ \/ rw[d].next <= Slow /\ Step(d, [rw[d] EXCEPT !.pc = "lock"])
     \/ /\ rw[d].next > Slow \/ (rw[d].some /\ rw[d].mounts # {})
        /\ Step(d, [rw[d] EXCEPT !.pc = "thaw"])
     \/ Step(d, [rw[d] EXCEPT !.pc = "thaw", !.over = TRUE])
  /\ UNCHANGED <<Quiet, frozen, guard, marker>>

Refuses(g) == g.tripped \/ g.released

\* held, withHeld: the lock of every guard, one inside the other.
Lock(d) ==
  /\ Running /\ At(d, "lock")
  /\ \E m \in rw[d].guards \ rw[d].locked :
       IF Refuses(guard[m])
       THEN Step(d, [rw[d] EXCEPT !.pc = "thaw", !.locked = {}, !.over = TRUE])
       ELSE Step(d, [rw[d] EXCEPT !.locked = @ \cup {m}])
  /\ UNCHANGED <<Quiet, frozen, guard, marker>>

Advance(r) == [r EXCEPT !.pc = "batch", !.locked = {}, !.next = @ + 1, !.some = TRUE]

\* A block that fails to read is skipped, unless the device is gone.
Read(d) ==
  /\ Running /\ At(d, "lock")
  /\ rw[d].locked = rw[d].guards
  /\ \/ Step(d, [rw[d] EXCEPT !.pc = "write", !.buf = content[d][rw[d].next]])
     \/ Step(d, Advance(rw[d]))
     \/ Step(d, [rw[d] EXCEPT !.pc = "thaw", !.locked = {}, !.over = TRUE])
  /\ UNCHANGED <<Quiet, frozen, guard, marker>>

\* A failed write may have written the block all the same.
WriteBack(d) ==
  /\ Running /\ At(d, "write")
  /\ \/ /\ content' = [content EXCEPT ![d][rw[d].next] = rw[d].buf]
        /\ Step(d, Advance(rw[d]))
     \/ /\ content' \in {content, [content EXCEPT ![d][rw[d].next] = rw[d].buf]}
        /\ Step(d, [rw[d] EXCEPT !.pc = "thaw", !.locked = {}, !.over = TRUE])
  /\ UNCHANGED <<mounted, wanted, process, frozen, guard, marker>>

-----------------------------------------------------------------------------
(* thawAll, and what follows a batch.                                      *)

\* Release, of one guard.
Release(d) ==
  /\ Running /\ At(d, "thaw")
  /\ \E m \in rw[d].guards :
       /\ frozen' \in IF guard[m].released THEN {frozen} ELSE Thawed(m)
       /\ guard' = [guard EXCEPT ![m] = NoGuard]
       /\ Step(d, [rw[d] EXCEPT !.guards = @ \ {m}, !.over = @ \/ guard[m].tripped \/ m \in frozen'])
  /\ UNCHANGED <<Quiet, marker>>

SomeThawed(d) == rw[d].mounts # {} => rw[d].guards # rw[d].mounts  \* mutant of AllThawed
AllThawed(d) == rw[d].guards = {}

ClearFreezeMarker(d) ==
  /\ Running /\ At(d, "thaw")
  /\ AllThawed(d)
  /\ rw[d].mounts # {} => StoreWritable
  /\ \/ /\ marker' = IF rw[d].mounts = {} THEN marker ELSE {}
        /\ Step(d, [rw[d] EXCEPT !.pc = "after"])
     \/ /\ rw[d].mounts # {}
        /\ Step(d, [rw[d] EXCEPT !.pc = "after", !.over = TRUE])
        /\ UNCHANGED marker
  /\ UNCHANGED <<Quiet, frozen, guard>>

\* Sync and the gap, either of which may end the phase.  The verification that
\* follows the last batch only reads.
After(d) ==
  /\ Running /\ At(d, "after")
  /\ \/ /\ ~rw[d].over /\ rw[d].next <= Slow
        /\ Step(d, [rw[d] EXCEPT !.pc = "top"])
     \/ Step(d, Idle)
  /\ UNCHANGED <<Quiet, frozen, guard, marker>>

-----------------------------------------------------------------------------
(* The process dies, and the next start thaws what the marker names.       *)

Dies ==
  /\ daemon.pc # "dead" /\ crashes < MaxCrashes
  /\ crashes' = crashes + 1
  /\ daemon' = [pc |-> "dead", left |-> {}]
  /\ rw' = [d \in Disk |-> Idle]
  /\ guard' = [m \in Mount |-> NoGuard]
  /\ UNCHANGED <<device, marker>>

Crash == "crash" \in Faults /\ Dies /\ UNCHANGED frozen
PowerCut == "power" \in Faults /\ Dies /\ frozen' = {}

\* thawLeftovers, before anything else.  It thaws nothing, and leaves the marker,
\* if it cannot read it.
Start ==
  /\ daemon.pc = "dead"
  /\ daemon' \in {IF marker = {} THEN Up ELSE [pc |-> "leftovers", left |-> marker]}
                 \cup (IF "marker_unreadable" \in Faults THEN {Up} ELSE {})
  /\ UNCHANGED <<device, frozen, rw, guard, marker, crashes>>

ThawLeftover ==
  /\ daemon.pc = "leftovers"
  /\ \E m \in daemon.left : /\ frozen' \in Thawed(m)
                            /\ daemon' = [daemon EXCEPT !.left = @ \ {m}]
  /\ UNCHANGED <<device, rw, guard, marker, crashes>>

ClearLeftovers ==
  /\ daemon.pc = "leftovers" /\ daemon.left = {}
  /\ StoreWritable
  /\ daemon' = Up
  /\ marker' \in {{}, marker}
  /\ UNCHANGED <<device, frozen, rw, guard, crashes>>

Batch(d) == NextBlock(d) \/ Lock(d) \/ Read(d) \/ WriteBack(d)
Thaw(d) == Release(d) \/ ClearFreezeMarker(d)
Rewriter(d) ==
  \/ ListMounts(d) \/ Open(d) \/ Top(d)
  \/ SaveFreezeMarker(d) \/ Freeze(d) \/ AllFrozen(d) \/ FreezeReturns(d) \/ Settle(d)
  \/ Batch(d) \/ Thaw(d) \/ After(d)

Next ==
  \/ \E m \in Mount : MountFs(m) \/ UnmountFs(m) \/ Watchdog(m)
  \/ \E m \in Mount, b \in Block : FsWrite(m, b)
  \/ \E d \in Disk : Rewriter(d)
  \/ Crash \/ PowerCut \/ Start \/ ThawLeftover \/ ClearLeftovers

Spec == Init /\ [][Next]_vars

\* The process is started again when it dies, its timers fire, and its own
\* steps are taken, but a FIFREEZE may flush for ever: FreezeReturns is not fair.
Fairness ==
  /\ WF_vars(Start) /\ WF_vars(ThawLeftover) /\ WF_vars(ClearLeftovers)
  /\ \A m \in Mount : WF_vars(Watchdog(m))
  /\ \A d \in Disk : WF_vars(Settle(d) \/ Batch(d) \/ Thaw(d))

FairSpec == Spec /\ Fairness

-----------------------------------------------------------------------------
(* Properties.                                                             *)

TypeOK ==
  /\ mounted \subseteq Mount
  /\ frozen \subseteq Mount
  /\ content \in [Disk -> [Block -> BOOLEAN]]
  /\ wanted \in [Disk -> [Block -> BOOLEAN]]
  /\ rw \in [Disk -> Progress]
  /\ guard \in [Mount -> Guard]
  /\ marker \subseteq Mount
  /\ daemon \in [pc : {"run", "dead", "leftovers"}, left : SUBSET Mount]
  /\ crashes \in 0 .. MaxCrashes

\* "So nothing can write to a block between the daemon reading it and writing
\* it back" (README.md:259-260): no write of a filesystem is ever undone.
NothingLost == content = wanted

\* "Written and fsynced before the freeze and removed after the thaw"
\* (store.go:653-654): whatever the daemon has frozen is named on disk, at every
\* step, so that a start after a crash here would thaw it.
FrozenIsMarked == frozen \subseteq marker

\* A freeze has exactly one owner: a guard that has not released it, or the
\* Freeze call it has not yet come back from, until a crash leaves it to the
\* next start.  "Thaw is called exactly once" (rewrite.go:91).
Arriving(m) == \E d \in Disk : At(d, "settle") /\ m \in rw[d].freezing
ThawnOnce ==
  Running => \A m \in Mount : m \in frozen <=> Holds(m) \/ Arriving(m)

\* The point of the watchdog and of the marker: no filesystem stays frozen,
\* even if the next Freeze call never returns or the process dies.
FreezeEnds == \A m \in Mount : m \in frozen ~> m \notin frozen
=============================================================================
