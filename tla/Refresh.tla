------------------------------ MODULE Refresh ------------------------------
(***************************************************************************)
(* The refresh command (refresh.go): one whole disk rewritten in place,    *)
(* block by block, by a process of its own.  Four gates keep it off the    *)
(* wrong disk and off what it could not read; a dropout is survived by     *)
(* waiting for the same identity to come back.                             *)
(*                                                                         *)
(* A block's content is named by where it was born, <<disk, block>>.       *)
(***************************************************************************)
EXTENDS Identity

CONSTANTS
  Last,         \* blocks 0 .. Last - 1 are the range
  MaxDropouts,  \* the budget
  RaceOpen,     \* may the bus change between resolving a disk and opening it?
  NoDisk

ASSUME RefreshAssumption ==
  /\ Last \in Nat \ {0} /\ MaxDropouts \in Nat
  /\ RaceOpen \in BOOLEAN
  /\ NoDisk \notin Disk

Block == 0 .. (Last - 1)

VARIABLES
  phase,      \* the statement that runs next
  mode,       \* "rewrite" or "zero"
  want,       \* the identity that was confirmed: key and size
  at,         \* the presence in use, the last one discovery returned
  handle,     \* the disk the open handle is on, or NoDisk
  dead,       \* the disk of the handle has left the bus since
  off,        \* the block the loop is at
  buf,        \* what the buffer holds
  drops,      \* Dropouts
  skipped,    \* the blocks left untouched
  cancelled,  \* the context is done
  result,     \* how it ended
  target,     \* history: the disk the operator confirmed
  content,    \* what the media hold
  fresh       \* history: the blocks rewritten, of each disk

world == <<bus, mounted>>
loop == <<mode, want, target>>
media == <<content, fresh>>
vars == <<world, loop, media, phase, at, handle, dead, off, buf, drops,
          skipped, cancelled, result>>

NoPlace == [port |-> NoDisk, host |-> 0, node |-> 0]
Junk == <<NoDisk, 0>>
Zeroes == <<NoDisk, 1>>

Init ==
  /\ bus = [d \in {} |-> NoPlace] /\ mounted = {}
  /\ phase = "idle"
  /\ mode \in {"rewrite", "zero"}
  /\ want = [key |-> NoSerial, size |-> 0, stable |-> FALSE]
  /\ at = NoPlace
  /\ handle = NoDisk /\ dead = FALSE
  /\ off = 0 /\ drops = 0 /\ skipped = {}
  /\ buf = IF mode = "zero" THEN Zeroes ELSE Junk
  /\ cancelled = FALSE
  /\ result = "none"
  /\ target = NoDisk
  /\ content = [d \in Disk |-> [b \in Block |-> <<d, b>>]]
  /\ fresh = [d \in Disk |-> {}]

Ends(how) == phase' = "ended" /\ result' = how
\* An error that surfaces once the operator has given up is the interruption.
EndsWith(how) == Ends(IF cancelled THEN "interrupted" ELSE how)
Goto(p) == phase' = p /\ UNCHANGED result

-----------------------------------------------------------------------------
(***************************************************************************)
(* The gates.                                                              *)
(***************************************************************************)

\* Discover, the key and the confirmed serial, which may not be empty.
Resolve(d) ==
  /\ phase = "idle"
  /\ d \in Attached
  /\ Serial[d] # NoSerial
  /\ want' = [key |-> Key(d), size |-> Size[d], stable |-> KeyIsStable(d)]
  /\ at' = bus[d]
  /\ target' = d
  /\ Goto("check")
  /\ UNCHANGED <<world, mode, media, handle, dead, off, buf, drops, skipped, cancelled>>

\* Gate 2, by the node that was resolved; a dry run ends behind it.
CheckNotInUse ==
  /\ phase = "check"
  /\ \/ \E d \in Attached : bus[d].node = at.node /\ InUse(d) /\ Ends("refused")
     \/ (\A d \in Attached : bus[d].node = at.node => ~InUse(d)) /\ Goto("open")
     \/ (\A d \in Attached : bus[d].node = at.node => ~InUse(d)) /\ Ends("dry run")
  /\ UNCHANGED <<world, loop, media, at, handle, dead, off, buf, drops, skipped, cancelled>>

\* Gate 3: O_EXCL, of whatever disk has the node now.
OpensAt(node) == {d \in Attached : bus[d].node = node /\ ~InUse(d)}

Open ==
  /\ phase \in {"open", "reopen"}
  /\ \/ /\ \E d \in OpensAt(at.node) : handle' = d
        /\ Goto("top")
     \/ /\ OpensAt(at.node) = {}
        /\ IF phase = "open" THEN Ends("refused") ELSE EndsWith("failed")
        /\ UNCHANGED handle
  /\ dead' = FALSE
  /\ UNCHANGED <<world, loop, media, at, off, buf, drops, skipped, cancelled>>

-----------------------------------------------------------------------------
(***************************************************************************)
(* rewriteRange.                                                           *)
(***************************************************************************)

\* isDisconnect answers yes to ENODEV and ENXIO, asks whether the node is there
\* about EIO, and answers no to any other error.  A disk that is there may fail
\* to answer and be taken for gone, and one that is gone may fail with an error
\* that is taken for the block's own: either way an error goes both ways.
Top ==
  /\ phase = "top"
  /\ \/ off = Last /\ Goto("sync") /\ UNCHANGED handle
     \/ off < Last /\ cancelled /\ Ends("interrupted") /\ handle' = NoDisk
     \/ /\ off < Last /\ ~cancelled /\ UNCHANGED handle
        /\ Goto(IF mode = "rewrite" THEN "read" ELSE "write")
  /\ UNCHANGED <<world, loop, media, at, dead, off, buf, drops, skipped, cancelled>>

ReadBlock ==
  /\ phase = "read"
  /\ ~dead
  /\ buf' = content[handle][off]
  /\ Goto("write")
  /\ UNCHANGED <<world, loop, media, at, handle, dead, off, drops, skipped, cancelled>>

\* Mutant: the block that was not read is written all the same.
SkipNothing ==
  /\ phase = "read"
  /\ buf' = Junk
  /\ Goto("write")
  /\ UNCHANGED <<world, loop, media, at, handle, dead, off, drops, skipped, cancelled>>

\* Gate 4: a read that failed and was not taken for a dropout.  The buffer holds
\* anything.
SkipBlock ==
  /\ phase = "read"
  /\ buf' = Junk
  /\ skipped' = skipped \cup {off}
  /\ off' = off + 1
  /\ Goto("top")
  /\ UNCHANGED <<world, loop, media, at, handle, dead, drops, cancelled>>

\* The disk under the handle is written, whoever that is.
WriteBlock ==
  /\ phase = "write"
  /\ ~dead
  /\ content' = [content EXCEPT ![handle][off] = buf]
  /\ fresh' = [fresh EXCEPT ![handle] = @ \cup {off}]
  /\ off' = off + 1
  /\ Goto("top")
  /\ UNCHANGED <<world, loop, at, handle, dead, buf, drops, skipped, cancelled>>

WriteFails ==
  /\ phase = "write"
  /\ handle' = NoDisk
  /\ Ends("failed")
  /\ UNCHANGED <<world, loop, media, at, dead, off, buf, drops, skipped, cancelled>>

\* Mutants: a dropout that is not counted, and one that moves on.
Drop(n, next) ==
  /\ phase \in {"read", "write"}
  /\ buf' = IF phase = "read" THEN Junk ELSE buf
  /\ drops' = n
  /\ handle' = NoDisk
  /\ off' = next
  /\ IF drops' > MaxDropouts THEN Ends("gave up") ELSE Goto("wait")
  /\ UNCHANGED <<world, loop, media, at, dead, skipped, cancelled>>
DroppedUncounted == Drop(drops, off)
DroppedOnward == Drop(drops + 1, off + 1)

\* What the loop does about a dropout: the block is tried again.
Dropped ==
  /\ phase \in {"read", "write"}
  /\ buf' = IF phase = "read" THEN Junk ELSE buf
  /\ drops' = drops + 1
  /\ handle' = NoDisk
  /\ IF drops' > MaxDropouts THEN Ends("gave up") ELSE Goto("wait")
  /\ UNCHANGED <<world, loop, media, at, dead, off, skipped, cancelled>>

\* Mutant: the key is enough.
ReattachedAtAnySize(d) ==
  /\ phase = "wait"
  /\ d \in Found(want.key)
  /\ at' = bus[d]
  /\ Goto("reopen")
  /\ UNCHANGED <<world, loop, media, handle, dead, off, buf, drops, skipped, cancelled>>

\* WaitForReattach: the same key at the same capacity, alive and readable.
Reattached(d) ==
  /\ phase = "wait"
  /\ d \in Found(want.key)
  /\ Size[d] = want.size
  /\ at' = bus[d]
  /\ Goto("reopen")
  /\ UNCHANGED <<world, loop, media, handle, dead, off, buf, drops, skipped, cancelled>>

\* A stranger wears the key, the deadline is over, or the context is done.
GivesUpWaiting ==
  /\ phase = "wait"
  /\ EndsWith("failed")
  /\ UNCHANGED <<world, loop, media, at, handle, dead, off, buf, drops, skipped, cancelled>>

Sync ==
  /\ phase = "sync"
  /\ \/ ~dead /\ Ends("complete")
     \/ Ends("failed")
  /\ handle' = NoDisk
  /\ UNCHANGED <<world, loop, media, at, dead, off, buf, drops, skipped, cancelled>>

Loop ==
  \/ Top \/ ReadBlock \/ SkipBlock \/ WriteBlock \/ WriteFails \/ Dropped
  \/ (\E d \in Disk : Reattached(d)) \/ GivesUpWaiting \/ Sync
Command == (\E d \in Disk : Resolve(d)) \/ CheckNotInUse \/ Open \/ Loop

-----------------------------------------------------------------------------
(***************************************************************************)
(* The world around it.                                                    *)
(***************************************************************************)
command == <<loop, media, phase, at, handle, off, buf, drops, skipped, result>>

Resolved == phase \in {"check", "open", "reopen"}
BusMayChange == RaceOpen \/ ~Resolved

\* A handle, even on a disk that has left, keeps its number and its name.
Held == IF handle = NoDisk THEN {} ELSE {at}

Devices == {Device[d] : d \in Disk}

WorldStep ==
  \/ /\ BusMayChange
     /\ \/ /\ \E v \in Devices, port \in Port : Attach(v, port, Held)
           /\ UNCHANGED dead
        \/ \E v \in Devices : Detach(v) /\ dead' = (dead \/ handle \in LunsOf(v))
     /\ UNCHANGED <<command, cancelled>>
  \/ /\ \E d \in Disk :
          \/ Mount(d, IF dead THEN {} ELSE {handle})
          \/ Unmount(d)
     /\ UNCHANGED <<command, cancelled, dead>>
  \/ /\ ~cancelled /\ cancelled' = TRUE
     /\ UNCHANGED <<command, world, dead>>

\* The process is gone.
Done == phase = "ended" /\ UNCHANGED vars

Next == Command \/ (phase # "ended" /\ WorldStep) \/ Done

Spec == Init /\ [][Next]_vars

\* The process runs, every read and write returns, and a wait has a deadline.
Fairness == WF_vars(CheckNotInUse \/ Open \/ Loop)

LiveSpec == Spec /\ Fairness

-----------------------------------------------------------------------------
\* Phases, results and places are the ones named above.
TypeOK ==
  /\ Attached \subseteq Disk /\ mounted \subseteq Attached
  /\ phase \in {"idle", "check", "open", "top", "read", "write", "wait", "reopen",
                "sync", "ended"}
  /\ mode \in {"rewrite", "zero"}
  /\ {handle, target} \subseteq Disk \cup {NoDisk}
  /\ {dead, cancelled, want.stable} \subseteq BOOLEAN
  /\ off \in 0 .. Last /\ skipped \subseteq Block
  /\ drops \in 0 .. (MaxDropouts + 1)
  /\ result \in {"none", "refused", "dry run", "interrupted", "failed", "gave up",
                 "complete"}
  /\ \A d \in Disk : fresh[d] \subseteq Block

(***************************************************************************)
(* Safety.                                                                 *)
(***************************************************************************)

\* The handle that is written through is the confirmed disk's, before and after
\* every dropout, and nobody has that disk mounted; and it is closed on every
\* way out of the loop (gates 1 to 3, WaitForReattach, rewriteRange).
HandleIsOurs ==
  /\ handle # NoDisk => handle = target /\ (dead \/ ~InUse(handle))
  /\ phase \in {"wait", "reopen", "ended"} => handle = NoDisk

\* A rewrite changes no byte of any disk, whichever reads failed, however often
\* the disk dropped out; zeroing reaches the confirmed disk alone (gate 4).
ContentKept ==
  \A d \in Disk, b \in Block :
    content[d][b] = <<d, b>> \/ (d = target /\ mode = "zero")

\* What lies behind the offset has been rewritten or was left alone on purpose:
\* the range an interrupted refresh prints, or a dropout retries, leaves no
\* hole, and a refresh that says complete has been everywhere.
NoHole ==
  /\ target # NoDisk => \A b \in Block : b < off => b \in fresh[target] \cup skipped
  /\ result = "complete" => off = Last

\* A stick with a stable key comes back under it, so that a dropout is survived:
\* "so a rename from sda to sdb after a dropout rebinds automatically"
\* (README.md:58).
ComesBackUnderItsKey ==
  phase = "wait" /\ target \in Attached /\ want.stable /\ ~Collides(target)
    /\ LunsOf(Device[target]) = {target}
    => Key(target) = want.key

(***************************************************************************)
(* Liveness.                                                               *)
(***************************************************************************)

\* A refresh that was started ends, whatever the bus does: dropouts have a
\* budget, and waiting has a deadline.
RefreshEnds == (phase = "check") ~> (phase = "ended")
=============================================================================
