------------------------------- MODULE Scanner -------------------------------
(***************************************************************************)
(* The scanner of one disk, round after round: the order in which a round  *)
(* visits the segments, where it backs off, what it defers, why it stops,  *)
(* and the cursor and the debt it leaves for the next one.                 *)
(*                                                                         *)
(* Offsets are block numbers and a segment is a number too.  The order of  *)
(* a round is the set of the segments it has not finished with (left) and  *)
(* the rule that picks the next.  A latency is only the side of the slow   *)
(* and danger lines it falls on, after readSettled has ruled out other I/O.*)
(***************************************************************************)
EXTENDS Integers, FiniteSets

CONSTANTS
  Blocks,        \* blocks on the disk
  PerSeg,        \* blocks in a segment
  SlowSkip, DangerSkip,   \* segments deferred past a slow or a dangerous block
  MaxDanger,     \* near-hangs that end a round
  BreakerMin, BreakerShare,  \* the circuit breaker: a slow block in BreakerShare
  Troubles       \* what may happen to this disk

\* What a read may come to, and what else ends a round: stop is its context, busy
\* another process's I/O, rewrite_gone a dropout while writing back, die the end
\* of the process.
AllTroubles == {"slow", "danger", "media", "gone", "fail", "align",
                "stop", "busy", "rewrite_gone", "die"}

ASSUME ScannerAssumption ==
  /\ Blocks \in Nat \ {0} /\ PerSeg \in Nat \ {0}
  /\ SlowSkip \in Nat /\ DangerSkip \in Nat
  /\ MaxDanger \in Nat \ {0}
  /\ BreakerMin \in Nat /\ BreakerShare \in Nat
  /\ Troubles \subseteq AllTroubles

Block == 0 .. Blocks - 1
SegCount == (Blocks + PerSeg - 1) \div PerSeg
Seg == 0 .. SegCount - 1
First(s) == s * PerSeg
Last(s) == IF First(s) + PerSeg < Blocks THEN First(s) + PerSeg ELSE Blocks
BlocksOf(s) == First(s) .. Last(s) - 1

VARIABLES
  cursor,  \* Schedule.Cursor, which is always the start of a segment: its number
  owed,    \* deferred.bits
  rd,      \* the running round, or the last one
  calm     \* the disk and its neighbours give no more trouble, for ever

vars == <<cursor, owed, rd, calm>>

\* clean, slow, near_hang, dropout, external, cancelled or media
Outcome == {"clean", "slow", "near_hang", "dropout", "external", "cancelled", "media"}
\* left: the segments of order from segIdx on.  lat: the blocks the sweep has a
\* latency for.  reached: the local cursor.  stopped: fatal is the context's
\* error.  Before a round pc is off, for a process just started, or idle.
Round ==
  [pc : {"off", "idle", "warmup", "sweep", "segment", "probe", "rewrite", "finish"},
   left : SUBSET Seg, at : 0 .. Blocks, reached : 0 .. Blocks, lat : SUBSET Block,
   again : SUBSET Seg, out : Outcome, stopped : BOOLEAN,
   slow : Nat, danger : Nat, media : BOOLEAN]
NewRound ==
  [pc |-> "warmup", left |-> Seg, at |-> 0, reached |-> First(cursor), lat |-> {},
   again |-> {}, out |-> "clean", stopped |-> FALSE, slow |-> 0, danger |-> 0, media |-> FALSE]
NoRound ==
  [pc |-> "off", left |-> {}, at |-> 0, reached |-> 0, lat |-> {}, again |-> {},
   out |-> "clean", stopped |-> FALSE, slow |-> 0, danger |-> 0, media |-> FALSE]

Init ==
  /\ cursor = 0
  /\ owed = {}
  /\ rd = NoRound
  /\ calm = FALSE

At(pc) == rd.pc = pc
Happens(t) == t \in Troubles /\ ~calm
Stored == <<cursor, owed, calm>>
Go(r) == rd' = r

\* A stop is no trouble of the disk's: people go on using the page.  Once calm
\* they let a round finish a segment first.
Stopped == /\ "stop" \in Troubles
           /\ calm => rd.left # Seg
Cancelled(r) == [r EXCEPT !.pc = "probe", !.out = "cancelled", !.stopped = TRUE]

-----------------------------------------------------------------------------
(* The order: what is owed first, then a rotation from the cursor.         *)

Distance(s) == (s + SegCount - cursor) % SegCount
OwedLast(s, left) ==  \* mutant of IsNext
  \A t \in left : Distance(s) <= Distance(t)
IsNext(s, left) ==
  IF s \in owed
  THEN \A t \in left \cap owed : s <= t
  ELSE left \cap owed = {} /\ \A t \in left : Distance(s) <= Distance(t)

\* markSegments
Marked(from, n) == {s \in Seg : from <= s /\ s <= from + n}

-----------------------------------------------------------------------------
(* Round.                                                                  *)

Begin ==
  /\ At("idle") \/ At("off")
  /\ Go(NewRound)
  /\ UNCHANGED Stored

\* LearnBaseline.  One that fails ends the round with finish: no block has been
\* read, nothing is deferred, and the cursor of its result was never set.
Warmup ==
  /\ At("warmup")
  /\ \/ Go([rd EXCEPT !.pc = "sweep"]) /\ UNCHANGED Stored
     \/ /\ Happens("gone")
        /\ cursor' = 0 /\ owed' = {}
        /\ Go([rd EXCEPT !.pc = "idle", !.out = "dropout"])
        /\ UNCHANGED calm
     \/ /\ Stopped \/ \E t \in {"media", "fail", "align"} : Happens(t)
        /\ Go([rd EXCEPT !.pc = "idle", !.out = "cancelled"])
        /\ UNCHANGED Stored

NextSegment ==
  /\ At("sweep") /\ rd.left # {}
  /\ \/ Stopped /\ Go(Cancelled(rd))
     \/ Happens("busy") /\ Go([rd EXCEPT !.pc = "probe", !.out = "external"])
     \/ \E s \in rd.left : IsNext(s, rd.left)
                           /\ Go([rd EXCEPT !.pc = "segment", !.at = First(s)])
  /\ UNCHANGED Stored

SweepEnds ==
  /\ At("sweep") /\ rd.left = {}
  /\ Go([rd EXCEPT !.pc = "probe"])
  /\ UNCHANGED Stored

Here == rd.at \div PerSeg
\* lat.Set, blocksRead++ and cursor = off + blockSize
ReadIt(r) == [r EXCEPT !.lat = @ \cup {r.at}, !.reached = r.at + 1]
Leave(r) == [r EXCEPT !.pc = "sweep", !.left = @ \ {Here}]
Worse(r) == [r EXCEPT !.out = IF @ = "clean" THEN "slow" ELSE @]

Tripped(r) == LET n == Cardinality(r.lat) IN n > BreakerMin /\ r.slow * BreakerShare > n

\* The breaker is behind the loop over the blocks, where a segment arrives that
\* was read to its end.
ReadFine ==
  /\ At("segment")
  /\ LET r == ReadIt(rd) IN
     \/ Stopped /\ Go(Cancelled(r))
     \/ rd.at + 1 < Last(Here) /\ Go([r EXCEPT !.at = @ + 1])
     \/ /\ rd.at + 1 = Last(Here)
        /\ Go(IF Tripped(r) THEN [r EXCEPT !.pc = "probe", !.out = "slow"] ELSE Leave(r))
  /\ UNCHANGED Stored

SlowOnly(r) == [r EXCEPT !.again = @ \cup (Marked(Here, SlowSkip) \ {Here})]  \* mutant of SlowAgain
SlowAgain(r) == [r EXCEPT !.again = @ \cup Marked(Here, SlowSkip)]

ReadSlow ==
  /\ At("segment") /\ Happens("slow")
  /\ LET r == Worse(SlowAgain([ReadIt(rd) EXCEPT !.slow = @ + 1]))
     IN  Go(Leave(r)) \/ (Stopped /\ Go(Cancelled(r)))
  /\ UNCHANGED Stored

ReadDanger ==
  /\ At("segment") /\ Happens("danger")
  /\ LET r == Worse([ReadIt(rd) EXCEPT !.danger = @ + 1,
                                       !.again = @ \cup Marked(Here, DangerSkip)])
     IN  \/ r.danger < MaxDanger /\ Go(Leave(r))
         \/ r.danger >= MaxDanger /\ Go([r EXCEPT !.pc = "probe", !.out = "near_hang"])
         \/ Stopped /\ Go(Cancelled(r))
  /\ UNCHANGED Stored

ReadMedia ==
  /\ At("segment") /\ Happens("media")
  /\ Go(Leave([rd EXCEPT !.media = TRUE, !.again = @ \cup {Here}]))
  /\ UNCHANGED Stored

\* A dropout, any other error, or a stop while waiting to read the block again.
\* After an alignment error Round has no result to record.
ReadEnds ==
  /\ At("segment")
  /\ \/ Happens("gone") /\ Go([rd EXCEPT !.pc = "probe", !.out = "dropout"])
     \/ Happens("fail") /\ Go([rd EXCEPT !.pc = "probe", !.out = "cancelled"])
     \/ Happens("align") /\ Go([rd EXCEPT !.pc = "idle", !.out = "cancelled"])
     \/ Stopped /\ Happens("slow") /\ Go(Cancelled(rd))
  /\ UNCHANGED Stored

\* The re-probe, whose errors and whose stop are not the round's: it only ends.
Probe ==
  /\ At("probe")
  /\ Go([rd EXCEPT !.pc = IF rd.out \in {"dropout", "cancelled", "external"}
                          THEN "finish" ELSE "rewrite"])
  /\ UNCHANGED Stored

\* rewriteDue and rewriter.Run, of which only a dropout changes the outcome.
Rewrite ==
  /\ At("rewrite")
  /\ \/ Go([rd EXCEPT !.pc = "finish"])
     \/ Happens("rewrite_gone") /\ Go([rd EXCEPT !.pc = "finish", !.out = "dropout"])
  /\ UNCHANGED Stored

-----------------------------------------------------------------------------
(* What the round leaves behind.                                           *)

Final(r) == IF r.out = "clean" /\ r.media THEN "media" ELSE r.out

Wrapped(s) == IF s * PerSeg >= Blocks THEN 0 ELSE s
NextCursor(out, reached) ==
  IF out \in {"clean", "media"} THEN Wrapped(cursor) ELSE Wrapped(reached \div PerSeg + 1)

Interrupted(r) == r.stopped /\ r.left # {}
\* mutant of Remaining: the bitmap holds only what the round deferred itself
Forgotten(r) == r.again
Remaining(r) == IF Interrupted(r) THEN r.again \cup (r.left \cap owed) ELSE r.again

Stepped(r) == NextCursor(Final(r), r.reached)  \* mutant of Resumed
\* resumeInterrupted, or nextCursor
Resumed(r) ==
  IF ~Interrupted(r) THEN NextCursor(Final(r), r.reached)
  ELSE LET s == CHOOSE s \in r.left : IsNext(s, r.left)
       IN  IF s \in owed THEN cursor ELSE s

\* A cancelled round that read nothing leaves no trace (recordRound).
Recorded(r) == r.out # "cancelled" \/ r.lat # {}

\* persistRound saves the debt first and the schedule, with the cursor, last.
Finish ==
  /\ At("finish")
  /\ \/ /\ Go([rd EXCEPT !.pc = "idle", !.out = Final(rd)])
        /\ IF Recorded(rd) THEN owed' = Remaining(rd) /\ cursor' = Resumed(rd)
           ELSE UNCHANGED <<cursor, owed>>
     \/ /\ Happens("die") /\ Recorded(rd)
        /\ Go([rd EXCEPT !.pc = "off", !.out = Final(rd)])
        /\ owed' = Remaining(rd) /\ UNCHANGED cursor
  /\ UNCHANGED calm

Dies ==
  /\ Happens("die") /\ ~At("off")
  /\ Go([rd EXCEPT !.pc = "off"])
  /\ UNCHANGED Stored

CalmsDown ==
  /\ ~calm /\ calm' = TRUE
  /\ UNCHANGED <<cursor, owed, rd>>

Sweep == NextSegment \/ SweepEnds \/ ReadFine \/ ReadSlow \/ ReadDanger \/ ReadMedia \/ ReadEnds
Step == Begin \/ Warmup \/ Sweep \/ Probe \/ Rewrite \/ Finish
Next == Step \/ Dies \/ CalmsDown

Spec == Init /\ [][Next]_vars
FairSpec == Spec /\ WF_vars(Step)

-----------------------------------------------------------------------------
(* Properties.                                                             *)

TypeOK ==
  /\ cursor \in Seg
  /\ owed \subseteq Seg
  /\ rd \in Round
  /\ calm \in BOOLEAN

Recording == At("finish") /\ rd'.pc = "idle" /\ Recorded(rd)
Attempted(s) == BlocksOf(s) \cap rd.lat # {} \/ s \in rd.again

\* "Skipped segments are deferred and drained first next pass, so nothing is
\* dropped" (README.md:64-66), for a round that was swept to its end or was
\* interrupted, whether or not the process lives to save its schedule: what was
\* owed before it has been visited or is owed still.  Of a round that ends
\* otherwise, by a dropout, near-hangs, the breaker or giving up to other users,
\* it is not so: it hands on what it deferred itself and drops what it still owed.
DebtHonoured ==
  [][At("finish") /\ (rd.left = {} \/ rd.stopped) =>
       \A s \in owed : Attempted(s) \/ s \in owed']_vars

\* A round that swept the disk has read every block, or owes its segment; and
\* one that says the disk is clean has read every block and owes nothing.
SweptOrOwed ==
  [][Recording => /\ rd.left = {} => \A s \in Seg : s \in owed' \/ BlocksOf(s) \subseteq rd.lat
                  /\ rd'.out = "clean" => rd.lat = Block /\ owed' = {}]_vars

\* The round after an interrupted one reads what it left before it reads again
\* what it finished (resumeInterrupted, scanner.go:888-894).
Ahead(s, t) == (s + SegCount - cursor') % SegCount < (t + SegCount - cursor') % SegCount
ResumesWhereStopped ==
  [][Recording /\ rd.stopped =>
       \A s \in rd.left, t \in Seg \ (rd.left \cup owed) : {s, t} \cap owed' = {} => Ahead(s, t)]_vars

\* Whatever cursor, debt and half-done round its troubles have left, a disk that
\* gives no more is read whole again and again, though every round be stopped
\* after its first segment.  "Everything past it never gets refreshed, which is
\* the failure this daemon exists to prevent" (scanner.go:859-861).
Recovers == \A b \in Block : calm ~> b \in rd.lat
=============================================================================
