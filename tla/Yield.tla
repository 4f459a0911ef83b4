------------------------------- MODULE Yield -------------------------------
(***************************************************************************)
(* One round and whoever else uses its disk (ExternalIOMonitor in duty.go, *)
(* readSettled in scanner.go).  The round sees the others only through the *)
(* kernel's counters, which count its own I/O too, and it looks at them    *)
(* twice: Sample over a whole segment, to yield to the others, and Begin   *)
(* and End around one read, to tell a slow block from a read that waited   *)
(* for somebody else's request.                                            *)
(*                                                                         *)
(* A counter is kept as what the kernel counted since the last look, less  *)
(* what the monitor has recorded as the round's own; a time is kept as its *)
(* age, and a unit of reading is a block.                                  *)
(***************************************************************************)
EXTENDS Integers

CONSTANTS
  ReadRate, WriteRate,   \* foreign_read_mbps, foreign_write_iops, per tick
  YieldMax, YieldGiveUp,
  ContentionSettle, ContentionRetries,
  WindowReuse,
  MaxCount      \* bound: where a counter stops counting

ASSUME YieldAssumption ==
  /\ {ReadRate, WriteRate, YieldGiveUp, ContentionRetries} \subseteq Nat
  /\ {YieldMax, ContentionSettle, WindowReuse, MaxCount} \subseteq Nat \ {0}

VARIABLES
  pc,       \* ready, waiting, gaveup, reading, ending, failed, settling or resting
  phase,    \* sweep, rewrite, or probe: only reads are left to do
  left,     \* what is left of the sleep
  since,    \* the counters since the last sample, if there was one
  win,      \* the counters since the last Begin or End
  yield,    \* yieldStep and busySince
  blk,      \* readSettled's block
  truth     \* history: what was done on the disk, whoever counted it

vars == <<pc, phase, left, since, win, yield, blk, truth>>

None == -1
Smaller(a, b) == IF a < b THEN a ELSE b

Look(ok) == [ok |-> ok, reads |-> 0, writes |-> 0, age |-> 0, reset |-> FALSE]
\* step is 1 << yieldStep, the next wait of the ladder.
Patient == [step |-> 1, for |-> None]

\* verdict: what readSettled returned.  The rest is history: a reading was slow
\* with nothing else done near it, or during it; the counters could not tell.
NoBlock == [try |-> 0, slow |-> FALSE, verdict |-> "none",
            alone |-> FALSE, unshared |-> FALSE, blind |-> FALSE]

\* Whether since the last sample the others did anything, or a read of the round
\* failed; the age of what the others did last; whether it was near the reading
\* (no longer than WindowReuse before it), or during it; the age of the last
\* sample that was not busy.
NoTruth == [cause |-> FALSE, age |-> WindowReuse, near |-> FALSE, during |-> FALSE, quiet |-> 0]

\* NewExternalIOMonitor: each round has one of its own.
Init ==
  /\ pc = "ready" /\ phase = "sweep" /\ left = 0
  /\ since = Look(FALSE) /\ win = Look(FALSE) /\ yield = Patient
  /\ blk = NoBlock /\ truth = NoTruth

RoundEnds ==
  /\ pc \in {"ready", "gaveup", "waiting", "settling", "resting"}
  /\ pc' = "ready" /\ phase' = "sweep" /\ left' = 0
  /\ since' = Look(FALSE) /\ win' = Look(FALSE) /\ yield' = Patient
  /\ blk' = NoBlock /\ truth' = NoTruth

(***************************************************************************)
(* The disk: time, the others, and a device that re-enumerates, which sets *)
(* its counters back to zero.                                              *)
(***************************************************************************)

Older(age, cap) == Smaller(age + 1, cap)

Tick ==
  /\ left' = IF left = 0 THEN 0 ELSE left - 1
  /\ since' = [since EXCEPT !.age = Older(@, MaxCount)]
  /\ win' = [win EXCEPT !.age = Older(@, WindowReuse)]
  /\ yield' = [yield EXCEPT !.for = IF @ = None THEN None ELSE Older(@, YieldGiveUp + 1)]
  /\ truth' = [truth EXCEPT !.age = Older(@, WindowReuse), !.quiet = Older(@, YieldGiveUp + 1)]
  /\ UNCHANGED <<pc, phase, blk>>

Plus(look, r, w, cap) ==
  IF look.ok THEN [look EXCEPT !.reads = Smaller(@ + r, cap), !.writes = Smaller(@ + w, cap)]
  ELSE look
\* The window is only asked whether there was anything.
Counted(r, w) == since' = Plus(since, r, w, MaxCount) /\ win' = Plus(win, r, w, 1)

InRead == pc \in {"reading", "ending"}

Others ==
  /\ \E r, w \in 0 .. 1 : r + w = 1 /\ Counted(r, w)
  /\ truth' = [truth EXCEPT !.cause = TRUE, !.age = 0, !.near = InRead, !.during = InRead]
  /\ UNCHANGED <<pc, phase, left, yield, blk>>

Again(look) == [Look(look.ok) EXCEPT !.age = look.age, !.reset = look.ok]
Reset ==
  /\ since' = Again(since) /\ win' = Again(win)
  /\ UNCHANGED <<pc, phase, left, yield, blk, truth>>

(***************************************************************************)
(* Yielding to the others (Sample, busy, WaitIfBusy).                      *)
(***************************************************************************)

Over(look) == look.reads > ReadRate * look.age \/ look.writes > WriteRate * look.age

\* The first sample has nothing to compare with.  A counter that went backwards
\* says nothing, and after a reset it may have gone backwards or have caught up.
Readings == {since.ok /\ Over(since)} \cup (IF since.reset THEN {FALSE} ELSE {})

Sampled(busy) ==
  /\ busy \in Readings /\ since' = Look(TRUE)
  /\ truth' = [truth EXCEPT !.cause = FALSE, !.quiet = IF busy THEN @ ELSE 0]

Proceed == pc' = "ready" /\ left' = 0

\* Counters that cannot be read are no reason to stop reading.
Unreadable == Proceed /\ UNCHANGED <<since, yield, truth>>

\* Mutant: the spell is not forgotten when the disk is quiet.
QuietKept == Proceed /\ Sampled(FALSE) /\ yield' = [yield EXCEPT !.step = 1]
Quiet == Sampled(FALSE) /\ Proceed /\ yield' = Patient

\* The rungs of the ladder: 1, 2, 4, ... ticks, up to YieldMax.
BackOff(y) ==
  IF y.for > YieldGiveUp
  THEN pc' = "gaveup" /\ left' = 0 /\ yield' = y
  ELSE /\ pc' = "waiting"
       /\ left' = Smaller(y.step, YieldMax)
       /\ yield' = IF y.step > YieldMax THEN y ELSE [y EXCEPT !.step = 2 * @]

\* Mutant: each sample that is busy starts the spell again.
StillBusyAnew == Sampled(TRUE) /\ BackOff([yield EXCEPT !.for = 0])
StillBusy == Sampled(TRUE) /\ BackOff(yield)

FoundBusy ==
  /\ Sampled(TRUE)
  /\ BackOff(IF yield.for = None THEN [yield EXCEPT !.for = 0] ELSE yield)

\* At every segment of the sweep and every batch of the rewrite, which may
\* begin once the sweep is over.
WaitIfBusy ==
  /\ pc = "ready" /\ phase # "probe"
  /\ phase' \in {phase, "rewrite"}
  /\ Unreadable \/ Quiet \/ FoundBusy
  /\ blk' = NoBlock /\ UNCHANGED win

Wakes ==
  /\ pc = "waiting" /\ left = 0
  /\ Unreadable \/ Quiet \/ StillBusy
  /\ UNCHANGED <<phase, win, blk>>

\* A sweep that gave up re-probes what it had found until then; a rewrite reads
\* what it has written back, after the delay of the re-probe.
Rests(p) ==
  /\ phase = p
  /\ pc' = "resting" /\ left' = IF p = "rewrite" THEN WindowReuse ELSE 0
  /\ UNCHANGED <<phase, since, win, yield, blk, truth>>

StopsYielding ==
  \/ pc = "gaveup" /\ (Rests("sweep") \/ Rests("rewrite"))
  \/ pc = "ready" /\ Rests("rewrite")

Probes ==
  /\ pc = "resting" /\ left = 0
  /\ pc' = "ready" /\ phase' = "probe"
  /\ UNCHANGED <<left, since, win, yield, blk, truth>>

(***************************************************************************)
(* One read and what else was on the disk (Begin, End, readSettled).       *)
(***************************************************************************)

\* Mutant: the last look at the counters opens the window, however old.
FreshEver == win.ok
Fresh == win.ok /\ win.age < WindowReuse

Opened == \E ok \in BOOLEAN : win' = Look(ok)

Begin ==
  /\ left = 0 /\ phase # "rewrite" /\ pc \in {"ready", "settling"}
  /\ IF Fresh THEN UNCHANGED win ELSE Opened
  /\ truth' = [truth EXCEPT !.near = truth.age < WindowReuse, !.during = FALSE]
  /\ pc' = "reading"
  /\ blk' = IF pc = "ready" THEN NoBlock ELSE blk
  /\ UNCHANGED <<phase, left, since, yield>>

\* A read is counted by the kernel and, by End, as the round's own.  One that
\* failed the kernel counts or not, and End never.
Read ==
  /\ pc = "reading"
  /\ \E result \in {"fast", "slow", "failed"} :
       /\ Counted(0, 0) \/ (result = "failed" /\ Counted(1, 0))
       /\ pc' = IF result = "failed" THEN "failed" ELSE "ending"
       /\ blk' = [blk EXCEPT !.slow = (result = "slow")]
       /\ truth' = [truth EXCEPT !.cause = @ \/ result = "failed"]
  /\ UNCHANGED <<phase, left, yield>>

\* Mutant: only writes tell that the disk was shared.
WroteOnly == {win.ok /\ win.writes > 0} \cup (IF win.reset THEN {FALSE} ELSE {})

\* f.Any of what End returns.
Shared == {win.ok /\ win.reads + win.writes > 0} \cup (IF win.reset THEN {FALSE} ELSE {})

Judged(any) ==
  CASE blk.slow /\ any /\ blk.try < ContentionRetries -> "settle"
    [] ~blk.slow /\ blk.try > 0 -> "contended"
    [] OTHER -> IF blk.slow THEN "slow" ELSE "fast"

\* The look that closes one read opens the next.
Closed == (win.ok /\ win' = Look(TRUE)) \/ win' = Look(FALSE)

End ==
  /\ pc = "ending" /\ Closed
  /\ \E shared \in (IF win'.ok THEN Shared ELSE {FALSE}) :
       LET judged == Judged(shared)
           seen == [blk EXCEPT !.blind = @ \/ win.reset \/ ~win'.ok,
                               !.alone = @ \/ (blk.slow /\ ~truth.near),
                               !.unshared = @ \/ (blk.slow /\ ~truth.during)]
       IN IF judged = "settle"
          THEN pc' = "settling" /\ left' = ContentionSettle /\ blk' = [seen EXCEPT !.try = @ + 1]
          ELSE pc' = "ready" /\ left' = 0 /\ blk' = [seen EXCEPT !.verdict = judged]
  /\ UNCHANGED <<phase, since, yield, truth>>

\* What comes of a read that failed is the round's to say.
EndFailed ==
  /\ pc = "failed" /\ Closed
  /\ pc' = "ready" /\ blk' = NoBlock
  /\ UNCHANGED <<phase, left, since, yield, truth>>

(***************************************************************************)
(* The round's own writes (Rewriter.Run and verify), under no window.      *)
(***************************************************************************)

\* Mutant: a block that was written back is not recorded.
WrittenUnrecorded == Counted(1, 1)
\* Recorded as both a read and a write; the window is not told.
Written == since' = since /\ win' = Plus(win, 1, 1, 1)

WriteBack ==
  /\ pc = "ready" /\ phase = "rewrite" /\ Written
  /\ UNCHANGED <<pc, phase, left, yield, blk, truth>>

\* A block that did not fill the buffer is left alone, and its read unrecorded.
SkipBack ==
  /\ pc = "ready" /\ phase = "rewrite" /\ Counted(1, 0)
  /\ truth' = [truth EXCEPT !.cause = TRUE]
  /\ UNCHANGED <<pc, phase, left, yield, blk>>

Program ==
  \/ WaitIfBusy \/ Wakes \/ StopsYielding \/ Probes \/ Begin \/ Read \/ End \/ EndFailed
  \/ WriteBack \/ SkipBack \/ RoundEnds

Next == Program \/ Tick \/ Others \/ Reset

Spec == Init /\ [][Next]_vars

\* Time passes, and a timer that has run out fires.
LiveSpec == Spec /\ WF_vars(Tick) /\ WF_vars(Wakes)

(***************************************************************************)
(* What the counters are for.                                              *)
(***************************************************************************)

Counters == [ok : BOOLEAN, reads : Nat, writes : Nat, age : Nat, reset : BOOLEAN]

\* Each variable is a record of the fields the monitor and readSettled keep;
\* a block is read at most ContentionRetries times over.
TypeOK ==
  /\ pc \in {"ready", "waiting", "gaveup", "reading", "ending", "failed", "settling", "resting"}
  /\ phase \in {"sweep", "rewrite", "probe"}
  /\ left \in Nat
  /\ since \in Counters /\ win \in Counters
  /\ yield \in [step : Nat, for : Nat \cup {None}]
  /\ blk \in [try : 0 .. ContentionRetries, slow : BOOLEAN,
              verdict : {"none", "slow", "fast", "contended"},
              alone : BOOLEAN, unshared : BOOLEAN, blind : BOOLEAN]
  /\ truth \in [cause : BOOLEAN, age : Nat, near : BOOLEAN, during : BOOLEAN, quiet : Nat]

\* The round never backs off from its own reads and writes (duty.go:311-315 and
\* 304-307): it begins to wait only where somebody else used the disk since the
\* last sample.  A read of its own that failed is not taken out.
NeverYieldsToItself ==
  [][pc' = "waiting" /\ left' > left => truth.cause]_vars

\* A block that was slow while nobody else used the disk, neither during the read
\* nor in the window before it that may still be counted against it, keeps its
\* bad reading (readSettled, scanner.go:550-556): no other party's request that is
\* older excuses it, and no fast reading after it does.
SlowAloneStands == blk.verdict = "contended" => ~blk.alone

\* A block is called slow only on a reading with the disk to itself, or when
\* every re-read was shared too, or where the counters could not tell
\* (scanner.go:553-558).
SlowHasEvidence ==
  blk.verdict = "slow" => blk.unshared \/ blk.blind \/ blk.try = ContentionRetries

\* A round is given up to the others only when no sample found the disk quiet
\* for longer than YieldGiveUp (WaitIfBusy, duty.go:364-367).
GivesUpOnlyOnSustainedUse ==
  [][pc' = "gaveup" => truth.quiet > YieldGiveUp]_vars

\* Waiting for others who never stop ends as well (duty.go:364-367: stopping on
\* any foreign I/O would stop the round forever).
WaitEnds == pc = "waiting" ~> pc # "waiting"
=============================================================================
