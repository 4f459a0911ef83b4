------------------------------ MODULE Schedule ------------------------------
(***************************************************************************)
(* When one disk is read next (scheduler.go), on a machine whose clock may *)
(* be wrong.  Every date the daemon keeps was written by the clock of that *)
(* moment and is compared with the clock of a later one; in between the    *)
(* clock may be set: forwards when NTP lands on a machine that booted in   *)
(* 1970, backwards when it had run ahead.                                  *)
(*                                                                         *)
(* A date is the time left until it by the wall clock, negative once it is *)
(* past.  Setting the clock moves all of them; Floor is far enough in the  *)
(* past that no setting of the clock brings a date back from there.        *)
(* Supervisor has the goroutines, the files and the requests; here each of *)
(* them is one action, and the clock is what interleaves.                  *)
(***************************************************************************)
EXTENDS Integers

CONSTANTS
  IntervalInit, IntervalMin, IntervalMax,  \* scan_interval_*
  FactorClean, FactorSlow, FactorDanger,   \* <<numerator, denominator>>
  DropoutWindow, NearHangWindow,           \* suppress_after_*
  Retry, ExternalRetry,                    \* an hour, two hours
  Day,
  JitterPart,  \* the jitter is at most this part of the interval: a tenth
  Offsets,   \* how far from the true time the clock may stand
  Epoch,     \* the least offset that is past SanityEpoch
  Floor

\* What validate makes sure of.
Validated == IntervalMin < IntervalMax

ConfigAssumption ==
  /\ {IntervalInit, IntervalMin, IntervalMax, DropoutWindow, NearHangWindow,
      Retry, ExternalRetry, Day} \subseteq Nat
  /\ JitterPart \in Nat \ {0}
  /\ Validated
  /\ \A f \in {FactorClean, FactorSlow, FactorDanger} :
       f \in Nat \X Nat /\ f[2] > 0
ASSUME ConfigAssumption

ClockAssumption ==
  /\ Offsets \subseteq Int /\ 0 \in Offsets /\ Epoch \in Int /\ Floor \in Int
  /\ \A o, p \in Offsets : Floor < o - p
ASSUME ClockAssumption

VARIABLES
  clock,    \* the wall clock's distance from the true time
  sched,    \* the Schedule of the disk
  kept,     \* the window progress.json holds
  reader,   \* who is reading the disk
  asked,    \* ScanRequested
  owed,     \* history: what is left of the window the disk has earned, none of it
            \* once the clock was set forwards
  moved,    \* history: the clock was set since the plan was written
  rest      \* history: what is left of the rest the last recorded round earned the
            \* disk, none of it once a round was asked for or the clock set forwards

vars == <<clock, sched, kept, reader, asked, owed, moved, rest>>

Larger(a, b) == IF a < b THEN b ELSE a
Smaller(a, b) == IF a < b THEN a ELSE b

Synced == clock >= Epoch

(***************************************************************************)
(* The pure methods of Schedule.                                           *)
(***************************************************************************)

\* The zero time, which every comparison takes for long past.
Zero == Floor

NewSchedule == [interval |-> IntervalInit, next |-> 0, hold |-> Zero, last |-> Zero]

\* Half a unit is rounded away from zero.
Scale(d, f) == (2 * d * f[1] + f[2]) \div (2 * f[2])

Clamped(d) == Smaller(Larger(d, IntervalMin), IntervalMax)

\* What an outcome does to the interval.
Tightened(d, outcome) ==
  CASE outcome = "clean"   -> Scale(d, FactorClean)
    [] outcome = "slow"    -> Scale(d, FactorSlow)
    [] outcome = "media"   -> Scale(d, FactorSlow)
    [] outcome = "nearhang" -> Scale(d, FactorDanger)
    [] outcome = "dropout" -> Scale(d, FactorDanger)

\* The window an outcome opens, over the one there was.
Opened(hold, outcome) ==
  CASE outcome = "nearhang" -> NearHangWindow
    [] outcome = "dropout"  -> DropoutWindow
    [] OTHER                -> hold

\* Mutant: a cancelled round leaves the date where it was.
NeutralInPlace(s, outcome) ==
  [s EXCEPT !.last = 0, !.next = IF outcome = "cancelled" THEN @ ELSE ExternalRetry]

\* Neither learned anything: the interval stays as it is.
Neutral(s, outcome) ==
  [s EXCEPT !.last = 0, !.next = IF outcome = "cancelled" THEN Retry ELSE ExternalRetry]

\* Mutant: the jitter of an interval that was stretched first.
JittersStretched(interval) == 0 .. (1 + Day + interval \div JitterPart)

Jitters(interval) == 0 .. (interval \div JitterPart)

\* Where a pass that stopped half-way is taken up again.
Resume(hold) == Larger(IntervalMin, hold)

Next(s, outcome, completed, jitter) ==
  IF outcome \in {"cancelled", "external"} THEN Neutral(s, outcome)
  ELSE LET interval == Clamped(Tightened(s.interval, outcome))
           hold == Opened(s.hold, outcome)
           full == interval + jitter
           partial == ~completed /\ outcome \notin {"clean", "media"}
       IN [interval |-> interval,
           next     |-> IF partial THEN Smaller(full, Resume(hold)) ELSE full,
           hold     |-> hold,
           last     |-> 0]

Postpone(s) == [s EXCEPT !.next = Retry]

Due(s) == s.hold <= 0 /\ s.next <= 0

\* Mutant: the repair without its condition.
NeedsRebaseAlways(s) == TRUE

NeedsRebase(s) == s.next > s.interval + Day \/ s.last > 0

\* Mutant: a window that looks too far off is dropped, not trimmed.
RebaseDropping(s) ==
  IF NeedsRebase(s)
  THEN [s EXCEPT !.next = s.interval,
                 !.last = IF s.last > 0 THEN Zero ELSE @,
                 !.hold = IF s.hold > 2 * Day THEN Zero ELSE @]
  ELSE s

Rebase(s) ==
  IF NeedsRebase(s)
  THEN [s EXCEPT !.next = s.interval,
                 !.last = IF s.last > 0 THEN Zero ELSE @,
                 !.hold = IF s.hold > 2 * Day THEN Day ELSE @]
  ELSE s

-----------------------------------------------------------------------------
(***************************************************************************)
(* Time and the clock.                                                     *)
(***************************************************************************)

\* A date when the wall clock has gone on by d, or back by -d.
Shifted(t, d) == Larger(t - d, Floor)

ShiftedSchedule(s, d) ==
  [s EXCEPT !.next = Shifted(@, d), !.hold = Shifted(@, d), !.last = Shifted(@, d)]

Init ==
  /\ clock \in Offsets
  /\ sched = NewSchedule
  /\ kept = Zero
  /\ reader = "none"
  /\ asked = FALSE
  /\ owed = 0
  /\ moved = FALSE
  /\ rest = 0

Tick ==
  /\ sched' = ShiftedSchedule(sched, 1)
  /\ kept' = Shifted(kept, 1)
  /\ owed' = Larger(owed - 1, 0)
  /\ rest' = Larger(rest - 1, 0)
  /\ UNCHANGED <<clock, reader, asked, moved>>

\* NTP lands, somebody sets the clock, or the machine boots in 1970.
SetClock(o) ==
  /\ o # clock
  /\ clock' = o
  /\ sched' = ShiftedSchedule(sched, o - clock)
  /\ kept' = Shifted(kept, o - clock)
  /\ owed' = IF o > clock THEN 0 ELSE owed
  /\ rest' = IF o > clock THEN 0 ELSE rest
  /\ moved' = TRUE
  /\ UNCHANGED <<reader, asked>>

(***************************************************************************)
(* considerDisk, of an adopted and enabled disk that is plugged in: hold   *)
(* off while the clock is in 1970, repair the schedule, and start a round  *)
(* if the machine has been up for long enough, or was asked.               *)
(***************************************************************************)
Consider(young) ==
  /\ reader = "none"
  /\ Synced
  /\ sched' = Rebase(sched)
  /\ moved' = (moved /\ ~NeedsRebase(sched))
  /\ IF (young /\ ~asked) \/ ~Due(sched')
     THEN UNCHANGED <<reader, asked>>
     ELSE reader' = "round" /\ asked' = FALSE
  /\ UNCHANGED <<clock, kept, owed, rest>>

\* overrideCooldownLocked: a request inside a window is refused unless it is
\* forced, and then the window is gone.
Override(s, force) == IF force THEN [s EXCEPT !.hold = IF @ > 0 THEN Zero ELSE @] ELSE s

Granted(force) == reader = "none" /\ (force \/ sched.hold <= 0)

RequestScan(force) ==
  /\ Granted(force)
  /\ sched' = [Override(sched, force) EXCEPT !.next = 0]
  /\ asked' = TRUE
  /\ owed' = IF force THEN 0 ELSE owed
  /\ rest' = 0
  /\ UNCHANGED <<clock, kept, reader, moved>>

RequestSpeedTest(force) ==
  /\ Granted(force)
  /\ sched' = Override(sched, force)
  /\ reader' = "test"
  /\ owed' = IF force THEN 0 ELSE owed
  /\ UNCHANGED <<clock, kept, asked, moved, rest>>

\* The disk has earned a window: history only.
Earn(window) == owed' = Larger(owed, window)

\* onDropout: the window lies in progress.json before anything else happens.
RoundDropout ==
  /\ reader = "round"
  /\ kept' = DropoutWindow
  /\ reader' = "dropped"
  /\ Earn(DropoutWindow)
  /\ UNCHANGED <<clock, sched, asked, moved, rest>>

\* recordSpeedDropout, which moves the window and nothing else.
SpeedDropout ==
  /\ reader = "test"
  /\ kept' = DropoutWindow
  /\ sched' = [sched EXCEPT !.hold = DropoutWindow]
  /\ reader' = "none"
  /\ Earn(DropoutWindow)
  /\ UNCHANGED <<clock, asked, moved, rest>>

SpeedEnd ==
  /\ reader = "test"
  /\ reader' = "none"
  /\ UNCHANGED <<clock, sched, kept, asked, owed, moved, rest>>

\* persistRound never lets its own copy undo the window progress.json holds.
Merged(s) == [s EXCEPT !.hold = Larger(@, kept)]

\* How long a round of that outcome leaves the disk alone: a pass that stopped
\* half-way is taken up at the floor, and jitter only adds to it.  History only.
Rest(outcome, completed, interval) ==
  CASE outcome = "cancelled" -> Retry
    [] outcome = "external"  -> ExternalRetry
    [] OTHER -> IF completed \/ outcome \in {"clean", "media"} THEN interval ELSE IntervalMin

Outcomes == {"clean", "slow", "media", "nearhang", "cancelled", "external"}

RoundEnd(outcome, completed) ==
  /\ \/ reader = "round" /\ outcome \in Outcomes
     \/ reader = "dropped" /\ outcome = "dropout" /\ ~completed
  /\ \E jitter \in Jitters(IntervalMax) :
       /\ sched' = Merged(Next(sched, outcome, completed, jitter))
       /\ jitter \in Jitters(sched'.interval)
  /\ reader' = "none"
  /\ moved' = FALSE
  /\ rest' = Rest(outcome, completed, sched'.interval)
  /\ IF outcome = "nearhang" THEN Earn(NearHangWindow) ELSE UNCHANGED owed
  /\ UNCHANGED <<clock, kept, asked>>

\* recordRound of a round that ended before it had read a block.
RoundEndedUnread ==
  /\ reader = "round"
  /\ sched' = Postpone(sched)
  /\ reader' = "none"
  /\ rest' = Retry
  /\ UNCHANGED <<clock, kept, asked, owed, moved>>

\* The disk could not be opened, warmed up or lined up: runRound returns with
\* nothing recorded, and the disk is as due as it was.
RoundFailed ==
  /\ reader = "round"
  /\ reader' = "none"
  /\ UNCHANGED <<clock, sched, kept, asked, owed, moved, rest>>

NextStep ==
  \/ Tick
  \/ \E o \in Offsets : SetClock(o)
  \/ \E young \in BOOLEAN : Consider(young)
  \/ \E force \in BOOLEAN : RequestScan(force) \/ RequestSpeedTest(force)
  \/ RoundDropout \/ SpeedDropout \/ SpeedEnd
  \/ \E o \in Outcomes \cup {"dropout"}, c \in BOOLEAN : RoundEnd(o, c)
  \/ RoundEndedUnread \/ RoundFailed

Spec == Init /\ [][NextStep]_vars

\* Time goes on, the supervisor ticks, and whoever reads the disk comes to an
\* end.  A tick that meets a speed test comes back after it.
Fairness ==
  /\ WF_vars(Tick)
  /\ SF_vars(Consider(FALSE))
  /\ WF_vars(SpeedEnd \/ SpeedDropout)
  /\ WF_vars(RoundEndedUnread \/ RoundFailed \/ \E o \in Outcomes \cup {"dropout"}, c \in BOOLEAN : RoundEnd(o, c))

LiveSpec == Spec /\ Fairness

-----------------------------------------------------------------------------
\* Dates are whole units no older than Floor; the interval leaves its initial
\* value only for one between the configured bounds.
TypeOK ==
  /\ clock \in Offsets
  /\ sched \in [interval : {IntervalInit} \cup (IntervalMin .. IntervalMax),
                next : Int, hold : Int, last : Int]
  /\ {sched.next, sched.hold, sched.last, kept} \subseteq {t \in Int : t >= Floor}
  /\ reader \in {"none", "round", "dropped", "test"}
  /\ {asked, moved} \subseteq BOOLEAN
  /\ {owed, rest} \subseteq Nat

(***************************************************************************)
(* Safety.                                                                 *)
(***************************************************************************)

\* No reader starts inside a window the disk has earned, whatever was done to
\* the clock short of setting it forwards: not after a rebase, and not by an
\* outcome that opens a shorter window (Next, RebaseIfClockUnsynced).
WindowHeld == [][reader = "none" /\ reader' # "none" => owed' = 0]_vars

\* A disk whose round was recorded is left alone for as long as the round's
\* outcome says: no repair of the schedule, no clock set back, no merge of a
\* window and no speed test in between brings the next round forward ("fires
\* instantly and forever", scheduler.go:10-15).  Only a request and a clock set
\* forwards do.  A round that failed before it read records nothing and puts
\* nothing between itself and the next tick: RoundFailed leaves rest at zero.
NotBeforeItsTime == [][reader = "none" /\ reader' = "round" => rest = 0]_vars

\* Under the clock it was written with, a repair takes away jitter and nothing
\* else: no date of the last round, no plan made longer than its interval and
\* jitter explain.  Where the jitter is longer than a day, as it is of the
\* thirty days the default allows, a clock that was never wrong does not keep a
\* schedule from being repaired (RebaseIfClockUnsynced: "a schedule written
\* against a bogus clock").
RepairTakesOnlyJitter ==
  ~moved /\ NeedsRebase(sched) =>
    /\ sched.last <= 0
    /\ sched.next <= sched.interval + sched.interval \div JitterPart

\* Once the clock says that the last schedule was repaired or never needed it,
\* no window is further off than the longest the daemon hands out.
NeverHeldForYears ==
  ~moved /\ clock = 0 => sched.hold <= Larger(2 * Day, Larger(DropoutWindow, NearHangWindow))

(***************************************************************************)
(* Liveness.                                                               *)
(***************************************************************************)

\* "Or never fires at all" (scheduler.go:10-15): whatever the clock has been
\* through, once it stays right the disk is read again and again.
KeepsComing == <>[](clock = 0 /\ reader # "test") => []<>(reader = "round")
=============================================================================
