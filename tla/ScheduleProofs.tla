--------------------------- MODULE ScheduleProofs ---------------------------
(***************************************************************************)
(* For every configuration with its windows within a day and its retries   *)
(* within the shortest interval: the daemon keeps out of an earned window  *)
(* and leaves a disk alone for as long as its last recorded round says,    *)
(* whatever is done to the clock short of setting it forwards, and a       *)
(* repair under a clock that was right takes away nothing but jitter.      *)
(***************************************************************************)
EXTENDS Schedule, TLAPS

Dates == {t \in Int : t >= Floor}
Intervals == {IntervalInit} \cup (IntervalMin .. IntervalMax)
Plans == [interval : Intervals, next : Dates, hold : Dates, last : Dates]
AllOutcomes == Outcomes \cup {"dropout"}

USE DEF Zero

(***************************************************************************)
(* Arithmetic on dates and intervals.                                      *)
(***************************************************************************)

LEMMA Constants ==
  /\ {IntervalInit, IntervalMin, IntervalMax, DropoutWindow, NearHangWindow,
      Retry, ExternalRetry, Day} \subseteq Nat
  /\ IntervalMin < IntervalMax /\ JitterPart \in Nat \ {0}
  /\ Floor \in Int /\ Floor < 0 /\ Epoch \in Int /\ Offsets \subseteq Int /\ Intervals \subseteq Nat
<1>1. Floor < 0 - 0 /\ Floor \in Int /\ Epoch \in Int /\ Offsets \subseteq Int
  BY ClockAssumption DEF ClockAssumption
<1>2. /\ {IntervalInit, IntervalMin, IntervalMax, DropoutWindow, NearHangWindow,
          Retry, ExternalRetry, Day} \subseteq Nat
      /\ IntervalMin < IntervalMax /\ JitterPart \in Nat \ {0}
  BY ConfigAssumption DEF ConfigAssumption, Validated
<1>3. Intervals \subseteq Nat
  BY <1>2 DEF Intervals
<1> QED BY <1>1, <1>2, <1>3

LEMMA NatDates == Nat \subseteq Dates /\ Floor \in Dates
BY Constants DEF Dates

LEMMA ShiftedDate ==
  ASSUME NEW t \in Dates, NEW d \in Int
  PROVE  /\ Shifted(t, d) \in Dates
         /\ Shifted(t, d) = t - d \/ (Shifted(t, d) = Floor /\ t - d < Floor)
BY Constants DEF Dates, Shifted, Larger

LEMMA LargerDate ==
  ASSUME NEW a \in Dates, NEW b \in Dates
  PROVE  /\ Larger(a, b) \in Dates /\ Larger(a, b) >= a /\ Larger(a, b) >= b
         /\ Larger(a, b) \in {a, b}
BY Constants DEF Dates, Larger

\* An interval that was scaled is clamped between the configured bounds.
LEMMA ClampedInterval ==
  ASSUME NEW d \in Intervals, NEW outcome \in AllOutcomes \ {"cancelled", "external"}
  PROVE  Clamped(Tightened(d, outcome)) \in IntervalMin .. IntervalMax
<1>1. \A a \in Int, b \in Nat \ {0} : a \div b \in Int
  OBVIOUS
<1>2. \A x, y \in Nat : x * y \in Nat
  OBVIOUS
<1>3. ASSUME NEW f \in {FactorClean, FactorSlow, FactorDanger}
      PROVE  Scale(d, f) \in Int
  <2>1. f[1] \in Nat /\ f[2] \in Nat /\ f[2] > 0
    BY ConfigAssumption DEF ConfigAssumption
  <2>2. d \in Nat
    BY Constants
  <2>3. 2 * d \in Nat
    BY <2>2
  <2>4. 2 * d * f[1] \in Nat
    BY <2>3, <2>1, <1>2
  <2>5. 2 * d * f[1] + f[2] \in Int /\ 2 * f[2] \in Nat \ {0}
    BY <2>4, <2>1
  <2> QED BY <2>5, <1>1 DEF Scale
<1>4. Tightened(d, outcome) \in Int
  BY <1>3 DEF Tightened, AllOutcomes, Outcomes
<1> QED BY <1>4, Constants DEF Clamped, Smaller, Larger

(***************************************************************************)
(* What the operations do to the schedule.                                 *)
(***************************************************************************)

LEMMA ShiftedFields ==
  ASSUME NEW s \in Plans, NEW d \in Int
  PROVE  /\ ShiftedSchedule(s, d) \in Plans
         /\ ShiftedSchedule(s, d).interval = s.interval
         /\ ShiftedSchedule(s, d).next = Shifted(s.next, d)
         /\ ShiftedSchedule(s, d).hold = Shifted(s.hold, d)
         /\ ShiftedSchedule(s, d).last = Shifted(s.last, d)
<1>1. Shifted(s.next, d) \in Dates /\ Shifted(s.hold, d) \in Dates /\ Shifted(s.last, d) \in Dates
  BY ShiftedDate DEF Plans
<1> QED BY <1>1 DEF ShiftedSchedule, Plans

LEMMA RebaseFields ==
  ASSUME NEW s \in Plans
  PROVE  /\ Rebase(s) \in Plans /\ Rebase(s).interval = s.interval
         /\ ~NeedsRebase(s) => Rebase(s) = s
         /\ NeedsRebase(s) => /\ Rebase(s).next = s.interval
                              /\ \/ Rebase(s).last = s.last /\ s.last <= 0
                                 \/ Rebase(s).last = Floor
                              /\ Rebase(s).hold = s.hold \/ (s.hold > 2 * Day /\ Rebase(s).hold = Day)
<1>1. s.interval \in Nat /\ s.interval \in Dates /\ Day \in Dates /\ Floor \in Dates /\ s.last \in Int
  BY Constants, NatDates DEF Plans, Dates
<1> DEFINE l == IF s.last > 0 THEN Zero ELSE s.last
           h == IF s.hold > 2 * Day THEN Day ELSE s.hold
<1>2. l \in Dates /\ h \in Dates /\ ((l = s.last /\ s.last <= 0) \/ l = Floor)
  BY <1>1 DEF Plans
<1>3. NeedsRebase(s) => Rebase(s) = [s EXCEPT !.next = s.interval, !.last = l, !.hold = h]
  BY DEF Rebase
<1>4. h = s.hold \/ (s.hold > 2 * Day /\ h = Day)
  OBVIOUS
<1> HIDE DEF l, h
<1>5. CASE NeedsRebase(s)
  BY <1>1, <1>2, <1>3, <1>4, <1>5 DEF Plans
<1>6. CASE ~NeedsRebase(s)
  BY <1>6 DEF Rebase
<1> QED BY <1>5, <1>6

LEMMA OverrideFields ==
  ASSUME NEW s \in Plans, NEW force \in BOOLEAN
  PROVE  /\ Override(s, force) \in Plans /\ Override(s, force).interval = s.interval
         /\ Override(s, force).next = s.next /\ Override(s, force).last = s.last
         /\ ~force => Override(s, force) = s
BY NatDates DEF Override, Plans

\* The four lengths of a rest.
LEMMA RestIs ==
  ASSUME NEW outcome \in AllOutcomes, NEW completed \in BOOLEAN, NEW interval
  PROVE  /\ outcome = "cancelled" => Rest(outcome, completed, interval) = Retry
         /\ outcome = "external" => Rest(outcome, completed, interval) = ExternalRetry
         /\ outcome \notin {"cancelled", "external"} =>
              Rest(outcome, completed, interval) =
                IF ~completed /\ outcome \notin {"clean", "media"} THEN IntervalMin ELSE interval
<1>1. CASE outcome = "cancelled"
  BY <1>1 DEF Rest
<1>2. CASE outcome = "external"
  BY <1>2 DEF Rest
<1>3. CASE outcome \notin {"cancelled", "external"} /\ (outcome \in {"clean", "media"} \/ completed)
  BY <1>3 DEF Rest
<1>4. CASE outcome \notin {"cancelled", "external"} /\ ~(outcome \in {"clean", "media"} \/ completed)
  BY <1>4 DEF Rest
<1> QED BY <1>1, <1>2, <1>3, <1>4

\* The outcome of a round: a window of its own, and no date before its rest.
LEMMA NextFields ==
  ASSUME NEW s \in Plans, NEW outcome \in AllOutcomes, NEW completed \in BOOLEAN,
         NEW jitter \in Jitters(IntervalMax)
  PROVE  LET n == Next(s, outcome, completed, jitter) IN
         /\ n \in Plans
         /\ outcome = "nearhang" => n.hold = NearHangWindow
         /\ outcome = "dropout" => n.hold = DropoutWindow
         /\ n.last = 0
         /\ n.next >= Rest(outcome, completed, n.interval)
         /\ n.interval \in IntervalMin .. IntervalMax \/ outcome \in {"cancelled", "external"}
         /\ n.next \in {Retry, ExternalRetry} \/ n.next <= n.interval + jitter
<1> DEFINE n == Next(s, outcome, completed, jitter)
<1>2. 0 \in Dates /\ Retry \in Dates /\ ExternalRetry \in Dates /\ NearHangWindow \in Dates /\ DropoutWindow \in Dates
  BY Constants, NatDates
<1>3. CASE outcome \in {"cancelled", "external"}
  <2>1. n = Neutral(s, outcome)
    BY <1>3 DEF Next
  <2>2. n = [s EXCEPT !.last = 0, !.next = Retry] \/ n = [s EXCEPT !.last = 0, !.next = ExternalRetry]
    BY <2>1 DEF Neutral
  <2>3. n \in Plans /\ n.last = 0 /\ n.next \in {Retry, ExternalRetry}
    BY <2>2, <1>2 DEF Plans
  <2>4. n.next = IF outcome = "cancelled" THEN Retry ELSE ExternalRetry
    BY <2>1, <1>3 DEF Neutral, Plans
  <2> HIDE DEF n
  <2>5. n.next >= Rest(outcome, completed, n.interval)
    <3>1. Rest(outcome, completed, n.interval) = IF outcome = "cancelled" THEN Retry ELSE ExternalRetry
      BY <1>3, RestIs
    <3>2. n.next \in Nat
      BY <2>4, Constants
    <3> QED BY <3>1, <3>2, <2>4
  <2> QED BY <2>3, <2>5, <1>3 DEF n
<1>4. CASE outcome \notin {"cancelled", "external"}
  <2> DEFINE i == Clamped(Tightened(s.interval, outcome))
             h == Opened(s.hold, outcome)
             p == ~completed /\ outcome \notin {"clean", "media"}
             full == i + jitter
             nx == IF p THEN Smaller(full, Resume(h)) ELSE full
  <2>1. i \in IntervalMin .. IntervalMax
    BY <1>4, ClampedInterval DEF Plans
  <2>2. jitter \in Nat
    BY DEF Jitters
  <2>3. /\ h \in Dates /\ (outcome = "nearhang" => h = NearHangWindow)
        /\ outcome = "dropout" => h = DropoutWindow
    BY <1>2 DEF Opened, Plans
  <2> HIDE DEF i, h
  <2>4. /\ full \in Nat /\ full >= IntervalMin /\ IntervalMin \in Nat
    BY <2>1, <2>2, Constants
  <2>5. Resume(h) \in Int /\ Resume(h) >= IntervalMin
    BY <2>3, <2>4 DEF Resume, Larger, Dates
  <2> HIDE DEF full
  <2>6. nx \in Nat /\ nx >= IntervalMin /\ nx <= full /\ (p \/ nx = full)
    BY <2>4, <2>5 DEF Smaller
  <2>7. n = [interval |-> i, next |-> nx, hold |-> h, last |-> 0]
    BY <1>4 DEF Next, i, h, full
  <2> HIDE DEF nx, n
  <2>8. nx \in Dates /\ i \in Intervals
    BY <2>1, <2>6, NatDates DEF Intervals
  <2>9. n \in Plans
    BY <2>7, <2>8, <2>3, <1>2 DEF Plans
  <2>10. n.interval = i /\ n.next = nx /\ n.hold = h /\ n.last = 0
    BY <2>7
  <2>11. n.next >= Rest(outcome, completed, n.interval)
    <3>1. Rest(outcome, completed, i) = IF p THEN IntervalMin ELSE i
      BY <1>4, RestIs
    <3>2. full >= i
      BY <2>1, <2>2, Constants DEF full
    <3>3. Rest(outcome, completed, n.interval) = IF p THEN IntervalMin ELSE i
      BY <3>1, <2>10
    <3>4. i \in Int /\ IntervalMin \in Int /\ full \in Int
      BY <2>1, <2>4, Constants
    <3> HIDE DEF p
    <3> QED BY <3>2, <3>3, <3>4, <2>10, <2>6
  <2>12. n.next <= n.interval + jitter
    BY <2>10, <2>6 DEF full
  <2> QED BY <2>1, <2>3, <2>9, <2>10, <2>11, <2>12 DEF n
<1> QED BY <1>3, <1>4

LEMMA MergedFields ==
  ASSUME NEW s \in Plans, kept \in Dates
  PROVE  /\ Merged(s) \in Plans /\ Merged(s).interval = s.interval
         /\ Merged(s).next = s.next /\ Merged(s).last = s.last
         /\ Merged(s).hold >= s.hold
<1> DEFINE h == Larger(s.hold, kept)
<1>1. h \in Dates /\ h >= s.hold
  BY LargerDate DEF Plans
<1>2. Merged(s) = [s EXCEPT !.hold = h]
  BY DEF Merged
<1> HIDE DEF h
<1> QED BY <1>1, <1>2 DEF Plans

(***************************************************************************)
(* Types.                                                                  *)
(***************************************************************************)

Typed ==
  /\ clock \in Int /\ clock \in Offsets
  /\ sched \in Plans /\ kept \in Dates
  /\ reader \in {"none", "round", "dropped", "test"}
  /\ asked \in BOOLEAN /\ moved \in BOOLEAN
  /\ owed \in Nat /\ rest \in Nat

LEMMA TypedIsTypeOK == Typed <=> TypeOK
<1>1. Typed => TypeOK
  BY DEF Typed, TypeOK, Plans, Dates, Intervals
<1>2. TypeOK => Typed
  <2> SUFFICES ASSUME TypeOK PROVE Typed
    OBVIOUS
  <2>1. sched = [interval |-> sched.interval, next |-> sched.next, hold |-> sched.hold, last |-> sched.last]
    BY DEF TypeOK
  <2>2. /\ sched.interval \in Intervals /\ sched.next \in Dates /\ sched.hold \in Dates
        /\ sched.last \in Dates /\ kept \in Dates
    BY DEF TypeOK, Dates, Intervals
  <2>3. sched \in Plans
    BY <2>1, <2>2 DEF Plans
  <2> QED BY <2>2, <2>3, Constants DEF TypeOK, Typed
<1> QED BY <1>1, <1>2

\* What the disk has earned, counted down and added to.
LEMMA EarnedNat ==
  ASSUME NEW o \in Nat, NEW w \in Nat
  PROVE  /\ Larger(o - 1, 0) \in Nat /\ Larger(o - 1, 0) <= o
         /\ Larger(o, w) \in Nat /\ (o = 0 => Larger(o, w) = w)
BY DEF Larger

LEMMA RestNat ==
  ASSUME NEW o \in AllOutcomes, NEW c \in BOOLEAN, NEW i \in Nat
  PROVE  Rest(o, c, i) \in Nat
BY Constants, RestIs

LEMMA RoundEndFields ==
  ASSUME Typed, NEW o \in AllOutcomes, NEW c \in BOOLEAN, RoundEnd(o, c)
  PROVE  /\ sched' \in Plans /\ sched'.last = 0
         /\ o = "nearhang" => sched'.hold >= NearHangWindow
         /\ o = "dropout" => sched'.hold >= DropoutWindow
         /\ sched'.next >= Rest(o, c, sched'.interval)
         /\ sched'.interval \in IntervalMin .. IntervalMax \/ o \in {"cancelled", "external"}
         /\ sched'.next \in {Retry, ExternalRetry}
              \/ sched'.next <= sched'.interval + sched'.interval \div JitterPart
<1>1. PICK jitter \in Jitters(IntervalMax) :
        sched' = Merged(Next(sched, o, c, jitter)) /\ jitter \in Jitters(sched'.interval)
  BY DEF RoundEnd
<1> DEFINE n == Next(sched, o, c, jitter)
<1>2. /\ n \in Plans
      /\ o = "nearhang" => n.hold = NearHangWindow
      /\ o = "dropout" => n.hold = DropoutWindow
      /\ n.last = 0
      /\ n.next >= Rest(o, c, n.interval)
      /\ n.interval \in IntervalMin .. IntervalMax \/ o \in {"cancelled", "external"}
      /\ n.next \in {Retry, ExternalRetry} \/ n.next <= n.interval + jitter
  BY <1>1, NextFields DEF Typed
<1>3. sched' = Merged(n)
  BY <1>1
<1> HIDE DEF n
<1>4. /\ sched' \in Plans /\ sched'.interval = n.interval
      /\ sched'.next = n.next /\ sched'.last = n.last
      /\ sched'.hold >= n.hold
  BY <1>2, <1>3, MergedFields DEF Typed
<1> DEFINE q == sched'.interval \div JitterPart
<1>5. sched'.interval \in Nat /\ n.next \in Int
  <2>1. sched'.interval \in Intervals /\ n.next \in Dates
    BY <1>2, <1>4 DEF Plans
  <2> QED BY <2>1, Constants DEF Dates
<1>6. q \in Int
  <2>1. \A a \in Nat, b \in Nat \ {0} : a \div b \in Int
    OBVIOUS
  <2> QED BY <2>1, <1>5, Constants
<1>7. jitter \in 0 .. q
  BY <1>1 DEF Jitters
<1> HIDE DEF q
<1>8. n.next <= n.interval + jitter => sched'.next <= sched'.interval + q
  BY <1>4, <1>5, <1>6, <1>7
<1>9. sched'.next \in {Retry, ExternalRetry} \/ sched'.next <= sched'.interval + q
  BY <1>2, <1>4, <1>8
<1>10. /\ o = "nearhang" => sched'.hold >= NearHangWindow
       /\ o = "dropout" => sched'.hold >= DropoutWindow
  BY <1>2, <1>4
<1> QED BY <1>2, <1>4, <1>9, <1>10 DEF q

LEMMA TypedStep ==
  ASSUME Typed, NextStep
  PROVE  Typed'
<1> USE DEF Typed
<1>1. CASE Tick
  <2>1. sched' \in Plans /\ kept' \in Dates
    BY <1>1, ShiftedFields, ShiftedDate DEF Tick
  <2>2. owed' \in Nat /\ rest' \in Nat
    BY <1>1, EarnedNat DEF Tick
  <2> QED BY <2>1, <2>2, <1>1 DEF Tick
<1>2. ASSUME NEW o \in Offsets, SetClock(o) PROVE Typed'
  <2>1. o - clock \in Int /\ o \in Int
    BY Constants
  <2>2. sched' \in Plans /\ kept' \in Dates
    BY <1>2, <2>1, ShiftedFields, ShiftedDate DEF SetClock
  <2>3. owed' \in Nat /\ rest' \in Nat
    BY <1>2 DEF SetClock
  <2> QED BY <2>1, <2>2, <2>3, <1>2 DEF SetClock
<1>3. ASSUME NEW young \in BOOLEAN, Consider(young) PROVE Typed'
  <2>1. sched' \in Plans
    BY <1>3, RebaseFields DEF Consider
  <2>2. moved' \in BOOLEAN /\ asked' \in BOOLEAN /\ reader' \in {"none", "round"}
    BY <1>3 DEF Consider
  <2> QED BY <2>1, <2>2, <1>3 DEF Consider
<1>4. ASSUME NEW force \in BOOLEAN, RequestScan(force) \/ RequestSpeedTest(force) PROVE Typed'
  <2>1. Override(sched, force) \in Plans /\ 0 \in Dates
    BY OverrideFields, NatDates
  <2>2. sched' \in Plans
    BY <1>4, <2>1 DEF RequestScan, RequestSpeedTest, Plans
  <2>3. owed' \in Nat /\ rest' \in Nat
    BY <1>4 DEF RequestScan, RequestSpeedTest
  <2>4. asked' \in BOOLEAN /\ reader' \in {"none", "test"}
    BY <1>4 DEF RequestScan, RequestSpeedTest, Granted
  <2>5. UNCHANGED <<clock, kept, moved>>
    BY <1>4 DEF RequestScan, RequestSpeedTest
  <2> QED BY <2>2, <2>3, <2>4, <2>5
<1>5. CASE RoundDropout \/ SpeedDropout
  <2>1. DropoutWindow \in Nat /\ DropoutWindow \in Dates
    BY Constants, NatDates
  <2>2. sched' \in Plans
    BY <1>5, <2>1 DEF RoundDropout, SpeedDropout, Plans
  <2>3. owed' \in Nat
    BY <1>5, <2>1, EarnedNat DEF RoundDropout, SpeedDropout, Earn
  <2> QED BY <2>1, <2>2, <2>3, <1>5 DEF RoundDropout, SpeedDropout
<1>6. CASE SpeedEnd \/ RoundFailed
  BY <1>6 DEF SpeedEnd, RoundFailed
<1>7. ASSUME NEW o \in AllOutcomes, NEW c \in BOOLEAN, RoundEnd(o, c) PROVE Typed'
  <2>1. sched' \in Plans
    BY <1>7, RoundEndFields
  <2>2. owed' \in Nat
    BY <1>7, Constants, EarnedNat DEF RoundEnd, Earn
  <2>3. reader' = "none" /\ moved' = FALSE
    BY <1>7 DEF RoundEnd
  <2>5. sched'.interval \in Nat
    BY <2>1, Constants DEF Plans
  <2>6. rest' \in Nat
    BY <1>7, <2>5, RestNat DEF RoundEnd
  <2>4. UNCHANGED <<clock, kept, asked>>
    BY <1>7 DEF RoundEnd
  <2> QED BY <2>1, <2>2, <2>3, <2>4, <2>6
<1>8. CASE RoundEndedUnread
  <2>1. Retry \in Dates
    BY Constants, NatDates
  <2>2. sched' \in Plans
    BY <1>8, <2>1 DEF RoundEndedUnread, Postpone, Plans
  <2>3. rest' \in Nat /\ reader' = "none"
    BY <1>8, Constants DEF RoundEndedUnread
  <2>4. UNCHANGED <<clock, kept, asked, owed, moved>>
    BY <1>8 DEF RoundEndedUnread
  <2> QED BY <2>2, <2>3, <2>4
<1> QED BY <1>1, <1>2, <1>3, <1>4, <1>5, <1>6, <1>7, <1>8 DEF NextStep, AllOutcomes

LEMMA TypedInvariant == Spec => []Typed
<1>1. Init => Typed
  <2>1. 0 \in Dates /\ Floor \in Dates /\ IntervalInit \in Intervals
    BY NatDates DEF Intervals
  <2>2. NewSchedule \in Plans
    BY <2>1 DEF NewSchedule, Plans
  <2>3. 0 \in Nat /\ Offsets \subseteq Int
    BY Constants
  <2> QED BY <2>1, <2>2, <2>3 DEF Init, Typed
<1>2. Typed /\ [NextStep]_vars => Typed'
  BY TypedStep DEF vars, Typed
<1> QED BY <1>1, <1>2, PTL DEF Spec

\* Dates never fall below Floor, and an interval is the initial one or lies
\* between the configured bounds.
THEOREM ScheduleTypes == Spec => []TypeOK
BY TypedInvariant, TypedIsTypeOK, PTL

(***************************************************************************)
(* The window a disk has earned.  It lies in the schedule while nobody     *)
(* reads, in progress.json between a dropout and the end of its round, and *)
(* there is none when a reader starts.                                     *)
(***************************************************************************)

WindowKept ==
  /\ owed <= Day
  /\ reader = "none" => owed = 0 \/ owed <= sched.hold
  /\ reader \in {"round", "test"} => owed = 0
  /\ reader = "dropped" => owed <= DropoutWindow

\* The windows are no longer than what a repair of the schedule leaves of them.
WindowsOfADay == DropoutWindow <= Day /\ NearHangWindow <= Day

LEMMA WindowStep ==
  ASSUME WindowsOfADay, Typed, Typed', WindowKept, NextStep
  PROVE  WindowKept'
<1>0. /\ owed \in Nat /\ owed' \in Nat /\ sched \in Plans /\ sched.hold \in Int
      /\ Day \in Nat /\ DropoutWindow \in Nat /\ NearHangWindow \in Nat
      /\ DropoutWindow <= Day /\ NearHangWindow <= Day
  BY Constants DEF Typed, Plans, Dates, WindowsOfADay
<1>1. CASE Tick
  <2>1. sched'.hold = Shifted(sched.hold, 1)
    <3>1. sched' = ShiftedSchedule(sched, 1) /\ 1 \in Int
      BY <1>1 DEF Tick
    <3> QED BY <3>1, <1>0, ShiftedFields
  <2>2. sched'.hold >= sched.hold - 1
    BY <2>1, <1>0, Constants DEF Shifted, Larger
  <2>3. owed' <= owed /\ (owed' = 0 \/ owed' = owed - 1) /\ reader' = reader
    BY <1>0, <1>1 DEF Tick, Larger
  <2>4. sched'.hold \in Int
    BY DEF Typed, Plans, Dates
  <2> QED BY <1>0, <2>2, <2>3, <2>4 DEF WindowKept
<1>2. ASSUME NEW o \in Offsets, SetClock(o) PROVE WindowKept'
  <2>1. CASE o > clock
    <3>1. owed' = 0
      BY <1>2, <2>1 DEF SetClock
    <3> QED BY <3>1, <1>0 DEF WindowKept
  <2>2. CASE ~(o > clock)
    <3>1. o - clock \in Int /\ o - clock <= 0
      BY <2>2, Constants DEF Typed
    <3>2. sched'.hold = Shifted(sched.hold, o - clock)
      BY <1>0, <1>2, <3>1, ShiftedFields DEF SetClock
    <3>3. sched'.hold >= sched.hold
      BY <3>1, <3>2, <1>0, Constants DEF Shifted, Larger
    <3>4. owed' = owed /\ reader' = reader
      BY <1>2, <2>2 DEF SetClock
    <3>5. sched'.hold \in Int
      BY DEF Typed, Plans, Dates
    <3> QED BY <1>0, <3>3, <3>4, <3>5 DEF WindowKept
  <2> QED BY <2>1, <2>2
<1>3. ASSUME NEW young \in BOOLEAN, Consider(young) PROVE WindowKept'
  <2>1. sched' = Rebase(sched) /\ owed' = owed /\ reader = "none"
    BY <1>3 DEF Consider
  <2>2. sched'.hold = sched.hold \/ (sched.hold > 2 * Day /\ sched'.hold = Day)
    BY <2>1, <1>0, RebaseFields
  <2>3. owed' = 0 \/ owed' <= sched'.hold
    BY <2>1, <2>2, <1>0 DEF WindowKept
  <2>4. reader' \in {"none", "round"} /\ (reader' = "round" => Due(sched'))
    BY <1>3 DEF Consider
  <2>5. Due(sched') => owed' = 0
    BY <2>2, <2>3, <1>0 DEF Due
  <2> QED BY <2>1, <2>3, <2>4, <2>5, <1>0 DEF WindowKept
<1>4. ASSUME NEW force \in BOOLEAN, RequestScan(force) \/ RequestSpeedTest(force) PROVE WindowKept'
  <2>1. Granted(force) /\ owed' = IF force THEN 0 ELSE owed
    BY <1>4 DEF RequestScan, RequestSpeedTest
  <2>2. owed' = 0
    BY <2>1, <1>0 DEF Granted, WindowKept
  <2> QED BY <2>2, <1>0 DEF WindowKept
<1>5. CASE RoundDropout \/ SpeedDropout
  <2>1. owed = 0 /\ owed' = Larger(owed, DropoutWindow)
    BY <1>5 DEF RoundDropout, SpeedDropout, Earn, WindowKept
  <2>2. owed' = DropoutWindow
    BY <2>1, <1>0, EarnedNat
  <2>3. reader' = "dropped" \/ (reader' = "none" /\ sched'.hold = DropoutWindow)
    BY <1>5, <1>0 DEF RoundDropout, SpeedDropout, Plans
  <2> QED BY <2>2, <2>3, <1>0 DEF WindowKept
<1>6. CASE SpeedEnd \/ RoundEndedUnread \/ RoundFailed
  <2>1. owed' = 0
    BY <1>6 DEF SpeedEnd, RoundEndedUnread, RoundFailed, WindowKept
  <2> QED BY <2>1, <1>0 DEF WindowKept
<1>7. ASSUME NEW o \in AllOutcomes, NEW c \in BOOLEAN, RoundEnd(o, c) PROVE WindowKept'
  <2>1. reader' = "none" /\ sched'.hold \in Int
    BY <1>7 DEF RoundEnd, Typed, Plans, Dates
  <2>2. /\ o = "nearhang" => sched'.hold >= NearHangWindow
        /\ o = "dropout" => sched'.hold >= DropoutWindow
    BY <1>7, RoundEndFields
  <2>3. CASE o = "dropout"
    <3>1. owed' = owed /\ owed <= DropoutWindow
      BY <1>7, <2>3 DEF RoundEnd, Outcomes, WindowKept
    <3> QED BY <3>1, <2>1, <2>2, <2>3, <1>0 DEF WindowKept
  <2>4. CASE o = "nearhang"
    <3>1. owed = 0 /\ owed' = Larger(owed, NearHangWindow)
      BY <1>7, <2>4 DEF RoundEnd, Earn, WindowKept
    <3>2. owed' = NearHangWindow
      BY <3>1, <1>0, EarnedNat
    <3> QED BY <3>2, <2>1, <2>2, <2>4, <1>0 DEF WindowKept
  <2>5. CASE o \notin {"dropout", "nearhang"}
    <3>1. owed' = 0
      BY <1>7, <2>5 DEF RoundEnd, WindowKept
    <3> QED BY <3>1, <1>0 DEF WindowKept
  <2> QED BY <2>3, <2>4, <2>5
<1> QED BY <1>1, <1>2, <1>3, <1>4, <1>5, <1>6, <1>7 DEF NextStep, AllOutcomes

\* No reader starts inside a window the disk has earned, unless the clock was
\* set forwards: a repair of the schedule leaves a day of it, which is all of it.
THEOREM NoReaderInAnEarnedWindow ==
  ASSUME WindowsOfADay
  PROVE  Spec => WindowHeld
<1>1. Init => WindowKept
  BY Constants DEF Init, WindowKept
<1>2. Typed /\ Typed' /\ WindowKept /\ [NextStep]_vars => WindowKept'
  <2>1. Typed /\ Typed' /\ WindowKept /\ UNCHANGED vars => WindowKept'
    BY DEF vars, WindowKept
  <2> QED BY <2>1, WindowStep
<1>3. Typed /\ Typed' /\ WindowKept /\ WindowKept' /\ [NextStep]_vars
        => [reader = "none" /\ reader' # "none" => owed' = 0]_vars
  <2> SUFFICES ASSUME Typed, Typed', WindowKept', NextStep, reader = "none", reader' # "none"
               PROVE  owed' = 0
    OBVIOUS
  <2>1. reader' # "dropped"
    BY DEF NextStep, Tick, SetClock, Consider, RequestScan, RequestSpeedTest, RoundDropout,
           SpeedDropout, SpeedEnd, RoundEnd, RoundEndedUnread, RoundFailed
  <2> QED BY <2>1 DEF Typed, WindowKept
<1> QED BY <1>1, <1>2, <1>3, TypedInvariant, PTL DEF Spec, WindowHeld

(***************************************************************************)
(* What a repair takes away.                                               *)
(***************************************************************************)

\* The retries stay within the day a plan may be late by.
RetriesOfADay == Retry <= Day /\ ExternalRetry <= Day

\* Under the clock it was written with, a plan is a retry or an interval with
\* its jitter, and the last round is not ahead.
Explained ==
  ~moved => /\ sched.last <= 0
            /\ \/ sched.next <= Day
               \/ sched.next <= sched.interval + sched.interval \div JitterPart

LEMMA ExplainedStep ==
  ASSUME RetriesOfADay, Typed, Typed', Explained, NextStep
  PROVE  Explained'
<1> DEFINE q == sched.interval \div JitterPart
           r == sched'.interval \div JitterPart
<1>0. /\ sched \in Plans /\ sched' \in Plans /\ sched.next \in Int /\ sched.last \in Int
      /\ sched.interval \in Nat /\ sched'.interval \in Nat
      /\ sched'.next \in Int /\ sched'.last \in Int
      /\ Day \in Nat /\ Retry <= Day /\ ExternalRetry <= Day
      /\ Retry \in Nat /\ ExternalRetry \in Nat
  <2>1. sched.interval \in Intervals /\ sched'.interval \in Intervals
    BY DEF Typed, Plans
  <2> QED BY <2>1, Constants DEF Typed, Plans, Dates, RetriesOfADay
<1>q. q \in Int /\ q >= 0 /\ r \in Int /\ r >= 0
  <2>1. \A a \in Nat, b \in Nat \ {0} : a \div b \in Int /\ a \div b >= 0
    OBVIOUS
  <2> QED BY <2>1, <1>0, Constants
<1>e. Explained => (~moved => sched.last <= 0 /\ (sched.next <= Day \/ sched.next <= sched.interval + q))
  BY DEF Explained
<1>f. (~moved' => sched'.last <= 0 /\ (sched'.next <= Day \/ sched'.next <= sched'.interval + r)) => Explained'
  BY DEF Explained
<1>g. sched'.interval = sched.interval => r = q
  OBVIOUS
<1> HIDE DEF q, r
<1>c. ASSUME moved' = moved, sched'.interval = sched.interval,
             sched'.next <= sched.next \/ sched'.next <= Day, sched'.last <= sched.last \/ sched'.last <= 0
      PROVE  Explained'
  BY <1>c, <1>0, <1>q, <1>e, <1>f, <1>g
<1>1. CASE Tick
  <2>1. /\ sched'.interval = sched.interval /\ sched'.next = Shifted(sched.next, 1)
        /\ sched'.last = Shifted(sched.last, 1) /\ moved' = moved
    <3>1. sched' = ShiftedSchedule(sched, 1) /\ moved' = moved /\ 1 \in Int
      BY <1>1 DEF Tick
    <3> QED BY <3>1, <1>0, ShiftedFields
  <2>2. sched'.next <= sched.next \/ sched'.next <= Day
    BY <2>1, <1>0, Constants DEF Shifted, Larger
  <2>3. sched'.last <= sched.last \/ sched'.last <= 0
    BY <2>1, <1>0, Constants DEF Shifted, Larger
  <2> QED BY <2>1, <2>2, <2>3, <1>c
<1>2. ASSUME NEW o \in Offsets, SetClock(o) PROVE Explained'
  BY <1>2 DEF SetClock, Explained
<1>3. ASSUME NEW young \in BOOLEAN, Consider(young) PROVE Explained'
  <2>1. sched' = Rebase(sched) /\ moved' = (moved /\ ~NeedsRebase(sched))
    BY <1>3 DEF Consider
  <2>2. CASE NeedsRebase(sched)
    <3>1. sched'.next = sched.interval /\ sched'.interval = sched.interval
      BY <2>1, <2>2, <1>0, RebaseFields
    <3>2. sched'.last <= 0
      BY <2>1, <2>2, <1>0, RebaseFields, Constants
    <3> QED BY <3>1, <3>2, <1>0, <1>q, <1>f
  <2>3. CASE ~NeedsRebase(sched)
    <3>1. sched' = sched /\ moved' = moved
      BY <2>1, <2>3, <1>0, RebaseFields DEF Typed
    <3> QED BY <3>1, <1>0, <1>c
  <2> QED BY <2>2, <2>3
<1>4. ASSUME NEW force \in BOOLEAN, RequestScan(force) PROVE Explained'
  <2> DEFINE s == Override(sched, force)
  <2>1. s \in Plans /\ s.interval = sched.interval /\ s.last = sched.last
    BY <1>0, OverrideFields
  <2>2. sched' = [s EXCEPT !.next = 0] /\ moved' = moved
    BY <1>4 DEF RequestScan
  <2> HIDE DEF s
  <2>3. sched'.interval = s.interval /\ sched'.last = s.last /\ sched'.next = 0
    BY <2>1, <2>2 DEF Plans
  <2> QED BY <2>1, <2>2, <2>3, <1>0, <1>c
<1>5. ASSUME NEW force \in BOOLEAN, RequestSpeedTest(force) PROVE Explained'
  <2>1. sched' = Override(sched, force) /\ moved' = moved
    BY <1>5 DEF RequestSpeedTest
  <2>2. sched'.interval = sched.interval /\ sched'.last = sched.last /\ sched'.next = sched.next
    BY <2>1, <1>0, OverrideFields
  <2> QED BY <2>1, <2>2, <1>0, <1>c
<1>6. CASE RoundDropout \/ SpeedDropout \/ SpeedEnd \/ RoundFailed
  <2>1. moved' = moved /\ sched'.interval = sched.interval /\ sched'.next = sched.next /\ sched'.last = sched.last
    BY <1>6, <1>0 DEF RoundDropout, SpeedDropout, SpeedEnd, RoundFailed, Plans
  <2> QED BY <2>1, <1>0, <1>c
<1>7. ASSUME NEW o \in AllOutcomes, NEW c \in BOOLEAN, RoundEnd(o, c) PROVE Explained'
  <2>1. sched'.last = 0 /\ (sched'.next \in {Retry, ExternalRetry} \/ sched'.next <= sched'.interval + r)
    BY <1>7, RoundEndFields DEF r
  <2> QED BY <2>1, <1>0, <1>f
<1>8. CASE RoundEndedUnread
  <2>1. sched' = [sched EXCEPT !.next = Retry] /\ moved' = moved
    BY <1>8 DEF RoundEndedUnread, Postpone
  <2>2. sched'.interval = sched.interval /\ sched'.last = sched.last /\ sched'.next = Retry
    BY <2>1, <1>0 DEF Plans
  <2> QED BY <2>1, <2>2, <1>0, <1>c
<1> QED BY <1>1, <1>2, <1>3, <1>4, <1>5, <1>6, <1>7, <1>8 DEF NextStep, AllOutcomes

\* With retries of at most a day and a jitter of any length, a repair under the
\* clock the schedule was written with shortens a plan by jitter alone.
THEOREM OnlyJitterIsRepaired ==
  ASSUME RetriesOfADay
  PROVE  Spec => []RepairTakesOnlyJitter
<1>1. Init => Explained
  BY Constants DEF Init, NewSchedule, Explained
<1>2. Typed /\ Typed' /\ Explained /\ [NextStep]_vars => Explained'
  <2>1. Explained /\ UNCHANGED vars => Explained'
    BY DEF vars, Explained
  <2> QED BY <2>1, ExplainedStep
<1>3. Typed /\ Explained => RepairTakesOnlyJitter
  <2> SUFFICES ASSUME Typed, Explained, ~moved, NeedsRebase(sched)
               PROVE  /\ sched.last <= 0
                      /\ sched.next <= sched.interval + sched.interval \div JitterPart
    BY DEF RepairTakesOnlyJitter
  <2>1. sched.last <= 0 /\ sched.next > sched.interval + Day
    BY DEF Explained, NeedsRebase, Typed, Plans, Dates
  <2>2. sched.interval \in Nat /\ sched.next \in Int /\ Day \in Nat
    <3>1. sched.interval \in Intervals
      BY DEF Typed, Plans
    <3> QED BY <3>1, Constants DEF Typed, Plans, Dates
  <2>3. ~(sched.next <= Day)
    BY <2>1, <2>2
  <2> QED BY <2>1, <2>3 DEF Explained
<1> QED BY <1>1, <1>2, <1>3, TypedInvariant, PTL DEF Spec

(***************************************************************************)
(* No round before its time.                                               *)
(***************************************************************************)

\* While nobody reads, what is left of the rest is no more than what is left of
\* the plan, and no more than an interval, which is what a repair makes of it.
\* A round starts with none, and has none to give back when it fails.
Rested ==
  /\ rest <= sched.interval
  /\ reader \in {"none", "test"} => rest = 0 \/ rest <= sched.next
  /\ reader \in {"round", "dropped"} => rest = 0

\* The retries fit into every interval.
RetriesFit ==
  \A i \in {IntervalMin, IntervalInit} : Retry <= i /\ ExternalRetry <= i

LEMMA RestedStep ==
  ASSUME RetriesFit, Typed, Typed', Rested, NextStep
  PROVE  Rested'
<1>0. /\ sched \in Plans /\ sched' \in Plans /\ sched.next \in Int /\ sched'.next \in Int
      /\ sched.interval \in Nat /\ sched'.interval \in Nat /\ rest \in Nat /\ rest' \in Nat
      /\ Retry \in Nat /\ ExternalRetry \in Nat /\ IntervalMin \in Nat
      /\ Retry <= sched.interval /\ Retry <= sched'.interval /\ ExternalRetry <= sched'.interval
  <2>1. /\ sched.interval \in Intervals /\ sched'.interval \in Intervals
        /\ sched.next \in Dates /\ sched'.next \in Dates
    BY DEF Typed, Plans
  <2>2. \A t \in Dates : t \in Int
    BY DEF Dates
  <2>3. \A i \in Intervals : i \in Nat /\ i >= Retry /\ i >= ExternalRetry
    BY Constants DEF Intervals, RetriesFit
  <2> QED BY <2>1, <2>2, <2>3, Constants DEF Typed
<1>a. ASSUME reader' \in {"none", "test"} => reader \in {"none", "test"},
             reader' \in {"round", "dropped"} => reader \in {"round", "dropped"},
             rest' = rest, sched'.interval = sched.interval, sched'.next >= sched.next
      PROVE  Rested'
  BY <1>a, <1>0 DEF Rested
<1>b. ASSUME rest' = 0 PROVE Rested'
  BY <1>b, <1>0 DEF Rested
<1>1. CASE Tick
  <2>1. sched' = ShiftedSchedule(sched, 1) /\ 1 \in Int /\ reader' = reader
    BY <1>1 DEF Tick
  <2>2. sched'.next = Shifted(sched.next, 1) /\ sched'.interval = sched.interval
    BY <2>1, <1>0, ShiftedFields
  <2>3. sched'.next >= sched.next - 1
    BY <2>2, <1>0, Constants DEF Shifted, Larger
  <2>4. rest' = 0 \/ rest' = rest - 1
    BY <1>1, <1>0 DEF Tick, Larger
  <2> QED BY <2>1, <2>2, <2>3, <2>4, <1>0 DEF Rested
<1>2. ASSUME NEW o \in Offsets, SetClock(o) PROVE Rested'
  <2>1. CASE o > clock
    BY <1>2, <2>1, <1>b DEF SetClock
  <2>2. CASE ~(o > clock)
    <3>1. o - clock \in Int /\ o - clock <= 0
      BY <2>2, Constants DEF Typed
    <3>2. sched'.next = Shifted(sched.next, o - clock) /\ sched'.interval = sched.interval
      BY <1>0, <1>2, <3>1, ShiftedFields DEF SetClock
    <3>3. sched'.next >= sched.next
      BY <3>1, <3>2, <1>0, Constants DEF Shifted, Larger
    <3>4. reader' = reader /\ rest' = rest
      BY <1>2, <2>2 DEF SetClock
    <3> QED BY <3>2, <3>3, <3>4, <1>a
  <2> QED BY <2>1, <2>2
<1>3. ASSUME NEW young \in BOOLEAN, Consider(young) PROVE Rested'
  <2>1. sched' = Rebase(sched) /\ rest' = rest /\ reader = "none"
    BY <1>3 DEF Consider
  <2>2. sched'.interval = sched.interval /\ (sched'.next = sched.next \/ sched'.next = sched.interval)
    BY <2>1, <1>0, RebaseFields
  <2>3. reader' = "none" \/ (reader' = "round" /\ sched'.next <= 0)
    BY <1>3 DEF Consider, Due
  <2> QED BY <2>1, <2>2, <2>3, <1>0 DEF Rested
<1>4. ASSUME NEW force \in BOOLEAN, RequestScan(force) PROVE Rested'
  BY <1>4, <1>b DEF RequestScan
<1>5. ASSUME NEW force \in BOOLEAN, RequestSpeedTest(force) PROVE Rested'
  <2>1. sched' = Override(sched, force) /\ reader = "none" /\ reader' = "test" /\ rest' = rest
    BY <1>5 DEF RequestSpeedTest, Granted
  <2>2. sched'.next = sched.next /\ sched'.interval = sched.interval
    BY <2>1, <1>0, OverrideFields
  <2> QED BY <2>1, <2>2, <1>0, <1>a
<1>6. CASE RoundDropout \/ RoundFailed
  <2>1. reader = "round" /\ rest' = rest
    BY <1>6 DEF RoundDropout, RoundFailed
  <2> QED BY <2>1, <1>b DEF Rested
<1>7. CASE SpeedDropout \/ SpeedEnd
  <2>1. /\ reader = "test" /\ reader' = "none" /\ rest' = rest
        /\ sched'.next = sched.next /\ sched'.interval = sched.interval
    BY <1>7, <1>0 DEF SpeedDropout, SpeedEnd, Plans
  <2> QED BY <2>1, <1>0, <1>a
<1>8. ASSUME NEW o \in AllOutcomes, NEW c \in BOOLEAN, RoundEnd(o, c) PROVE Rested'
  <2>1. rest' = Rest(o, c, sched'.interval) /\ reader' = "none"
    BY <1>8 DEF RoundEnd
  <2>2. /\ sched'.next >= Rest(o, c, sched'.interval)
        /\ sched'.interval \in IntervalMin .. IntervalMax \/ o \in {"cancelled", "external"}
    BY <1>8, RoundEndFields
  <2>3. Rest(o, c, sched'.interval) <= sched'.interval
    BY <2>2, <1>0, Constants, RestIs
  <2> QED BY <2>1, <2>2, <2>3, <1>0 DEF Rested
<1>9. CASE RoundEndedUnread
  <2>1. sched'.next = Retry /\ rest' = Retry /\ reader' = "none"
    BY <1>9, <1>0 DEF RoundEndedUnread, Postpone, Plans
  <2> QED BY <2>1, <1>0 DEF Rested
<1> QED BY <1>1, <1>2, <1>3, <1>4, <1>5, <1>6, <1>7, <1>8, <1>9 DEF NextStep, AllOutcomes

\* A disk whose round was recorded is left alone for as long as its outcome
\* says, unless somebody asks or the clock is set forwards.
THEOREM RecordedRoundsKeepTheirDistance ==
  ASSUME RetriesFit
  PROVE  Spec => NotBeforeItsTime
<1>1. Init => Rested
  BY Constants DEF Init, NewSchedule, Rested
<1>2. Typed /\ Typed' /\ Rested /\ [NextStep]_vars => Rested'
  <2>1. Rested /\ UNCHANGED vars => Rested'
    BY DEF vars, Rested
  <2> QED BY <2>1, RestedStep
<1>3. Typed /\ Typed' /\ Rested /\ Rested' /\ [NextStep]_vars
        => [reader = "none" /\ reader' = "round" => rest = 0]_vars
  <2> SUFFICES ASSUME Rested', NextStep, reader = "none", reader' = "round"
               PROVE  rest = 0
    OBVIOUS
  <2>1. PICK young \in BOOLEAN : Consider(young)
    BY DEF NextStep, Tick, SetClock, RequestScan, RequestSpeedTest, RoundDropout,
           SpeedDropout, SpeedEnd, RoundEnd, RoundEndedUnread, RoundFailed
  <2> QED BY <2>1 DEF Consider, Rested
<1> QED BY <1>1, <1>2, <1>3, TypedInvariant, PTL DEF Spec, NotBeforeItsTime
=============================================================================
