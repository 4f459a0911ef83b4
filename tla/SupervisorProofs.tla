--------------------------- MODULE SupervisorProofs ---------------------------
(***************************************************************************)
(* What holds of the supervisor for every value of its constants.          *)
(***************************************************************************)
EXTENDS Supervisor, TLAPS

\* A goroutine on its way to the schedule carries the outcome it puts there.
OutcomeKnown ==
  \A p \in Ptr : job[p].pc \in {"reattach", "save_history", "reschedule"}
                   => job[p].out \in Outcome

TypeInv == TypeOK /\ OutcomeKnown

LEMMA LessType == ASSUME NEW n \in Nat PROVE Less(n) \in Nat /\ Less(n) <= n
  BY DEF Less

LEMMA MetaType == NoMeta \in Meta /\ NewMeta \in Meta
  BY DEF Meta, NoMeta, NewMeta

LEMMA ScheduleType == NewSchedule \in Schedule
  BY DEF Schedule, NewSchedule

LEMMA NewStateType ==
  ASSUME NEW k \in Disk, NEW m \in Meta, NEW s \in Schedule
  PROVE  NewState(k, m, s) \in DiskState
  BY DEF NewState, DiskState

LEMMA NoJobType == NoJob \in Job
  BY MetaType DEF NoJob, Job

LEMMA NoFilesType == NoFiles \in Files
  BY MetaType, ScheduleType DEF NoFiles, Files

LEMMA InitType == Init => TypeInv
<1> SUFFICES ASSUME Init PROVE TypeInv
  OBVIOUS
<1>1. (CHOOSE k \in Disk : TRUE) \in Disk
  BY SupervisorAssumption
<1>2. st \in [Ptr -> DiskState]
  BY <1>1, NewStateType, MetaType, ScheduleType DEF Init
<1>3. job \in [Ptr -> Job]
  BY NoJobType DEF Init
<1>4. file \in [Disk -> Files]
  BY NoFilesType DEF Init
<1>5. \A k \in Disk : ~Known(k)
  BY DEF Init, Known
<1>6. OutcomeKnown
  BY DEF Init, OutcomeKnown, NoJob
<1> QED
  BY <1>2, <1>3, <1>4, <1>5, <1>6 DEF Init, TypeInv, TypeOK

LEMMA NextScheduleType ==
  ASSUME NEW s \in Schedule, NEW out \in Outcome, NEW prog \in Nat
  PROVE  NextSchedule(s, out, prog) \in Schedule
  BY SupervisorAssumption DEF NextSchedule, Later, Schedule, Opening

\* What is left to show of a goroutine's step.
LEMMA Typed ==
  ASSUME TypeInv, UNCHANGED World,
         st' \in [Ptr -> DiskState], \A q \in Ptr : st'[q].key = st[q].key,
         job' \in [Ptr -> Job], OutcomeKnown',
         file' \in [Disk -> Files], window' \in [Disk -> Nat]
  PROVE  TypeInv'
<1>1. \A k \in Disk : Known(k) => disks[k] \in Ptr
  BY DEF TypeInv, TypeOK, Known
<1> QED
  BY <1>1 DEF TypeInv, TypeOK, World, Known

LEMMA RoundType ==
  ASSUME TypeInv, NEW p \in Ptr, RoundStep(p)
  PROVE  TypeInv'
<1> USE SupervisorAssumption DEF TypeInv, TypeOK, Goto, At
<1>0. /\ st[p] \in DiskState /\ job[p] \in Job /\ st[p].key \in Disk
      /\ file[st[p].key] \in Files
  BY DEF DiskState
<1>1. CASE OpenRound(p)
  <2>3. job' \in [Ptr -> Job]
    BY <1>1 DEF OpenRound, Job, RoundPc
  <2>4. OutcomeKnown'
    BY <1>1, <1>0 DEF OpenRound, OutcomeKnown, Job, NoJob
  <2> QED
    BY <1>1, <2>3, <2>4, Typed DEF OpenRound
<1>2. CASE RoundFails(p)
  <2>3. job' \in [Ptr -> Job]
    BY <1>2, <1>0 DEF RoundFails, Job, RoundPc
  <2>4. OutcomeKnown'
    BY <1>2, <1>0 DEF RoundFails, OutcomeKnown, Job, NoJob
  <2> QED
    BY <1>2, <2>3, <2>4, Typed DEF RoundFails
<1>3. CASE RoundDropout(p)
  <2>0. Cooldown["dropout"] \in Nat
    BY <1>3, <1>0 DEF Opening
  <2>3. job' \in [Ptr -> Job]
    BY <1>3, <1>0, <2>0 DEF RoundDropout, Job, RoundPc, Outcome
  <2>4. OutcomeKnown'
    BY <1>3, <1>0 DEF RoundDropout, OutcomeKnown, Job, NoJob, Outcome
  <2>5. file' \in [Disk -> Files]
    BY <1>3, <1>0, <2>0 DEF RoundDropout, Files, DiskState
  <2>6. window' \in [Disk -> Nat]
    BY <1>3, <1>0, <2>0 DEF RoundDropout
  <2> QED
    BY <1>3, <2>3, <2>4, <2>5, <2>6, Typed DEF RoundDropout
<1>4. CASE Reattached(p)
  <2>3. job' \in [Ptr -> Job]
    BY <1>4, <1>0 DEF Reattached, Job, RoundPc, Outcome
  <2>4. OutcomeKnown'
    BY <1>4, <1>0 DEF Reattached, OutcomeKnown, Job, NoJob, Outcome
  <2> QED
    BY <1>4, <2>3, <2>4, Typed DEF Reattached
<1>5. ASSUME NEW out \in Outcome, RoundReturns(p, out) PROVE TypeInv'
  <2>3. job' \in [Ptr -> Job]
    BY <1>5, <1>0 DEF RoundReturns, Job, RoundPc, Outcome
  <2>4. OutcomeKnown'
    BY <1>5, <1>0 DEF RoundReturns, OutcomeKnown, Job, NoJob, Outcome
  <2>6. window' \in [Disk -> Nat]
    BY <1>5, <1>0 DEF RoundReturns, Opening
  <2> QED
    BY <1>5, <2>3, <2>4, <2>6, Typed DEF RoundReturns
<1>6. CASE Postpone(p)
  <2>1. st' \in [Ptr -> DiskState]
    BY <1>6, <1>0 DEF Postpone, DiskState, Schedule, Outcome
  <2>2. \A q \in Ptr : st'[q].key = st[q].key
    BY <1>6, <1>0 DEF Postpone, DiskState
  <2>3. job' \in [Ptr -> Job]
    BY <1>6, <1>0 DEF Postpone, Job, RoundPc
  <2>4. OutcomeKnown'
    BY <1>6, <1>0 DEF Postpone, OutcomeKnown, Job, NoJob
  <2> QED
    BY <1>6, <2>1, <2>2, <2>3, <2>4, Typed DEF Postpone
<1>7. CASE SavePostponed(p)
  <2>3. job' \in [Ptr -> Job]
    BY <1>7, <1>0 DEF SavePostponed, Job, RoundPc
  <2>4. OutcomeKnown'
    BY <1>7, <1>0 DEF SavePostponed, OutcomeKnown, Job, NoJob
  <2>5. file' \in [Disk -> Files]
    BY <1>7, <1>0 DEF SavePostponed, Files, DiskState
  <2> QED
    BY <1>7, <2>3, <2>4, <2>5, Typed DEF SavePostponed
<1>8. CASE SaveHistory(p)
  <2>3. job' \in [Ptr -> Job]
    BY <1>8, <1>0 DEF SaveHistory, Job, RoundPc, Outcome
  <2>4. OutcomeKnown'
    BY <1>8, <1>0 DEF SaveHistory, OutcomeKnown, Job, NoJob, Outcome
  <2>5. file' \in [Disk -> Files]
    BY <1>8, <1>0 DEF SaveHistory, Files, DiskState
  <2> QED
    BY <1>8, <2>3, <2>4, <2>5, Typed DEF SaveHistory
<1>9. CASE Reschedule(p)
  <2>0. NextSchedule(st[p].sched, job[p].out, file[st[p].key].prog) \in Schedule
    BY <1>9, <1>0, NextScheduleType DEF Reschedule, OutcomeKnown, DiskState, Files
  <2>1. st' \in [Ptr -> DiskState]
    BY <1>9, <1>0, <2>0 DEF Reschedule, DiskState, Files
  <2>2. \A q \in Ptr : st'[q].key = st[q].key
    BY <1>9, <1>0 DEF Reschedule, DiskState
  <2>3. job' \in [Ptr -> Job]
    BY <1>9, <1>0, <2>0 DEF Reschedule, Job, RoundPc
  <2>4. OutcomeKnown'
    BY <1>9, <1>0 DEF Reschedule, OutcomeKnown, Job, NoJob
  <2> QED
    BY <1>9, <2>1, <2>2, <2>3, <2>4, Typed DEF Reschedule
<1>10. CASE SaveSchedule(p)
  <2>3. job' \in [Ptr -> Job]
    BY <1>10, <1>0 DEF SaveSchedule, Job, RoundPc
  <2>4. OutcomeKnown'
    BY <1>10, <1>0 DEF SaveSchedule, OutcomeKnown, Job, NoJob
  <2>5. file' \in [Disk -> Files]
    BY <1>10, <1>0 DEF SaveSchedule, Files, DiskState
  <2> QED
    BY <1>10, <2>3, <2>4, <2>5, Typed DEF SaveSchedule
<1>11. CASE CopyMeta(p)
  <2>0. st[p].meta \in Meta
    BY <1>11, <1>0 DEF DiskState
  <2>3. job' \in [Ptr -> Job]
    BY <1>11, <1>0, <2>0 DEF CopyMeta, Job, RoundPc
  <2>4. OutcomeKnown'
    BY <1>11, <1>0 DEF CopyMeta, OutcomeKnown, Job, NoJob
  <2> QED
    BY <1>11, <2>3, <2>4, Typed DEF CopyMeta
<1>12. CASE SaveMeta(p)
  <2>3. job' \in [Ptr -> Job]
    BY <1>12, <1>0 DEF SaveMeta, Job, RoundPc
  <2>4. OutcomeKnown'
    BY <1>12, <1>0 DEF SaveMeta, OutcomeKnown, Job, NoJob
  <2>5. file' \in [Disk -> Files]
    BY <1>12, <1>0 DEF SaveMeta, Files, DiskState, Job
  <2> QED
    BY <1>12, <2>3, <2>4, <2>5, Typed DEF SaveMeta
<1>13. CASE RoundEnd(p)
  <2>1. st' \in [Ptr -> DiskState]
    BY <1>13, <1>0 DEF RoundEnd, DiskState
  <2>2. \A q \in Ptr : st'[q].key = st[q].key
    BY <1>13, <1>0 DEF RoundEnd, DiskState
  <2>3. job' \in [Ptr -> Job]
    BY <1>13, <1>0, NoJobType DEF RoundEnd, Job, RoundPc
  <2>4. OutcomeKnown'
    BY <1>13, <1>0 DEF RoundEnd, OutcomeKnown, Job, NoJob
  <2> QED
    BY <1>13, <2>1, <2>2, <2>3, <2>4, Typed DEF RoundEnd
<1> QED
  BY <1>1, <1>2, <1>3, <1>4, <1>5, <1>6, <1>7, <1>8, <1>9, <1>10, <1>11, <1>12, <1>13 DEF RoundStep

LEMMA SpeedType ==
  ASSUME TypeInv, NEW p \in Ptr, SpeedStep(p)
  PROVE  TypeInv'
<1> USE SupervisorAssumption DEF TypeInv, TypeOK, Goto, At
<1>0. /\ st[p] \in DiskState /\ job[p] \in Job /\ st[p].key \in Disk
      /\ file[st[p].key] \in Files
  BY DEF DiskState
<1>1. CASE OpenSpeedTest(p)
  <2>3. job' \in [Ptr -> Job]
    BY <1>1, <1>0 DEF OpenSpeedTest, Job, SpeedPc
  <2>4. OutcomeKnown'
    BY <1>1, <1>0 DEF OpenSpeedTest, OutcomeKnown, Job, NoJob
  <2> QED
    BY <1>1, <2>3, <2>4, Typed DEF OpenSpeedTest
<1>2. CASE SpeedTestDone(p)
  <2>3. job' \in [Ptr -> Job]
    BY <1>2, <1>0 DEF SpeedTestDone, Job, SpeedPc
  <2>4. OutcomeKnown'
    BY <1>2, <1>0 DEF SpeedTestDone, OutcomeKnown, Job, NoJob
  <2> QED
    BY <1>2, <2>3, <2>4, Typed DEF SpeedTestDone
<1>3. CASE SpeedDropout(p)
  <2>0. Cooldown["dropout"] \in Nat
    BY <1>3, <1>0 DEF Opening
  <2>3. job' \in [Ptr -> Job]
    BY <1>3, <1>0, <2>0 DEF SpeedDropout, Job, SpeedPc, Outcome
  <2>4. OutcomeKnown'
    BY <1>3, <1>0 DEF SpeedDropout, OutcomeKnown, Job, NoJob, Outcome
  <2>5. file' \in [Disk -> Files]
    BY <1>3, <1>0, <2>0 DEF SpeedDropout, Files, DiskState
  <2>6. window' \in [Disk -> Nat]
    BY <1>3, <1>0, <2>0 DEF SpeedDropout
  <2> QED
    BY <1>3, <2>3, <2>4, <2>5, <2>6, Typed DEF SpeedDropout
<1>4. CASE SetWindow(p)
  <2>1. st' \in [Ptr -> DiskState]
    BY <1>4, <1>0 DEF SetWindow, DiskState, Schedule, Job
  <2>2. \A q \in Ptr : st'[q].key = st[q].key
    BY <1>4, <1>0 DEF SetWindow, DiskState
  <2>3. job' \in [Ptr -> Job]
    BY <1>4, <1>0 DEF SetWindow, Job, SpeedPc
  <2>4. OutcomeKnown'
    BY <1>4, <1>0 DEF SetWindow, OutcomeKnown, Job, NoJob
  <2> QED
    BY <1>4, <2>1, <2>2, <2>3, <2>4, Typed DEF SetWindow
<1>5. CASE SaveWindow(p)
  <2>3. job' \in [Ptr -> Job]
    BY <1>5, <1>0 DEF SaveWindow, Job, SpeedPc
  <2>4. OutcomeKnown'
    BY <1>5, <1>0 DEF SaveWindow, OutcomeKnown, Job, NoJob
  <2>5. file' \in [Disk -> Files]
    BY <1>5, <1>0 DEF SaveWindow, Files, DiskState
  <2> QED
    BY <1>5, <2>3, <2>4, <2>5, Typed DEF SaveWindow
<1>6. CASE SpeedEnd(p)
  <2>1. st' \in [Ptr -> DiskState]
    BY <1>6, <1>0 DEF SpeedEnd, DiskState
  <2>2. \A q \in Ptr : st'[q].key = st[q].key
    BY <1>6, <1>0 DEF SpeedEnd, DiskState
  <2>3. job' \in [Ptr -> Job]
    BY <1>6, <1>0, NoJobType DEF SpeedEnd, Job, SpeedPc
  <2>4. OutcomeKnown'
    BY <1>6, <1>0 DEF SpeedEnd, OutcomeKnown, Job, NoJob
  <2> QED
    BY <1>6, <2>1, <2>2, <2>3, <2>4, Typed DEF SpeedEnd
<1> QED
  BY <1>1, <1>2, <1>3, <1>4, <1>5, <1>6 DEF SpeedStep

LEMMA LaterAged ==
  ASSUME NEW s \in DiskState
  PROVE  [s EXCEPT !.age = Aged(s.age), !.sched = Sooner(s.sched)] \in DiskState
<1>1. Aged(s.age) \in Nat
  BY SupervisorAssumption DEF DiskState, Aged
<1>2. Sooner(s.sched) \in Schedule
  BY LessType DEF DiskState, Schedule, Sooner
<1> QED
  BY <1>1, <1>2 DEF DiskState

LEMMA ClockType == TypeInv /\ ClockTick => TypeInv'
<1> SUFFICES ASSUME TypeInv, ClockTick PROVE TypeInv'
  OBVIOUS
<1> USE DEF TypeInv, TypeOK
<1>1. st' \in [Ptr -> DiskState]
  BY LaterAged DEF ClockTick
<1>2. \A q \in Ptr : st'[q].key = st[q].key
  BY DEF ClockTick, DiskState
<1>3. job' \in [Ptr -> Job] /\ OutcomeKnown'
  <2>1. \A q \in Ptr : Less(job[q].left) \in Nat
    BY LessType DEF Job
  <2> QED
    BY <2>1 DEF ClockTick, OutcomeKnown, Job
<1>4. file' \in [Disk -> Files]
  <2>1. \A k \in Disk : Less(file[k].prog) \in Nat /\ Sooner(file[k].sched) \in Schedule
    BY LessType DEF Files, Sooner, Schedule
  <2> QED
    BY <2>1 DEF ClockTick, Files
<1>5. window' \in [Disk -> Nat]
  BY LessType DEF ClockTick
<1>6. \A k \in Disk : Known(k)' => st'[disks'[k]].key = k
  BY <1>2 DEF ClockTick, Known
<1> QED
  BY <1>1, <1>3, <1>4, <1>5, <1>6 DEF ClockTick, OutcomeKnown

LEMMA SeenType ==
  ASSUME NEW s \in DiskState
  PROVE  /\ Seen(s) \in DiskState /\ Seen(s).key = s.key
         /\ Missed(s) \in DiskState /\ Missed(s).key = s.key
  BY DEF Seen, Missed, DiskState

LEMMA AdoptedType ==
  ASSUME NEW s \in DiskState
  PROVE  /\ Adopted(s) \in DiskState /\ Adopted(s).key = s.key
         /\ Started(s) \in DiskState /\ Started(s).key = s.key
         /\ Overridden(s) \in DiskState /\ Overridden(s).key = s.key
  BY ScheduleType DEF Adopted, Started, Overridden, DiskState, Meta, Schedule

\* The diskStates of arriving sticks are different ones, and were free.
LEMMA FreshFacts ==
  ASSUME NEW new \in FreshFor(Arrived)
  PROVE  /\ \A k \in Arrived : new[k] \in Ptr /\ Free(new[k])
         /\ \A j, k \in Arrived : new[j] = new[k] => j = k
  BY DEF FreshFor, Injection

LEMMA TickType == TypeInv /\ TickBegin => TypeInv'
<1> SUFFICES ASSUME TypeInv, TickBegin PROVE TypeInv'
  OBVIOUS
<1>1. PICK new \in FreshFor(Arrived) : Discover(new)
  BY DEF TickBegin
<1> USE SupervisorAssumption DEF TypeInv, TypeOK
<1>2. Arrived \subseteq Disk /\ Gone \subseteq Disk
  BY DEF Arrived, Gone
<1>3. disks' \in [Disk -> Ptr \cup {NoPtr}]
  BY <1>1, <1>2, FreshFacts DEF Discover
<1>4. \A k \in Arrived : Discovered(new[k], new) \in DiskState /\ Discovered(new[k], new).key = k
  <2> TAKE k \in Arrived
  <2> DEFINE mine == {j \in Arrived : new[j] = new[k]}
  <2>1. mine = {k}
    BY FreshFacts
  <2>2. (CHOOSE j \in mine : TRUE) = k
    BY <2>1
  <2>3. /\ NewState(k, NewMeta, NewSchedule) \in DiskState
        /\ NewState(k, NewMeta, NewSchedule).key = k
    BY <1>2, NewStateType, MetaType, ScheduleType DEF NewState
  <2>4. Discovered(new[k], new) = Seen(NewState(k, NewMeta, NewSchedule))
    BY <2>1, <2>2 DEF Discovered
  <2> QED
    BY <2>3, <2>4, SeenType
<1>5. \A p \in Ptr : \/ \E k \in Arrived : p = new[k]
                    \/ /\ Discovered(p, new) \in DiskState
                       /\ Discovered(p, new).key = st[p].key
  BY SeenType DEF Discovered
<1>6. st' \in [Ptr -> DiskState]
  BY <1>1, <1>4, <1>5 DEF Discover
<1>7. \A k \in Disk : Known(k)' => st'[disks'[k]].key = k
  <2> SUFFICES ASSUME NEW k \in Disk, Known(k)' PROVE st'[disks'[k]].key = k
    OBVIOUS
  <2>1. CASE k \in Arrived
    BY <2>1, <1>1, <1>4, FreshFacts DEF Discover
  <2>2. CASE k \notin Arrived
    <3>1. disks'[k] = disks[k] /\ Known(k) /\ disks[k] \in Ptr
      BY <2>2, <1>1 DEF Discover, Known
    <3>2. \A j \in Arrived : disks[k] # new[j]
      BY FreshFacts, <3>1 DEF Free
    <3> QED
      BY <3>1, <3>2, <1>1, <1>5 DEF Discover
  <2> QED
    BY <2>1, <2>2
<1>8. file' \in [Disk -> Files]
  BY <1>1, NoFilesType, MetaType DEF Discover, Files
<1>9. window' \in [Disk -> Nat]
  BY <1>1 DEF Discover
<1>10. queue' \subseteq Ptr
  BY <1>3 DEF TickBegin
<1>11. UNCHANGED <<plugged, job, toggles, grace, leaving, kept>>
  BY DEF TickBegin
<1> QED
  BY <1>3, <1>6, <1>7, <1>8, <1>9, <1>10, <1>11 DEF OutcomeKnown

LEMMA ConsiderType == ASSUME TypeInv, NEW p \in Ptr, Consider(p) PROVE TypeInv'
<1> DEFINE s == Adopted(st[p])
<1>1. /\ st' = [st EXCEPT ![p] = IF Starts(s) THEN Started(s) ELSE s]
      /\ job' = IF Starts(s) THEN [job EXCEPT ![p] = [NoJob EXCEPT !.pc = "open"]] ELSE job
      /\ file' = IF ~st[p].meta.adopted
                 THEN [file EXCEPT ![s.key] = [@ EXCEPT !.meta = s.meta, !.sched = s.sched]]
                 ELSE file
      /\ kept' = [kept EXCEPT ![s.key] = @ \/ ~st[p].meta.adopted]
      /\ queue' = queue \ {p}
      /\ UNCHANGED <<plugged, disks, toggles, grace, leaving, window>>
  BY DEF Consider
<1> USE DEF TypeInv, TypeOK
<1>2. /\ st[p] \in DiskState /\ s \in DiskState /\ s.key = st[p].key
      /\ Started(s) \in DiskState /\ Started(s).key = st[p].key
  BY AdoptedType
<1>3. s.key \in Disk /\ s.meta \in Meta /\ s.sched \in Schedule
  BY <1>2 DEF DiskState
<1> HIDE DEF s
<1>4. st' \in [Ptr -> DiskState] /\ \A q \in Ptr : st'[q].key = st[q].key
  BY <1>1, <1>2
<1>5. job' \in [Ptr -> Job] /\ OutcomeKnown'
  <2>1. [NoJob EXCEPT !.pc = "open"] \in Job
    BY MetaType DEF NoJob, Job, RoundPc
  <2>2. [NoJob EXCEPT !.pc = "open"].pc = "open"
    BY DEF NoJob
  <2> QED
    BY <1>1, <2>1, <2>2 DEF OutcomeKnown
<1>6. file' \in [Disk -> Files]
  BY <1>1, <1>3 DEF Files
<1>7. kept' \in [Disk -> BOOLEAN]
  BY <1>1, <1>3
<1>8. \A k \in Disk : Known(k)' => st'[disks'[k]].key = k
  BY <1>1, <1>4 DEF Known
<1> QED
  BY <1>1, <1>4, <1>5, <1>6, <1>7, <1>8

LEMMA RequestType == ASSUME TypeInv, NEW k \in Disk, Request(k) PROVE TypeInv'
<1> USE DEF TypeInv, TypeOK, Known, World, history
<1> DEFINE p == disks[k]
<1>0. /\ Known(k) /\ p \in Ptr /\ st[p] \in DiskState /\ st[p].key = k /\ file[k] \in Files
      /\ st[p].meta \in Meta /\ Overridden(st[p]) \in DiskState
      /\ Overridden(st[p]).key = k /\ Overridden(st[p]).sched \in Schedule
  <2>1. Known(k)
    BY DEF Request, RequestScan, RequestSpeedTest, SetEnabled, SetEnabledAtOnce, StopScan,
           Forget
  <2> QED
    BY <2>1, AdoptedType DEF DiskState
<1>1. OverrideFiles(st[p]) \in [Disk -> Files] /\ OverrideWindow(st[p]) \in [Disk -> Nat]
  BY <1>0 DEF OverrideFiles, OverrideWindow, Files
<1>2. ASSUME NEW force \in BOOLEAN, RequestScan(k, force) PROVE TypeInv'
  <2>1. st' \in [Ptr -> DiskState] /\ \A q \in Ptr : st'[q].key = st[q].key
    BY <1>0, <1>2 DEF RequestScan, DiskState, Schedule
  <2> QED
    BY <1>1, <1>2, <2>1 DEF RequestScan, OutcomeKnown
<1>3. ASSUME NEW force \in BOOLEAN, RequestSpeedTest(k, force) PROVE TypeInv'
  <2>1. st' \in [Ptr -> DiskState] /\ \A q \in Ptr : st'[q].key = st[q].key
    BY <1>0, <1>3 DEF RequestSpeedTest, DiskState
  <2>2. /\ [NoJob EXCEPT !.pc = "speed_open"] \in Job
        /\ [NoJob EXCEPT !.pc = "speed_open"].pc = "speed_open"
    BY MetaType DEF NoJob, Job, SpeedPc
  <2>3. job' \in [Ptr -> Job] /\ OutcomeKnown'
    BY <1>3, <2>2 DEF RequestSpeedTest, OutcomeKnown
  <2> QED
    BY <1>1, <1>3, <2>1, <2>3 DEF RequestSpeedTest
<1>4. CASE StopScan(k)
  <2>1. st' \in [Ptr -> DiskState] /\ \A q \in Ptr : st'[q].key = st[q].key
    BY <1>0, <1>4 DEF StopScan, DiskState
  <2> QED
    BY <1>4, <2>1 DEF StopScan, OutcomeKnown
<1>5. ASSUME NEW enabled \in BOOLEAN, SetEnabled(k, enabled) PROVE TypeInv'
  <2>1. st' \in [Ptr -> DiskState] /\ \A q \in Ptr : st'[q].key = st[q].key
    BY <1>0, <1>5 DEF SetEnabled, DiskState, Meta
  <2>2. st'[p].meta \in Meta
    BY <1>0, <2>1 DEF DiskState
  <2>3. toggles' \subseteq [key : Disk, meta : Meta] /\ kept' \in [Disk -> BOOLEAN]
    BY <1>5, <2>2 DEF SetEnabled, KeptAfter
  <2> QED
    BY <1>5, <2>1, <2>3 DEF SetEnabled, OutcomeKnown
<1>6. ASSUME NEW enabled \in BOOLEAN, SetEnabledAtOnce(k, enabled) PROVE TypeInv'
  <2>1. st' \in [Ptr -> DiskState] /\ \A q \in Ptr : st'[q].key = st[q].key
    BY <1>0, <1>6 DEF SetEnabledAtOnce, DiskState, Meta
  <2>2. st'[p].meta \in Meta
    BY <1>0, <2>1 DEF DiskState
  <2>3. file' \in [Disk -> Files] /\ kept' \in [Disk -> BOOLEAN]
    BY <1>0, <1>6, <2>2 DEF SetEnabledAtOnce, KeptAfter, Files
  <2> QED
    BY <1>6, <2>1, <2>3 DEF SetEnabledAtOnce, OutcomeKnown
<1>7. CASE Forget(k)
  BY <1>0, <1>7, NoFilesType DEF Forget, OutcomeKnown
<1> QED
  BY <1>2, <1>3, <1>4, <1>5, <1>6, <1>7 DEF Request

LEMMA RememberedFacts ==
  ASSUME TypeInv, NEW k \in Disk
  PROVE  /\ Remembered(k) \in Nat
         /\ Remembered(k) <= file[k].sched.suppress
         /\ Remembered(k) # 0 => file[k].meta.known /\ file[k].meta.adopted
<1>1. file[k].sched.suppress \in Nat /\ window[k] \in Nat
  BY DEF TypeInv, TypeOK, Files, Schedule
<1> QED
  BY <1>1 DEF Remembered

LEMMA RestartType == TypeInv /\ Restart => TypeInv'
<1> SUFFICES ASSUME TypeInv, Restart PROVE TypeInv'
  OBVIOUS
<1>1. PICK ptr \in {f \in [Recorded -> Ptr] : Injection(f)} :
        /\ disks' = [k \in Disk |-> IF k \in Recorded THEN ptr[k] ELSE NoPtr]
        /\ st' = [p \in Ptr |-> Reloaded(p, ptr)]
  BY DEF Restart
<1> USE SupervisorAssumption DEF TypeInv, TypeOK
<1>2. Recorded \subseteq Disk /\ \A j, k \in Recorded : ptr[j] = ptr[k] => j = k
  BY DEF Recorded, Injection
<1>3. \A p \in Ptr : Reloaded(p, ptr) \in DiskState
  <2> TAKE p \in Ptr
  <2> DEFINE mine == {k \in Recorded : ptr[k] = p}
  <2>1. CASE mine = {}
    BY <2>1, NewStateType, MetaType, ScheduleType DEF Reloaded, DiskState
  <2>2. ASSUME mine # {} PROVE Reloaded(p, ptr) \in DiskState
    <3> DEFINE k == CHOOSE d \in mine : TRUE
    <3>1. k \in Disk
      BY <1>2, <2>2
    <3>2. file[k].meta \in Meta /\ file[k].sched \in Schedule
      BY <3>1 DEF Files
    <3>3. Reloaded(p, ptr) = NewState(k, file[k].meta, file[k].sched)
      BY <2>2 DEF Reloaded
    <3> QED
      BY <3>1, <3>2, <3>3, NewStateType
  <2> QED
    BY <2>1, <2>2
<1>4. \A k \in Recorded : Reloaded(ptr[k], ptr).key = k
  <2> TAKE k \in Recorded
  <2> DEFINE mine == {d \in Recorded : ptr[d] = ptr[k]}
  <2>1. mine = {k}
    BY <1>2
  <2>2. (CHOOSE d \in mine : TRUE) = k
    BY <2>1
  <2> QED
    BY <2>1, <2>2 DEF Reloaded, NewState
<1>5. st' \in [Ptr -> DiskState] /\ disks' \in [Disk -> Ptr \cup {NoPtr}]
  BY <1>1, <1>3
<1>6. \A k \in Disk : Known(k)' => st'[disks'[k]].key = k
  BY <1>1, <1>4 DEF Known
<1>7. job' \in [Ptr -> Job] /\ OutcomeKnown'
  BY NoJobType DEF Restart, OutcomeKnown, NoJob
<1>8. window' \in [Disk -> Nat]
  <2>1. \A k \in Disk : Remembered(k) \in Nat
    BY RememberedFacts
  <2> QED
    BY <2>1 DEF Restart
<1> QED
  BY <1>5, <1>6, <1>7, <1>8 DEF Restart

LEMMA SaveToggleType == ASSUME TypeInv, NEW t \in toggles, SaveToggle(t) PROVE TypeInv'
<1> USE DEF TypeInv, TypeOK
<1>1. t.key \in Disk /\ t.meta \in Meta /\ t.meta.enabled \in BOOLEAN
  BY DEF Meta
<1>2. KeptAfter(t.key, t.meta.enabled) \in BOOLEAN
  BY DEF KeptAfter
<1>3. file' \in [Disk -> Files] /\ kept' \in [Disk -> BOOLEAN]
  BY <1>1, <1>2 DEF SaveToggle, Files
<1> QED
  BY <1>3 DEF SaveToggle, OutcomeKnown, Known

LEMMA NextType == TypeInv /\ [Next]_vars => TypeInv'
<1> SUFFICES ASSUME TypeInv, [Next]_vars PROVE TypeInv'
  OBVIOUS
<1>1. ASSUME NEW k \in Disk, Plug(k) \/ Unplug(k) PROVE TypeInv'
  BY <1>1 DEF Plug, Unplug, TypeInv, TypeOK, OutcomeKnown, Known, history
<1>2. CASE Terminate
  BY <1>2 DEF Terminate, TypeInv, TypeOK, OutcomeKnown, Known, history
<1>3. ASSUME NEW p \in Ptr, Pass(p) PROVE TypeInv'
  BY <1>3 DEF Pass, TypeInv, TypeOK, OutcomeKnown, Known, history
<1>4. CASE UNCHANGED vars
  BY <1>4 DEF vars, TypeInv, TypeOK, OutcomeKnown, Known
<1> QED
  BY <1>1, <1>2, <1>3, <1>4, ClockType, TickType, ConsiderType, RoundType, SpeedType,
     RequestType, RestartType, SaveToggleType DEF Next

\* Every variable keeps the type the code gives it: no step of a round, of a
\* tick or of a request leaves a diskState filed under another key, or a
\* deadline that is not one.
THEOREM TypeCorrect == Spec => []TypeOK
<1>1. Init => TypeInv
  BY InitType
<1>2. TypeInv /\ [Next]_vars => TypeInv'
  BY NextType
<1>3. TypeInv => TypeOK
  BY DEF TypeInv
<1> QED
  BY <1>1, <1>2, <1>3, PTL DEF Spec

-----------------------------------------------------------------------------
(* The flags of a diskState and its goroutine.                             *)

\* What the goroutine of p leaves alone.
OthersAlone(p) ==
  /\ UNCHANGED <<disks, queue>>
  /\ \A q \in Ptr \ {p} : st'[q] = st[q] /\ job'[q] = job[q]
  /\ st'[p].key = st[p].key /\ st'[p].meta = st[p].meta
SameFlags(p) == /\ st'[p].scanning = st[p].scanning /\ st'[p].testing = st[p].testing
                /\ st'[p].stopReq = st[p].stopReq

LEMMA RoundFrame ==
  ASSUME TypeInv, NEW p \in Ptr, RoundStep(p)
  PROVE  /\ OthersAlone(p)
         /\ job[p].pc \in RoundPc
         /\ \/ job'[p].pc \in RoundPc /\ SameFlags(p)
            \/ /\ job'[p].pc = "idle" /\ ~st'[p].scanning /\ ~st'[p].stopReq
               /\ st'[p].testing = st[p].testing
<1> USE DEF TypeInv, TypeOK, World, Goto, At, OthersAlone, SameFlags
<1>0. st[p] \in DiskState /\ job[p] \in Job
  OBVIOUS
<1>1. CASE OpenRound(p)
  BY <1>0, <1>1 DEF OpenRound, RoundPc, Job
<1>2. CASE RoundFails(p)
  BY <1>0, <1>2 DEF RoundFails, RoundPc, Job
<1>3. CASE RoundDropout(p)
  BY <1>0, <1>3 DEF RoundDropout, RoundPc, Job
<1>4. CASE Reattached(p)
  BY <1>0, <1>4 DEF Reattached, RoundPc, Job
<1>5. ASSUME NEW out \in Outcome, RoundReturns(p, out)
      PROVE  OthersAlone(p) /\ job[p].pc \in RoundPc /\ job'[p].pc \in RoundPc /\ SameFlags(p)
  BY <1>0, <1>5 DEF RoundReturns, RoundPc, Job
<1>6. CASE Postpone(p)
  BY <1>0, <1>6 DEF Postpone, RoundPc, Job, DiskState
<1>7. CASE SavePostponed(p)
  BY <1>0, <1>7 DEF SavePostponed, RoundPc, Job
<1>8. CASE SaveHistory(p)
  BY <1>0, <1>8 DEF SaveHistory, RoundPc, Job
<1>9. CASE Reschedule(p)
  BY <1>0, <1>9 DEF Reschedule, RoundPc, Job, DiskState
<1>10. CASE SaveSchedule(p)
  BY <1>0, <1>10 DEF SaveSchedule, RoundPc, Job
<1>11. CASE CopyMeta(p)
  BY <1>0, <1>11 DEF CopyMeta, RoundPc, Job
<1>12. CASE SaveMeta(p)
  BY <1>0, <1>12 DEF SaveMeta, RoundPc, Job
<1>13. CASE RoundEnd(p)
  BY <1>0, <1>13 DEF RoundEnd, RoundPc, DiskState, NoJob
<1> QED
  BY <1>1, <1>2, <1>3, <1>4, <1>5, <1>6, <1>7, <1>8, <1>9, <1>10, <1>11, <1>12, <1>13 DEF RoundStep

LEMMA SpeedFrame ==
  ASSUME TypeInv, NEW p \in Ptr, SpeedStep(p)
  PROVE  /\ OthersAlone(p)
         /\ job[p].pc \in SpeedPc
         /\ \/ job'[p].pc \in SpeedPc /\ SameFlags(p)
            \/ /\ job'[p].pc = "idle" /\ ~st'[p].testing
               /\ st'[p].scanning = st[p].scanning /\ st'[p].stopReq = st[p].stopReq
<1> USE DEF TypeInv, TypeOK, World, Goto, At, OthersAlone, SameFlags
<1>0. st[p] \in DiskState /\ job[p] \in Job
  OBVIOUS
<1>1. CASE OpenSpeedTest(p)
  BY <1>0, <1>1 DEF OpenSpeedTest, SpeedPc, Job
<1>2. CASE SpeedTestDone(p)
  BY <1>0, <1>2 DEF SpeedTestDone, SpeedPc, Job
<1>3. CASE SpeedDropout(p)
  BY <1>0, <1>3 DEF SpeedDropout, SpeedPc, Job
<1>4. CASE SetWindow(p)
  BY <1>0, <1>4 DEF SetWindow, SpeedPc, Job, DiskState
<1>5. CASE SaveWindow(p)
  BY <1>0, <1>5 DEF SaveWindow, SpeedPc, Job
<1>6. CASE SpeedEnd(p)
  BY <1>0, <1>6 DEF SpeedEnd, SpeedPc, DiskState, NoJob
<1> QED
  BY <1>1, <1>2, <1>3, <1>4, <1>5, <1>6 DEF SpeedStep

\* GoroutineFlags, of one diskState.
FlagsOf(p) == /\ st[p].scanning <=> job[p].pc \in RoundPc
              /\ st[p].testing <=> job[p].pc \in SpeedPc
              /\ st[p].stopReq => st[p].scanning

LEMMA DisjointPc == /\ RoundPc \cap SpeedPc = {}
                    /\ "idle" \notin RoundPc \cup SpeedPc
  BY DEF RoundPc, SpeedPc

LEMMA GoroutineKeepsFlags ==
  ASSUME TypeInv, GoroutineFlags, NEW p \in Ptr, RoundStep(p) \/ SpeedStep(p)
  PROVE  GoroutineFlags'
<1>1. FlagsOf(p)
  BY DEF GoroutineFlags, FlagsOf
<1>2. OthersAlone(p) /\ FlagsOf(p)'
  BY <1>1, RoundFrame, SpeedFrame, DisjointPc DEF FlagsOf, SameFlags
<1> QED
  BY <1>2 DEF GoroutineFlags, FlagsOf, OthersAlone

\* The steps that touch neither a diskState nor a goroutine.
Aside == \/ \E k \in Disk : Plug(k) \/ Unplug(k)
         \/ \E p \in Ptr : Pass(p)
         \/ \E t \in toggles : SaveToggle(t)
         \/ Terminate \/ UNCHANGED vars

LEMMA AsideFrame ==
  ASSUME Aside
  PROVE  UNCHANGED <<disks, st, job, window>> /\ queue' \subseteq queue
  BY DEF Aside, Plug, Unplug, Pass, SaveToggle, Terminate, vars, history

\* A diskState as discovery leaves it.
LEMMA DiscoveredFrame ==
  ASSUME TypeInv, NEW new \in FreshFor(Arrived), NEW p \in Ptr
  PROVE  \/ /\ Free(p)
            /\ \E k \in Arrived : /\ new[k] = p
                                  /\ Discovered(p, new) = Seen(NewState(k, NewMeta, NewSchedule))
         \/ /\ \A k \in Arrived : new[k] # p
            /\ Discovered(p, new).scanning = st[p].scanning
            /\ Discovered(p, new).testing = st[p].testing
            /\ Discovered(p, new).stopReq = st[p].stopReq
            /\ Discovered(p, new).key = st[p].key
            /\ Discovered(p, new).meta = st[p].meta
            /\ Discovered(p, new).sched = st[p].sched
<1>0. st[p] \in DiskState
  BY DEF TypeInv, TypeOK
<1> DEFINE mine == {k \in Arrived : new[k] = p}
<1>1. CASE mine = {}
  BY <1>0, <1>1 DEF Discovered, Seen, Missed, DiskState
<1>2. CASE mine # {}
  <2>1. (CHOOSE k \in mine : TRUE) \in mine
    BY <1>2
  <2>2. Discovered(p, new) = Seen(NewState(CHOOSE k \in mine : TRUE, NewMeta, NewSchedule))
    BY <1>2 DEF Discovered
  <2> QED
    BY <2>1, <2>2, FreshFacts
<1> QED
  BY <1>1, <1>2

LEMMA NewStateFields ==
  ASSUME NEW k, NEW m, NEW sched
  PROVE  LET s == NewState(k, m, sched)
         IN /\ s.key = k /\ s.meta = m /\ s.sched = sched
            /\ ~s.scanning /\ ~s.testing /\ ~s.stopReq
            /\ Seen(s).key = k /\ Seen(s).meta = m /\ Seen(s).sched = sched
            /\ ~Seen(s).scanning /\ ~Seen(s).testing /\ ~Seen(s).stopReq
  BY DEF NewState, Seen

LEMMA FlagsInit == Init => GoroutineFlags
  BY DisjointPc, NewStateFields DEF Init, GoroutineFlags, NoJob

LEMMA FlagsTick == TypeInv /\ GoroutineFlags /\ TickBegin => GoroutineFlags'
<1> SUFFICES ASSUME TypeInv, GoroutineFlags, TickBegin, NEW p \in Ptr PROVE FlagsOf(p)'
  BY DEF GoroutineFlags, FlagsOf
<1>1. PICK new \in FreshFor(Arrived) : Discover(new)
  BY DEF TickBegin
<1>2. st'[p] = Discovered(p, new) /\ job' = job
  BY <1>1 DEF Discover, TickBegin
<1>3. FlagsOf(p)
  BY DEF GoroutineFlags, FlagsOf
<1>4. CASE Free(p) /\ \E k \in Arrived :
             Discovered(p, new) = Seen(NewState(k, NewMeta, NewSchedule))
  BY <1>2, <1>4, NewStateFields, DisjointPc DEF FlagsOf, Free
<1> QED
  BY <1>2, <1>3, <1>4, DiscoveredFrame DEF FlagsOf

LEMMA FlagsConsider ==
  ASSUME TypeInv, GoroutineFlags, NEW p \in Ptr, Consider(p)
  PROVE  GoroutineFlags'
<1> DEFINE s == Adopted(st[p])
<1>1. /\ st' = [st EXCEPT ![p] = IF Starts(s) THEN Started(s) ELSE s]
      /\ job' = IF Starts(s) THEN [job EXCEPT ![p] = [NoJob EXCEPT !.pc = "open"]] ELSE job
      /\ ~Busy(st[p])
  BY DEF Consider
<1>2. st \in [Ptr -> DiskState] /\ job \in [Ptr -> Job] /\ st[p] \in DiskState
  BY DEF TypeInv, TypeOK
<1>3. /\ s.scanning = st[p].scanning /\ s.testing = st[p].testing /\ s.stopReq = st[p].stopReq
      /\ Started(s).scanning /\ Started(s).testing = st[p].testing
  BY <1>2 DEF Adopted, Started, DiskState
<1>4. [NoJob EXCEPT !.pc = "open"].pc = "open" /\ "open" \in RoundPc
  BY DEF NoJob, RoundPc
<1>5. ~st[p].scanning /\ ~st[p].testing
  BY <1>1 DEF Busy
<1>6. FlagsOf(p)
  BY DEF GoroutineFlags, FlagsOf
<1> HIDE DEF s
<1>7. FlagsOf(p)'
  <2>1. CASE Starts(s)
    BY <1>1, <1>2, <1>3, <1>4, <1>5, <2>1, DisjointPc DEF FlagsOf
  <2>2. CASE ~Starts(s)
    BY <1>1, <1>2, <1>3, <1>6, <2>2 DEF FlagsOf
  <2> QED
    BY <2>1, <2>2
<1>8. \A q \in Ptr \ {p} : st'[q] = st[q] /\ job'[q] = job[q]
  BY <1>1, <1>2
<1> QED
  BY <1>7, <1>8 DEF GoroutineFlags, FlagsOf

\* What a request of the page does to diskStates and goroutines.
LEMMA RequestFrame ==
  ASSUME TypeInv, NEW k \in Disk, Request(k)
  PROVE  LET p == disks[k]
         IN /\ Known(k) /\ p \in Ptr /\ st[p].key = k
            /\ \A q \in Ptr \ {p} : st'[q] = st[q] /\ job'[q] = job[q]
            /\ queue' = queue /\ st'[p].key = k /\ st'[p].meta.adopted = st[p].meta.adopted
            /\ \/ /\ disks' = disks /\ job'[p] = job[p]
                  /\ st'[p].scanning = st[p].scanning /\ st'[p].testing = st[p].testing
                  /\ st'[p].stopReq => st[p].stopReq \/ st[p].scanning
               \/ /\ disks' = disks /\ Idle(st[p]) /\ job'[p].pc = "speed_open"
                  /\ ~st'[p].scanning /\ st'[p].testing /\ st'[p].stopReq = st[p].stopReq
                  /\ st[p].meta.adopted \/ "speed_unadopted" \in Disturbances
               \/ /\ Idle(st[p]) /\ st' = st /\ job' = job
                  /\ disks' = [disks EXCEPT ![k] = NoPtr]
                  /\ queue = {} \/ "forget_mid_tick" \in Disturbances
<1> DEFINE p == disks[k]
<1> USE DEF TypeInv, TypeOK, World
<1>0. Known(k) /\ p \in Ptr /\ st[p] \in DiskState /\ st[p].key = k
  BY DEF Known, Request, RequestScan, RequestSpeedTest, SetEnabled, SetEnabledAtOnce,
         StopScan, Forget
<1>00. st[p].meta \in Meta
  BY <1>0 DEF DiskState
<1>1. ASSUME NEW force \in BOOLEAN, RequestScan(k, force)
      PROVE  /\ disks' = disks /\ job' = job /\ queue' = queue
             /\ \A q \in Ptr \ {p} : st'[q] = st[q]
             /\ st'[p].key = st[p].key /\ st'[p].meta = st[p].meta
             /\ st'[p].scanning = st[p].scanning /\ st'[p].testing = st[p].testing
             /\ st'[p].stopReq = st[p].stopReq
  BY <1>0, <1>1 DEF RequestScan, Overridden, DiskState
<1>2. ASSUME NEW force \in BOOLEAN, RequestSpeedTest(k, force)
      PROVE  /\ disks' = disks /\ Idle(st[p]) /\ job'[p].pc = "speed_open" /\ queue' = queue
             /\ \A q \in Ptr \ {p} : st'[q] = st[q] /\ job'[q] = job[q]
             /\ st'[p].key = st[p].key /\ st'[p].meta = st[p].meta
             /\ st'[p].scanning = st[p].scanning /\ st'[p].testing
             /\ st'[p].stopReq = st[p].stopReq
             /\ st[p].meta.adopted \/ "speed_unadopted" \in Disturbances
  BY <1>0, <1>2 DEF RequestSpeedTest, Overridden, DiskState, NoJob
<1>3. CASE StopScan(k)
  BY <1>0, <1>3 DEF StopScan, DiskState
<1>4. ASSUME NEW enabled \in BOOLEAN, SetEnabled(k, enabled) \/ SetEnabledAtOnce(k, enabled)
      PROVE  /\ disks' = disks /\ job' = job /\ queue' = queue
             /\ \A q \in Ptr \ {p} : st'[q] = st[q]
             /\ st'[p].key = st[p].key /\ st'[p].meta.adopted = st[p].meta.adopted
             /\ st'[p].scanning = st[p].scanning /\ st'[p].testing = st[p].testing
             /\ st'[p].stopReq = st[p].stopReq
  BY <1>0, <1>00, <1>4 DEF SetEnabled, SetEnabledAtOnce, DiskState, Meta
<1>5. CASE Forget(k)
  BY <1>0, <1>5 DEF Forget
<1> QED
  BY <1>0, <1>1, <1>2, <1>3, <1>4, <1>5 DEF Request, Idle

LEMMA FlagsRequest ==
  ASSUME TypeInv, GoroutineFlags, NEW k \in Disk, Request(k)
  PROVE  GoroutineFlags'
<1>1. PICK p \in Ptr : p = disks[k]
  BY RequestFrame
<1>2. FlagsOf(p)'
  <2>1. "speed_open" \in SpeedPc /\ "speed_open" \notin RoundPc
    BY DEF SpeedPc, RoundPc
  <2>2. FlagsOf(p)
    BY DEF GoroutineFlags, FlagsOf
  <2> QED
    BY <1>1, <2>1, <2>2, RequestFrame DEF FlagsOf, Idle
<1>3. \A q \in Ptr \ {p} : st'[q] = st[q] /\ job'[q] = job[q]
  BY <1>1, RequestFrame
<1> QED
  BY <1>2, <1>3 DEF GoroutineFlags, FlagsOf

LEMMA ReloadedFrame ==
  ASSUME NEW p, NEW ptr
  PROVE  ~Reloaded(p, ptr).scanning /\ ~Reloaded(p, ptr).testing /\ ~Reloaded(p, ptr).stopReq
  BY NewStateFields DEF Reloaded

LEMMA RestartFrame ==
  ASSUME Restart
  PROVE  /\ queue' = {} /\ \A p \in Ptr : job'[p] = NoJob
         /\ \A p \in Ptr : ~st'[p].scanning /\ ~st'[p].testing /\ ~st'[p].stopReq
<1>1. PICK ptr : st' = [p \in Ptr |-> Reloaded(p, ptr)]
  BY DEF Restart
<1> QED
  BY <1>1, ReloadedFrame DEF Restart

LEMMA ClockFrame ==
  ASSUME TypeInv, ClockTick, NEW p \in Ptr
  PROVE  /\ UNCHANGED <<disks, queue>>
         /\ job'[p].pc = job[p].pc /\ job'[p].out = job[p].out
         /\ job'[p].left = Less(job[p].left)
         /\ st'[p].sched = Sooner(st[p].sched)
         /\ st'[p].key = st[p].key /\ st'[p].meta = st[p].meta /\ SameFlags(p)
  BY DEF ClockTick, TypeInv, TypeOK, DiskState, Job, SameFlags

LEMMA FlagsNext == TypeInv /\ GoroutineFlags /\ [Next]_vars => GoroutineFlags'
<1> SUFFICES ASSUME TypeInv, GoroutineFlags, [Next]_vars PROVE GoroutineFlags'
  OBVIOUS
<1>1. CASE Aside
  BY <1>1, AsideFrame DEF GoroutineFlags
<1>2. CASE ClockTick
  BY <1>2, ClockFrame DEF GoroutineFlags, SameFlags
<1>3. CASE Restart
  BY <1>3, RestartFrame, DisjointPc DEF GoroutineFlags, NoJob
<1> QED
  BY <1>1, <1>2, <1>3, FlagsTick, FlagsConsider, FlagsRequest, GoroutineKeepsFlags
  DEF Next, Aside

\* Scanning and Testing mean what they say: no exit of a goroutine leaves a
\* flag behind, and a second goroutine is never started beside one.
THEOREM FlagsCorrect == Spec => []GoroutineFlags
<1>1. Init => TypeInv /\ GoroutineFlags
  BY InitType, FlagsInit
<1>2. TypeInv /\ GoroutineFlags /\ [Next]_vars => (TypeInv /\ GoroutineFlags)'
  BY NextType, FlagsNext
<1> QED
  BY <1>1, <1>2, PTL DEF Spec

-----------------------------------------------------------------------------
(* One reader of a stick.                                                  *)

\* Whoever reads, and whoever a tick has still to consider, is the diskState
\* the map holds for its key; and nobody reads a disk in probation.
Attached ==
  /\ \A p \in Ptr : job[p].pc # "idle" => Tracked(p) /\ st[p].meta.adopted
  /\ \A p \in queue : Tracked(p)

\* The two disturbances that break it, which the code lets happen.
NeverForgetsMidTick == "forget_mid_tick" \notin Disturbances
NeverTestsProbation == "speed_unadopted" \notin Disturbances

Inv1 == TypeInv /\ GoroutineFlags /\ Attached

LEMMA BusyFlags ==
  ASSUME TypeInv, GoroutineFlags, NEW p \in Ptr
  PROVE  job[p].pc # "idle" <=> st[p].scanning \/ st[p].testing
  BY DisjointPc DEF TypeInv, TypeOK, GoroutineFlags, Job

LEMMA AttachedTick == Inv1 /\ TickBegin => Attached'
<1> SUFFICES ASSUME Inv1, TickBegin PROVE Attached'
  OBVIOUS
<1>1. PICK new \in FreshFor(Arrived) : Discover(new)
  BY DEF TickBegin
<1>2. TypeInv' /\ job' = job
  BY TickType DEF Inv1, TickBegin
<1>3. ASSUME NEW p \in Ptr, job[p].pc # "idle"
      PROVE  disks'[st'[p].key] = p /\ st'[p].meta.adopted
  <2>1. disks[st[p].key] = p /\ st[p].meta.adopted
    BY <1>3 DEF Inv1, Attached, Tracked
  <2>2. st[p].key \in Disk /\ p # NoPtr
    BY SupervisorAssumption DEF Inv1, TypeInv, TypeOK, DiskState
  <2>3. st[p].key \notin Arrived /\ st[p].key \notin Gone
    BY <2>1, <2>2 DEF Arrived, Gone, Known, Swept
  <2>4. st'[p].key = st[p].key /\ st'[p].meta = st[p].meta
    BY <1>1, <1>3, DiscoveredFrame DEF Inv1, Discover, Free
  <2> QED
    BY <1>1, <2>1, <2>2, <2>3, <2>4 DEF Discover
<1>4. \A p \in queue' : disks'[st'[p].key] = p
  BY <1>2 DEF TickBegin, TypeInv, TypeOK, Known
<1> QED
  BY <1>2, <1>3, <1>4 DEF Attached, Tracked

LEMMA ConsiderFrame ==
  ASSUME TypeInv, NEW p \in Ptr, Consider(p)
  PROVE  /\ p \in queue /\ disks' = disks /\ queue' = queue \ {p}
         /\ \A q \in Ptr \ {p} : st'[q] = st[q] /\ job'[q] = job[q]
         /\ st'[p].key = st[p].key /\ st'[p].meta.adopted
<1>1. st \in [Ptr -> DiskState] /\ job \in [Ptr -> Job] /\ st[p] \in DiskState
  BY DEF TypeInv, TypeOK
<1>2. /\ Adopted(st[p]).key = st[p].key /\ Adopted(st[p]).meta.adopted
      /\ Started(Adopted(st[p])).key = st[p].key
      /\ Started(Adopted(st[p])).meta.adopted
  BY <1>1 DEF Adopted, Started, DiskState, Meta
<1> QED
  BY <1>1, <1>2 DEF Consider

LEMMA AttachedRequest ==
  ASSUME NeverForgetsMidTick, NeverTestsProbation, Inv1, NEW k \in Disk, Request(k)
  PROVE  Attached'
<1>1. PICK p \in Ptr : p = disks[k]
  BY RequestFrame DEF Inv1
<1>2. st[p].key = k /\ st'[p].key = k /\ queue' = queue
  BY <1>1, RequestFrame DEF Inv1
<1>3. \A q \in Ptr \ {p} : st'[q] = st[q] /\ job'[q] = job[q]
  BY <1>1, RequestFrame DEF Inv1
<1>4. CASE disks' = disks
  <2>1. ASSUME job'[p].pc # "idle" PROVE st'[p].meta.adopted
    BY <1>1, <2>1, RequestFrame DEF Inv1, Attached, NeverTestsProbation
  <2>2. queue \subseteq Ptr
    BY DEF Inv1, TypeInv, TypeOK
  <2> QED
    BY <1>1, <1>2, <1>3, <1>4, <2>1, <2>2 DEF Attached, Tracked, Inv1
<1>5. CASE /\ Idle(st[p]) /\ st' = st /\ job' = job
           /\ disks' = [disks EXCEPT ![k] = NoPtr]
           /\ queue = {} \/ "forget_mid_tick" \in Disturbances
  <2>1. queue' = {}
    BY <1>2, <1>5 DEF NeverForgetsMidTick
  <2>2. job[p].pc = "idle"
    BY <1>5, BusyFlags DEF Inv1, Idle
  <2>3. ASSUME NEW q \in Ptr, job[q].pc # "idle" PROVE disks'[st[q].key] = q
    <3>1. disks[st[q].key] = q /\ q # p /\ st[q].key \in Disk
      BY <2>2, <2>3 DEF Inv1, Attached, Tracked, TypeInv, TypeOK, DiskState
    <3> QED
      BY <1>1, <1>5, <3>1 DEF Inv1, TypeInv, TypeOK
  <2> QED
    BY <1>5, <2>1, <2>3 DEF Attached, Tracked, Inv1
<1> QED
  BY <1>1, <1>4, <1>5, RequestFrame DEF Inv1

LEMMA AttachedNext ==
  ASSUME NeverForgetsMidTick, NeverTestsProbation, Inv1, [Next]_vars
  PROVE  Attached'
<1>1. CASE Aside
  BY <1>1, AsideFrame DEF Inv1, Attached, Tracked
<1>2. CASE ClockTick
  <2>1. \A p \in Ptr : /\ job'[p].pc = job[p].pc
                       /\ st'[p].key = st[p].key /\ st'[p].meta = st[p].meta
    BY <1>2, ClockFrame DEF Inv1
  <2>2. disks' = disks /\ queue' = queue /\ queue \subseteq Ptr
    BY <1>2 DEF ClockTick, Inv1, TypeInv, TypeOK
  <2> QED
    BY <2>1, <2>2 DEF Inv1, Attached, Tracked
<1>3. CASE Restart
  BY <1>3, RestartFrame DEF Attached, NoJob
<1>4. ASSUME NEW p \in Ptr, RoundStep(p) \/ SpeedStep(p) PROVE Attached'
  <2>1. OthersAlone(p) /\ job[p].pc # "idle"
    BY <1>4, RoundFrame, SpeedFrame, DisjointPc DEF Inv1
  <2> QED
    BY <2>1 DEF OthersAlone, Inv1, Attached, Tracked, TypeInv, TypeOK
<1>5. ASSUME NEW p \in Ptr, Consider(p) PROVE Attached'
  BY <1>5, ConsiderFrame DEF Inv1, Attached, Tracked, TypeInv, TypeOK
<1> QED
  BY <1>1, <1>2, <1>3, <1>4, <1>5, AttachedTick, AttachedRequest DEF Next, Aside

LEMMA Inv1Next ==
  ASSUME NeverForgetsMidTick, NeverTestsProbation
  PROVE  Inv1 /\ [Next]_vars => Inv1'
  BY NextType, FlagsNext, AttachedNext DEF Inv1

\* A stick has one reader at a time: a goroutine that reads it belongs to the
\* diskState the map holds, so two of them on one key are one.  It holds as
\* long as Forget does not land inside a tick and no disk is speed-tested in
\* probation (SupervisorForgetMidTick is what happens otherwise).
THEOREM OneReaderAtATime ==
  ASSUME NeverForgetsMidTick, NeverTestsProbation
  PROVE  Spec => []OneReader
<1>1. Init => Inv1
  BY InitType, FlagsInit DEF Init, Inv1, Attached, NoJob
<1>2. Inv1 /\ [Next]_vars => Inv1'
  BY Inv1Next
<1>3. Inv1 => OneReader
  BY DEF Inv1, Attached, Tracked, OneReader, Reading
<1> QED
  BY <1>1, <1>2, <1>3, PTL DEF Spec

-----------------------------------------------------------------------------
(***************************************************************************)
(* No reader starts inside the window a disk has earned, the files agree   *)
(* with memory, and the supervisor implements Cooldown, whatever rounds,   *)
(* ticks, requests, clock ticks and restarts interleave.                   *)
(***************************************************************************)

\* w is not more than what the goroutine of p is about to put in the schedule,
\* or, when it is about to put nothing there, than what the schedule holds.
Earning(p) == /\ job[p].pc \in {"reattach", "save_history", "reschedule"}
              /\ job[p].out \in Opening
Covered(p, w) ==
  IF job[p].pc = "set_window" THEN w <= job[p].left
  ELSE IF Earning(p) THEN w <= Cooldown[job[p].out]
  ELSE w <= st[p].sched.suppress

WindowKept ==
  \A k \in Disk : /\ window[k] # 0 => Known(k) /\ st[disks[k]].meta.adopted
                  /\ Known(k) => Covered(disks[k], window[k])

KeepsWindows == "crash_window" \notin Disturbances

Inv2 == Inv1 /\ WindowKept

\* What a goroutine does to the windows.
WindowStep(p) ==
  LET k == st[p].key
  IN /\ \A j \in Disk \ {k} : window'[j] = window[j]
     /\ Covered(p, window[k]) => Covered(p, window[k])'

LEMMA RoundWindow ==
  ASSUME TypeInv, NEW p \in Ptr, RoundStep(p)
  PROVE  WindowStep(p)
<1> USE SupervisorAssumption DEF TypeInv, TypeOK, World, Goto, At, WindowStep, Covered, Earning
<1>0. st[p] \in DiskState /\ job[p] \in Job /\ st[p].key \in Disk
  BY DEF DiskState
<1>00. st[p].sched \in Schedule /\ st[p].sched.suppress \in Nat
  BY <1>0 DEF DiskState, Schedule
<1>1. CASE OpenRound(p)
  BY <1>0, <1>1 DEF OpenRound, Job
<1>2. CASE RoundFails(p)
  BY <1>0, <1>2 DEF RoundFails, Job
<1>3. CASE RoundDropout(p)
  BY <1>0, <1>3 DEF RoundDropout, Job, Opening
<1>4. CASE Reattached(p)
  BY <1>0, <1>4 DEF Reattached, Job
<1>5. ASSUME NEW out \in Outcome, RoundReturns(p, out) PROVE WindowStep(p)
  BY <1>0, <1>5 DEF RoundReturns, Job, Opening
<1>6. CASE Postpone(p)
  BY <1>0, <1>00, <1>6 DEF Postpone, Job, DiskState, Schedule
<1>7. CASE SavePostponed(p)
  BY <1>0, <1>7 DEF SavePostponed, Job
<1>8. CASE SaveHistory(p)
  BY <1>0, <1>8 DEF SaveHistory, Job
<1>9. CASE Reschedule(p)
  <2> DEFINE out == job[p].out
             next == NextSchedule(st[p].sched, out, file[st[p].key].prog)
  <2>1. file[st[p].key].prog \in Nat
    BY <1>0 DEF Files
  <2>2. /\ out \in Opening => Cooldown[out] <= next.suppress
        /\ out \notin Opening => st[p].sched.suppress <= next.suppress
    BY <1>00, <2>1 DEF NextSchedule, Later
  <2>3. next.suppress \in Nat
    BY <1>00, <2>1 DEF NextSchedule, Later
  <2>4. st'[p].sched = next /\ st'[p].key = st[p].key
    BY <1>0, <1>9 DEF Reschedule, DiskState
  <2>5. window' = window /\ job'[p].pc = "save_schedule" /\ job[p].pc = "reschedule"
    BY <1>0, <1>9 DEF Reschedule, Job
  <2>6. window[st[p].key] \in Nat /\ (out \in Opening => Cooldown[out] \in Nat)
    BY <1>0
  <2> HIDE DEF next
  <2>7. ASSUME Covered(p, window[st[p].key]) PROVE window[st[p].key] <= next.suppress
    <3>1. IF out \in Opening THEN window[st[p].key] <= Cooldown[out]
                            ELSE window[st[p].key] <= st[p].sched.suppress
      BY <2>5, <2>7
    <3> QED
      BY <1>00, <2>2, <2>3, <2>6, <3>1
  <2>8. st'[p].sched.suppress = next.suppress /\ window'[st'[p].key] = window[st[p].key]
    BY <2>4, <2>5
  <2>9. ASSUME window[st[p].key] <= next.suppress PROVE Covered(p, window[st[p].key])'
    BY <2>5, <2>8, <2>9
  <2> QED
    BY <2>5, <2>7, <2>9
<1>10. CASE SaveSchedule(p)
  BY <1>0, <1>10 DEF SaveSchedule, Job
<1>11. CASE CopyMeta(p)
  BY <1>0, <1>11 DEF CopyMeta, Job
<1>12. CASE SaveMeta(p)
  BY <1>0, <1>12 DEF SaveMeta, Job
<1>13. CASE RoundEnd(p)
  BY <1>0, <1>00, <1>13 DEF RoundEnd, Job, NoJob, DiskState
<1> QED
  BY <1>1, <1>2, <1>3, <1>4, <1>5, <1>6, <1>7, <1>8, <1>9, <1>10, <1>11, <1>12, <1>13
  DEF RoundStep

LEMMA SpeedWindow ==
  ASSUME TypeInv, NEW p \in Ptr, SpeedStep(p)
  PROVE  WindowStep(p)
<1> USE SupervisorAssumption DEF TypeInv, TypeOK, World, Goto, At, WindowStep, Covered, Earning
<1>0. st[p] \in DiskState /\ job[p] \in Job /\ st[p].key \in Disk
  BY DEF DiskState
<1>00. st[p].sched \in Schedule /\ st[p].sched.suppress \in Nat /\ job[p].left \in Nat
  BY <1>0 DEF DiskState, Schedule, Job
<1>1. CASE OpenSpeedTest(p)
  BY <1>0, <1>1 DEF OpenSpeedTest, Job
<1>2. CASE SpeedTestDone(p)
  BY <1>0, <1>2 DEF SpeedTestDone, Job
<1>3. CASE SpeedDropout(p)
  BY <1>0, <1>3 DEF SpeedDropout, Job, Opening
<1>4. CASE SetWindow(p)
  BY <1>0, <1>00, <1>4 DEF SetWindow, Job, DiskState, Schedule
<1>5. CASE SaveWindow(p)
  BY <1>0, <1>5 DEF SaveWindow, Job
<1>6. CASE SpeedEnd(p)
  BY <1>0, <1>00, <1>6 DEF SpeedEnd, Job, NoJob, DiskState
<1> QED
  BY <1>1, <1>2, <1>3, <1>4, <1>5, <1>6 DEF SpeedStep

LEMMA GoroutineWindow ==
  ASSUME Inv2, NEW p \in Ptr, RoundStep(p) \/ SpeedStep(p)
  PROVE  WindowKept'
<1>1. WindowStep(p) /\ OthersAlone(p) /\ job[p].pc # "idle"
  BY RoundWindow, SpeedWindow, RoundFrame, SpeedFrame, DisjointPc DEF Inv2, Inv1
<1>2. disks[st[p].key] = p /\ st[p].meta.adopted
  BY <1>1 DEF Inv2, Inv1, Attached, Tracked
<1>3. st[p].key \in Disk /\ p # NoPtr
  BY SupervisorAssumption DEF Inv2, Inv1, TypeInv, TypeOK, DiskState
<1> SUFFICES ASSUME NEW k \in Disk
             PROVE  /\ window'[k] # 0 => Known(k)' /\ st'[disks'[k]].meta.adopted
                    /\ Known(k)' => Covered(disks[k], window[k])'
  BY DEF WindowKept
<1>4. CASE k = st[p].key
  <2>1. Covered(p, window[k])
    BY <1>2, <1>3, <1>4 DEF Inv2, WindowKept, Known
  <2>2. Covered(p, window[k])'
    BY <1>1, <1>4, <2>1 DEF WindowStep, OthersAlone
  <2>3. disks'[k] = p /\ st'[p].meta.adopted
    BY <1>1, <1>2, <1>4 DEF OthersAlone
  <2> QED
    BY <1>3, <2>2, <2>3 DEF Covered, Known
<1>5. CASE k # st[p].key
  <2>1. window'[k] = window[k] /\ disks'[k] = disks[k]
    BY <1>1, <1>5 DEF WindowStep, OthersAlone
  <2>2. ASSUME Known(k) PROVE st'[disks[k]] = st[disks[k]] /\ job'[disks[k]] = job[disks[k]]
    BY <1>1, <1>5, <2>2 DEF OthersAlone, Known, Inv2, Inv1, TypeInv, TypeOK
  <2> QED
    BY <2>1, <2>2 DEF Inv2, WindowKept, Known, Covered, Earning
<1> QED
  BY <1>4, <1>5

LEMMA LessMonotone ==
  ASSUME NEW m \in Nat, NEW n \in Nat
  PROVE  /\ m <= n => Less(m) <= Less(n) /\ Less(m) <= n
         /\ Less(m) # 0 => m # 0
  BY DEF Less

LEMMA ClockWindow == Inv2 /\ ClockTick => WindowKept'
<1> SUFFICES ASSUME Inv2, ClockTick, NEW k \in Disk
             PROVE  /\ window'[k] # 0 => Known(k)' /\ st'[disks'[k]].meta.adopted
                    /\ Known(k)' => Covered(disks[k], window[k])'
  BY DEF WindowKept
<1>1. /\ window'[k] = Less(window[k]) /\ window[k] \in Nat
      /\ disks' = disks /\ window'[k] \in Nat
  BY LessType DEF ClockTick, Inv2, Inv1, TypeInv, TypeOK
<1>2. CASE ~Known(k)
  BY <1>1, <1>2, LessMonotone DEF Known, Inv2, WindowKept
<1>3. CASE Known(k)
  <2>1. PICK p \in Ptr : p = disks[k]
    BY <1>3 DEF Known, Inv2, Inv1, TypeInv, TypeOK
  <2>2. Covered(p, window[k]) /\ (window[k] # 0 => st[p].meta.adopted)
    BY <1>3, <2>1 DEF Inv2, WindowKept
  <2>3. /\ job'[p].pc = job[p].pc /\ job'[p].out = job[p].out
        /\ job'[p].left = Less(job[p].left)
        /\ st'[p].sched = Sooner(st[p].sched)
        /\ st'[p].meta = st[p].meta
    BY ClockFrame DEF Inv2, Inv1
  <2>30. st'[p].sched.suppress = Less(st[p].sched.suppress)
    BY <2>3 DEF Sooner
  <2>4. /\ job[p].left \in Nat /\ st[p].sched.suppress \in Nat
        /\ job[p].out \in Opening => Cooldown[job[p].out] \in Nat
    BY SupervisorAssumption DEF Inv2, Inv1, TypeInv, TypeOK, DiskState, Schedule, Job
  <2>5. Covered(p, window[k])'
    BY <1>1, <2>2, <2>3, <2>30, <2>4, LessMonotone DEF Covered, Earning
  <2> QED
    BY <1>1, <1>3, <2>1, <2>2, <2>3, <2>5, LessMonotone DEF Known, Covered
<1> QED
  BY <1>2, <1>3

LEMMA TickWindow == Inv2 /\ TickBegin => WindowKept'
<1> SUFFICES ASSUME Inv2, TickBegin, NEW k \in Disk
             PROVE  /\ window'[k] # 0 => Known(k)' /\ st'[disks'[k]].meta.adopted
                    /\ Known(k)' => Covered(disks[k], window[k])'
  BY DEF WindowKept
<1>1. PICK new \in FreshFor(Arrived) : Discover(new)
  BY DEF TickBegin
<1>2. job' = job /\ window[k] \in Nat
  BY DEF TickBegin, Inv2, Inv1, TypeInv, TypeOK
<1>3. CASE k \in Arrived
  <2>1. PICK p \in Ptr : p = new[k]
    BY <1>3, FreshFacts
  <2>2. disks'[k] = p /\ Free(p)
    BY <1>1, <1>3, <2>1, FreshFacts DEF Discover
  <2>3. window'[k] = 0
    BY <1>1, <1>3 DEF Discover, Arrived, Gone, Inv2, WindowKept
  <2>4. st'[p].sched.suppress = 0
    BY <1>1, <1>3, <2>1, DiscoveredFrame, NewStateFields DEF Discover, NewSchedule, Inv2, Inv1
  <2> QED
    BY <1>2, <2>2, <2>3, <2>4 DEF Covered, Free, Earning
<1>4. CASE k \in Gone
  BY <1>1, <1>4 DEF Discover, Gone, Arrived, Known
<1>5. CASE k \notin Arrived /\ k \notin Gone
  <2>1. disks'[k] = disks[k] /\ window'[k] = window[k]
    BY <1>1, <1>5 DEF Discover
  <2>2. ASSUME Known(k)
        PROVE  st'[disks[k]].sched = st[disks[k]].sched /\ st'[disks[k]].meta = st[disks[k]].meta
    <3>1. disks[k] \in Ptr /\ ~Free(disks[k])
      BY <2>2 DEF Known, Free, Inv2, Inv1, TypeInv, TypeOK
    <3> QED
      BY <1>1, <3>1, DiscoveredFrame DEF Discover, Inv2, Inv1
  <2> QED
    BY <1>2, <2>1, <2>2 DEF Inv2, WindowKept, Known, Covered, Earning
<1> QED
  BY <1>3, <1>4, <1>5

LEMMA ConsiderSchedule ==
  ASSUME TypeInv, NEW p \in Ptr, Consider(p)
  PROVE  /\ window' = window /\ ~Busy(st[p])
         /\ st[p].meta.adopted => st'[p].sched = st[p].sched
         /\ st'[p].sched.suppress \in Nat
         /\ \/ job' = job
            \/ /\ job'[p].pc = "open"
               /\ st[p].meta.adopted => st[p].sched.suppress = 0
<1> DEFINE s == Adopted(st[p])
<1>1. /\ st' = [st EXCEPT ![p] = IF Starts(s) THEN Started(s) ELSE s]
      /\ job' = IF Starts(s) THEN [job EXCEPT ![p] = [NoJob EXCEPT !.pc = "open"]] ELSE job
      /\ window' = window /\ ~Busy(st[p])
  BY DEF Consider
<1>2. st \in [Ptr -> DiskState] /\ job \in [Ptr -> Job] /\ st[p] \in DiskState
  BY DEF TypeInv, TypeOK
<1>3. /\ s \in DiskState /\ s.sched.suppress \in Nat /\ Started(s).sched = s.sched
      /\ st[p].meta.adopted => s.sched = st[p].sched
  BY <1>2, AdoptedType DEF Adopted, Started, DiskState, Schedule
<1>4. Starts(s) => s.sched.suppress = 0
  BY DEF Starts, Due
<1>5. [NoJob EXCEPT !.pc = "open"].pc = "open"
  BY DEF NoJob
<1> HIDE DEF s
<1> QED
  BY <1>1, <1>2, <1>3, <1>4, <1>5

LEMMA ConsiderWindow ==
  ASSUME Inv2, NEW p \in Ptr, Consider(p)
  PROVE  WindowKept' /\ (Begins(p) => window'[st[p].key] = 0)
<1>1. p \in queue /\ disks[st[p].key] = p /\ st[p].key \in Disk /\ Known(st[p].key)
  BY SupervisorAssumption, ConsiderFrame
  DEF Inv2, Inv1, Attached, Tracked, TypeInv, TypeOK, DiskState, Known
<1>2. job[p].pc = "idle"
  BY ConsiderSchedule, BusyFlags DEF Busy, Inv2, Inv1
<1>3. window[st[p].key] \in Nat /\ st[p].sched.suppress \in Nat
  BY <1>1 DEF Inv2, Inv1, TypeInv, TypeOK, DiskState, Schedule
<1>4. window[st[p].key] <= st[p].sched.suppress /\ (~st[p].meta.adopted => window[st[p].key] = 0)
  BY <1>1, <1>2 DEF Inv2, WindowKept, Covered, Earning
<1>5. window[st[p].key] <= st'[p].sched.suppress /\ (Begins(p) => window[st[p].key] = 0)
  BY <1>3, <1>4, ConsiderSchedule DEF Inv2, Inv1, Begins
<1>6. job'[p].pc \in {"idle", "open"}
  BY <1>2, ConsiderSchedule DEF Inv2, Inv1
<1>7. ASSUME NEW k \in Disk
      PROVE  /\ window'[k] # 0 => Known(k)' /\ st'[disks'[k]].meta.adopted
             /\ Known(k)' => Covered(disks[k], window[k])'
  <2>1. CASE k = st[p].key
    BY <1>1, <1>5, <1>6, <2>1, ConsiderFrame, ConsiderSchedule
    DEF Covered, Earning, Known, Inv2, Inv1
  <2>2. CASE k # st[p].key
    <3>1. Known(k) => disks[k] \in Ptr \ {p}
      BY <2>2 DEF Known, Inv2, Inv1, TypeInv, TypeOK
    <3>2. Known(k) => st'[disks[k]] = st[disks[k]] /\ job'[disks[k]] = job[disks[k]]
      BY <3>1, ConsiderFrame DEF Inv2, Inv1
    <3>3. disks' = disks /\ window' = window
      BY ConsiderFrame, ConsiderSchedule DEF Inv2, Inv1
    <3> QED
      BY <3>2, <3>3 DEF Inv2, WindowKept, Known, Covered, Earning
  <2> QED
    BY <2>1, <2>2
<1> QED
  BY <1>5, <1>7, ConsiderSchedule DEF WindowKept, Inv2, Inv1

\* What a request does to the window and the schedule of its disk.
LEMMA RequestSchedule ==
  ASSUME TypeInv, NEW k \in Disk, Request(k)
  PROVE  LET p == disks[k]
         IN /\ \A j \in Disk \ {k} : window'[j] = window[j]
            /\ \/ /\ disks' = disks /\ window'[k] = window[k]
                  /\ st'[p].sched = st[p].sched /\ job' = job
               \/ /\ disks' = disks /\ Idle(st[p]) /\ st'[p].sched.suppress = 0
                  /\ window'[k] = IF st[p].sched.suppress = 0 THEN window[k] ELSE 0
                  /\ job' = job \/ job'[p].pc = "speed_open"
               \/ disks'[k] = NoPtr /\ window'[k] = 0 /\ job' = job
<1> DEFINE p == disks[k]
<1> USE DEF TypeInv, TypeOK, World
<1>0. Known(k) /\ p \in Ptr /\ st[p] \in DiskState /\ st[p].key = k
  BY RequestFrame
<1>00. st[p].sched \in Schedule
  BY <1>0 DEF DiskState
<1>1. ASSUME NEW force \in BOOLEAN, RequestScan(k, force)
      PROVE  /\ disks' = disks /\ Idle(st[p]) /\ st'[p].sched.suppress = 0
             /\ window' = OverrideWindow(st[p]) /\ job' = job
  BY <1>0, <1>00, <1>1 DEF RequestScan, Overridden, DiskState, Schedule
<1>2. ASSUME NEW force \in BOOLEAN, RequestSpeedTest(k, force)
      PROVE  /\ disks' = disks /\ Idle(st[p]) /\ st'[p].sched.suppress = 0
             /\ window' = OverrideWindow(st[p]) /\ job'[p].pc = "speed_open"
  BY <1>0, <1>00, <1>2 DEF RequestSpeedTest, Overridden, DiskState, Schedule, NoJob
<1>3. CASE StopScan(k)
  BY <1>0, <1>3 DEF StopScan, DiskState
<1>4. ASSUME NEW enabled \in BOOLEAN, SetEnabled(k, enabled) \/ SetEnabledAtOnce(k, enabled)
      PROVE  disks' = disks /\ window' = window /\ st'[p].sched = st[p].sched /\ job' = job
  BY <1>0, <1>4 DEF SetEnabled, SetEnabledAtOnce, DiskState
<1>5. CASE Forget(k)
  BY <1>0, <1>5 DEF Forget
<1>6. /\ \A j \in Disk \ {k} : OverrideWindow(st[p])[j] = window[j]
      /\ OverrideWindow(st[p])[k] = IF st[p].sched.suppress = 0 THEN window[k] ELSE 0
  BY <1>0 DEF OverrideWindow
<1> QED
  BY <1>1, <1>2, <1>3, <1>4, <1>5, <1>6 DEF Request

LEMMA RequestWindow ==
  ASSUME Inv2, NEW k \in Disk, Request(k)
  PROVE  /\ WindowKept'
         /\ \A q \in Ptr : Begins(q) => window'[st[q].key] = 0
<1>1. PICK p \in Ptr : p = disks[k]
  BY RequestFrame DEF Inv2, Inv1
<1>2. /\ Known(k) /\ st[p].key = k /\ st'[p].meta.adopted = st[p].meta.adopted
      /\ \A q \in Ptr \ {p} : st'[q] = st[q] /\ job'[q] = job[q]
      /\ \A j \in Disk \ {k} : window'[j] = window[j]
  BY <1>1, RequestFrame, RequestSchedule DEF Inv2, Inv1
<1>3. /\ window[k] \in Nat /\ Covered(p, window[k])
      /\ window[k] # 0 => st[p].meta.adopted
  BY <1>1, <1>2 DEF Inv2, Inv1, TypeInv, TypeOK, WindowKept
<1>4. \A j \in Disk \ {k} : /\ disks'[j] = disks[j]
                            /\ Known(j) => disks[j] \in Ptr \ {p}
  BY <1>1, <1>2, RequestFrame DEF Known, Inv2, Inv1, TypeInv, TypeOK
<1>5. ASSUME NEW j \in Disk \ {k}
      PROVE  /\ window'[j] # 0 => Known(j)' /\ st'[disks'[j]].meta.adopted
             /\ Known(j)' => Covered(disks[j], window[j])'
  <2>1. Known(j) => st'[disks[j]] = st[disks[j]] /\ job'[disks[j]] = job[disks[j]]
    BY <1>2, <1>4
  <2> QED
    BY <1>2, <1>4, <2>1 DEF Inv2, WindowKept, Known, Covered, Earning
\* A granted request is made to a disk nobody reads and leaves it no window.
<1>6. CASE /\ disks' = disks /\ Idle(st[p]) /\ st'[p].sched.suppress = 0
           /\ window'[k] = IF st[p].sched.suppress = 0 THEN window[k] ELSE 0
           /\ job' = job \/ job'[p].pc = "speed_open"
  <2>1. job[p].pc = "idle"
    BY <1>6, BusyFlags DEF Idle, Inv2, Inv1
  <2>2. window[k] <= st[p].sched.suppress
    BY <1>3, <2>1 DEF Covered, Earning
  <2>3. window'[k] = 0
    BY <1>3, <1>6, <2>2
  <2>4. Covered(p, window[k])'
    BY <1>6, <2>1, <2>3 DEF Covered, Earning
  <2>5. WindowKept'
    BY <1>1, <1>5, <1>6, <2>3, <2>4 DEF WindowKept, Known
  <2> QED
    BY <1>2, <2>3, <2>5 DEF Begins
<1>7. CASE /\ disks' = disks /\ window'[k] = window[k]
           /\ st'[p].sched = st[p].sched /\ job' = job
  <2>1. Covered(p, window[k])'
    BY <1>3, <1>7 DEF Covered, Earning
  <2>2. WindowKept'
    BY <1>1, <1>2, <1>3, <1>5, <1>7, <2>1 DEF WindowKept, Known
  <2> QED
    BY <1>7, <2>2 DEF Begins
<1>8. CASE disks'[k] = NoPtr /\ window'[k] = 0 /\ job' = job
  BY <1>5, <1>8 DEF WindowKept, Known, Begins
<1> QED
  BY <1>1, <1>6, <1>7, <1>8, RequestSchedule DEF Inv2, Inv1

\* A start finds in the schedule what the files keep of the window.
LEMMA RestartWindow ==
  ASSUME KeepsWindows, Inv2, Restart
  PROVE  WindowKept' /\ \A p \in Ptr : ~Begins(p)
<1>1. PICK ptr \in {f \in [Recorded -> Ptr] : Injection(f)} :
        /\ disks' = [k \in Disk |-> IF k \in Recorded THEN ptr[k] ELSE NoPtr]
        /\ st' = [p \in Ptr |-> Reloaded(p, ptr)]
  BY DEF Restart
<1>2. \A p \in Ptr : job'[p] = NoJob
  BY RestartFrame
<1>3. \A k \in Disk : window'[k] = Remembered(k)
  BY DEF Restart, KeepsWindows
<1>4. ASSUME NEW k \in Disk
      PROVE  /\ window'[k] # 0 => Known(k)' /\ st'[disks'[k]].meta.adopted
             /\ Known(k)' => Covered(disks[k], window[k])'
  <2>1. /\ Remembered(k) \in Nat /\ Remembered(k) <= file[k].sched.suppress
        /\ Remembered(k) # 0 => file[k].meta.known /\ file[k].meta.adopted
    BY RememberedFacts DEF Inv2, Inv1
  <2>2. CASE k \notin Recorded
    BY <1>1, <1>3, <2>1, <2>2 DEF Recorded, Known
  <2>3. CASE k \in Recorded
    <3>1. PICK p \in Ptr : p = ptr[k]
      BY <1>1, <2>3
    <3>2. disks'[k] = p /\ p # NoPtr
      BY <1>1, <2>3, <3>1, SupervisorAssumption
    <3>3. {d \in Recorded : ptr[d] = p} = {k}
      BY <1>1, <2>3, <3>1 DEF Injection
    <3>4. (CHOOSE d \in {k} : TRUE) = k
      OBVIOUS
    <3>5. st'[p] = NewState(k, file[k].meta, file[k].sched)
      BY <1>1, <3>3, <3>4 DEF Reloaded
    <3>6. st'[p].meta = file[k].meta /\ st'[p].sched = file[k].sched
      BY <3>5 DEF NewState
    <3>7. Covered(p, window[k])'
      BY <1>2, <1>3, <2>1, <3>6 DEF Covered, Earning, NoJob
    <3> QED
      BY <1>3, <2>1, <3>2, <3>6, <3>7 DEF Known, Covered
  <2> QED
    BY <2>2, <2>3
<1> QED
  BY <1>2, <1>4 DEF WindowKept, Begins, NoJob

LEMMA NextWindow ==
  ASSUME KeepsWindows, Inv2, [Next]_vars
  PROVE  /\ WindowKept'
         /\ \A p \in Ptr : Begins(p) => window'[st[p].key] = 0
<1>1. CASE Aside
  <2>1. UNCHANGED <<disks, st, job, window>>
    BY <1>1, AsideFrame
  <2> QED
    BY <2>1 DEF Inv2, WindowKept, Known, Covered, Earning, Begins
<1>2. CASE ClockTick
  BY <1>2, ClockWindow, ClockFrame DEF Begins, Inv2, Inv1
<1>3. CASE TickBegin
  BY <1>3, TickWindow DEF TickBegin, Begins
<1>4. CASE Restart
  BY <1>4, RestartWindow
<1>5. ASSUME NEW p \in Ptr, RoundStep(p) \/ SpeedStep(p)
      PROVE  WindowKept' /\ \A q \in Ptr : ~Begins(q)
  <2>1. OthersAlone(p) /\ job[p].pc # "idle"
    BY <1>5, RoundFrame, SpeedFrame, DisjointPc DEF Inv2, Inv1
  <2> QED
    BY <1>5, <2>1, GoroutineWindow DEF OthersAlone, Begins
<1>6. ASSUME NEW p \in Ptr, Consider(p)
      PROVE  WindowKept' /\ \A q \in Ptr : Begins(q) => window'[st[q].key] = 0
  BY <1>6, ConsiderWindow, ConsiderFrame DEF Inv2, Inv1, Begins
<1> QED
  BY <1>1, <1>2, <1>3, <1>4, <1>5, <1>6, RequestWindow DEF Next, Aside

\* No round and no speed test begins inside the window the disk has earned,
\* whenever the process dies, as far as the window was on disk by then, while
\* no disk is speed-tested in probation and Forget keeps clear of a running
\* tick.
THEOREM WindowsHonoured ==
  ASSUME KeepsWindows, NeverForgetsMidTick, NeverTestsProbation
  PROVE  Spec => WindowHonoured
<1>1. Init => Inv2
  <2>1. Init => Inv1
    BY InitType, FlagsInit DEF Init, Inv1, Attached, NoJob
  <2>2. Init => WindowKept
    BY DEF Init, WindowKept, Known
  <2> QED
    BY <2>1, <2>2 DEF Inv2
<1>2. Inv2 /\ [Next]_vars => Inv2'
  BY Inv1Next, NextWindow DEF Inv2
<1>3. Inv2 /\ [Next]_vars => [\A p \in Ptr : Begins(p) => window'[st[p].key] = 0]_vars
  BY NextWindow
<1> QED
  BY <1>1, <1>2, <1>3, PTL DEF Spec, WindowHonoured

-----------------------------------------------------------------------------
(***************************************************************************)
(* What is on disk agrees with memory between saves, and what is worth     *)
(* keeping is kept.                                                        *)
(***************************************************************************)

SavesAtOnce == "toggle_mid_save" \notin Disturbances

\* The files of k and the diskState p the map holds for it: one meta, but for
\* the exclusion once a round was recorded, whose copy on its way to be saved may
\* be older; one window unless a goroutine is about to save it; and what is kept
\* or was scanned the sweep cannot take.
Writing(p) == job[p].pc \in {"save_schedule", "save_window"}
Agrees(p, k) ==
  /\ file[k].meta.known /\ st[p].meta.known
  /\ file[k].meta.adopted = st[p].meta.adopted
  /\ file[k].rounds \/ file[k].meta.enabled = st[p].meta.enabled
  /\ job[p].pc = "save_meta" => job[p].meta.known /\ job[p].meta.adopted = st[p].meta.adopted
  /\ job[p].pc \in {"reschedule", "save_schedule", "copy_meta", "save_meta"} => file[k].rounds
  /\ ~Writing(p) => file[k].sched.suppress = st[p].sched.suppress
  /\ kept[k] => st[p].meta.adopted \/ ~st[p].meta.enabled
  /\ file[k].rounds => st[p].meta.adopted

\* The directory of a key the map does not hold is empty.
Nothing(k) ==
  /\ ~file[k].meta.known /\ ~file[k].meta.adopted
  /\ file[k].sched.suppress = 0 /\ ~file[k].rounds /\ ~kept[k]

RecordOf(k) == IF Known(k) THEN Agrees(disks[k], k) ELSE Nothing(k)

StoreInv == Inv1 /\ toggles = {} /\ \A k \in Disk : RecordOf(k)

LEMMA StoreHolds == StoreInv => StoreAgrees /\ KeptOnDisk
<1> SUFFICES ASSUME StoreInv, NEW k \in Disk
             PROVE  /\ Known(k) /\ ~Saving(k) =>
                         /\ file[k].meta.known = st[disks[k]].meta.known
                         /\ file[k].meta.adopted = st[disks[k]].meta.adopted
                         /\ file[k].rounds \/ file[k].meta.enabled = st[disks[k]].meta.enabled
                         /\ file[k].sched.suppress = st[disks[k]].sched.suppress
                    /\ kept[k] => file[k].meta.known
                    /\ file[k].rounds => file[k].meta.adopted
  BY DEF StoreAgrees, KeptOnDisk
<1>1. CASE Known(k)
  <2>1. PICK p \in Ptr : p = disks[k]
    BY <1>1 DEF Known, StoreInv, Inv1, TypeInv, TypeOK
  <2>2. Agrees(p, k)
    BY <1>1, <2>1 DEF StoreInv, RecordOf
  <2>3. file[k].meta \in Meta /\ st[p].meta \in Meta
    BY DEF StoreInv, Inv1, TypeInv, TypeOK, Files, DiskState
  <2>4. file[k].meta.known = TRUE /\ st[p].meta.known = TRUE
    BY <2>2, <2>3 DEF Agrees, Meta
  <2>5. ~Saving(k) => ~Writing(p)
    BY <2>1 DEF Saving, Writing
  <2> QED
    BY <2>1, <2>2, <2>4, <2>5 DEF Agrees
<1>2. CASE ~Known(k)
  BY <1>2 DEF StoreInv, RecordOf, Nothing
<1> QED
  BY <1>1, <1>2

LEMMA StoreInit == Init => StoreInv
<1>1. Init => Inv1
  BY InitType, FlagsInit DEF Init, Inv1, Attached, NoJob
<1> QED
  BY <1>1 DEF Init, StoreInv, RecordOf, Nothing, Known, NoFiles, NoMeta, NewSchedule

\* What a goroutine does to the files: its own record keeps agreeing.
RecordStep(p) ==
  LET k == st[p].key
  IN /\ \A j \in Disk \ {k} : file'[j] = file[j]
     /\ Agrees(p, k) => Agrees(p, k)'

LEMMA RoundRecord ==
  ASSUME TypeInv, NEW p \in Ptr, RoundStep(p), st[p].meta.adopted
  PROVE  RecordStep(p)
<1> USE DEF TypeInv, TypeOK, World, Goto, At, RecordStep, Agrees, Writing
<1>0. /\ st[p] \in DiskState /\ job[p] \in Job /\ st[p].key \in Disk
      /\ st[p].sched \in Schedule /\ file[st[p].key] \in Files
  BY DEF DiskState
<1>1. CASE OpenRound(p)
  BY <1>0, <1>1 DEF OpenRound, Job
<1>2. CASE RoundFails(p)
  BY <1>0, <1>2 DEF RoundFails, Job
<1>3. CASE RoundDropout(p)
  BY <1>0, <1>3 DEF RoundDropout, Job, Files
<1>4. CASE Reattached(p)
  BY <1>0, <1>4 DEF Reattached, Job
<1>5. ASSUME NEW out \in Outcome, RoundReturns(p, out) PROVE RecordStep(p)
  BY <1>0, <1>5 DEF RoundReturns, Job
<1>6. CASE Postpone(p)
  BY <1>0, <1>6 DEF Postpone, Job, DiskState, Schedule
<1>7. CASE SavePostponed(p)
  BY <1>0, <1>7 DEF SavePostponed, Job, Files
<1>8. CASE SaveHistory(p)
  BY <1>0, <1>8 DEF SaveHistory, Job, Files
<1>9. CASE Reschedule(p)
  BY <1>0, <1>9 DEF Reschedule, Job, DiskState
<1>10. CASE SaveSchedule(p)
  BY <1>0, <1>10 DEF SaveSchedule, Job, Files
<1>11. CASE CopyMeta(p)
  BY <1>0, <1>11 DEF CopyMeta, Job
<1>12. CASE SaveMeta(p)
  BY <1>0, <1>12 DEF SaveMeta, Job, Files
<1>13. CASE RoundEnd(p)
  BY <1>0, <1>13 DEF RoundEnd, Job, NoJob, DiskState
<1> QED
  BY <1>1, <1>2, <1>3, <1>4, <1>5, <1>6, <1>7, <1>8, <1>9, <1>10, <1>11, <1>12, <1>13
  DEF RoundStep

LEMMA SpeedRecord ==
  ASSUME TypeInv, NEW p \in Ptr, SpeedStep(p)
  PROVE  RecordStep(p)
<1> USE DEF TypeInv, TypeOK, World, Goto, At, RecordStep, Agrees, Writing
<1>0. /\ st[p] \in DiskState /\ job[p] \in Job /\ st[p].key \in Disk
      /\ st[p].sched \in Schedule /\ file[st[p].key] \in Files
  BY DEF DiskState
<1>1. CASE OpenSpeedTest(p)
  BY <1>0, <1>1 DEF OpenSpeedTest, Job
<1>2. CASE SpeedTestDone(p)
  BY <1>0, <1>2 DEF SpeedTestDone, Job
<1>3. CASE SpeedDropout(p)
  BY <1>0, <1>3 DEF SpeedDropout, Job, Files
<1>4. CASE SetWindow(p)
  BY <1>0, <1>4 DEF SetWindow, Job, DiskState
<1>5. CASE SaveWindow(p)
  BY <1>0, <1>5 DEF SaveWindow, Job, Files
<1>6. CASE SpeedEnd(p)
  BY <1>0, <1>6 DEF SpeedEnd, Job, NoJob, DiskState
<1> QED
  BY <1>1, <1>2, <1>3, <1>4, <1>5, <1>6 DEF SpeedStep

LEMMA GoroutineRecord ==
  ASSUME StoreInv, NEW p \in Ptr, RoundStep(p) \/ SpeedStep(p)
  PROVE  \A k \in Disk : RecordOf(k)'
<1>1. OthersAlone(p) /\ job[p].pc # "idle" /\ kept' = kept
  BY RoundFrame, SpeedFrame, DisjointPc
  DEF StoreInv, Inv1, World, RoundStep, SpeedStep, OpenRound, RoundFails, RoundDropout,
      Reattached, RoundReturns, Postpone, SavePostponed, SaveHistory, Reschedule,
      SaveSchedule, CopyMeta, SaveMeta, RoundEnd, OpenSpeedTest, SpeedTestDone,
      SpeedDropout, SetWindow, SaveWindow, SpeedEnd
<1>2. disks[st[p].key] = p /\ st[p].meta.adopted
  BY <1>1 DEF StoreInv, Inv1, Attached, Tracked
<1>3. RecordStep(p)
  BY <1>2, RoundRecord, SpeedRecord DEF StoreInv, Inv1
<1>4. st[p].key \in Disk /\ p # NoPtr
  BY SupervisorAssumption DEF StoreInv, Inv1, TypeInv, TypeOK, DiskState
<1> SUFFICES ASSUME NEW k \in Disk PROVE RecordOf(k)'
  OBVIOUS
<1>5. CASE k = st[p].key
  <2>1. Agrees(p, k)
    BY <1>2, <1>4, <1>5 DEF StoreInv, RecordOf, Known
  <2>2. Agrees(p, k)'
    BY <1>1, <1>3, <1>5, <2>1 DEF RecordStep, OthersAlone, Agrees, Writing
  <2> QED
    BY <1>1, <1>2, <1>4, <1>5, <2>2 DEF OthersAlone, RecordOf, Known, Agrees
<1>6. CASE k # st[p].key
  <2>1. file'[k] = file[k] /\ disks'[k] = disks[k]
    BY <1>1, <1>3, <1>6 DEF RecordStep, OthersAlone
  <2>2. ASSUME Known(k) PROVE st'[disks[k]] = st[disks[k]] /\ job'[disks[k]] = job[disks[k]]
    BY <1>1, <1>6, <2>2 DEF OthersAlone, Known, StoreInv, Inv1, TypeInv, TypeOK
  <2> QED
    BY <1>1, <2>1, <2>2 DEF StoreInv, RecordOf, Known, Agrees, Nothing, Writing
<1> QED
  BY <1>5, <1>6

LEMMA ClockRecord == StoreInv /\ ClockTick => \A k \in Disk : RecordOf(k)'
<1> SUFFICES ASSUME StoreInv, ClockTick, NEW k \in Disk PROVE RecordOf(k)'
  OBVIOUS
<1>0. file[k] \in Files /\ file[k].sched \in Schedule
  BY DEF StoreInv, Inv1, TypeInv, TypeOK, Files
<1>1. /\ disks' = disks /\ kept' = kept /\ RecordOf(k)
      /\ file'[k].meta = file[k].meta /\ file'[k].rounds = file[k].rounds
      /\ file'[k].sched = Sooner(file[k].sched)
  BY <1>0 DEF ClockTick, StoreInv, Inv1, TypeInv, TypeOK, Files
<1>2. file'[k].sched.suppress = Less(file[k].sched.suppress)
  BY <1>1 DEF Sooner
<1>3. CASE ~Known(k)
  BY <1>1, <1>2, <1>3 DEF RecordOf, Known, Nothing, Less
<1>4. CASE Known(k)
  <2>1. PICK p \in Ptr : p = disks[k]
    BY <1>4 DEF Known, StoreInv, Inv1, TypeInv, TypeOK
  <2>2. /\ job'[p].pc = job[p].pc /\ st'[p].sched = Sooner(st[p].sched)
        /\ st'[p].meta = st[p].meta
    BY ClockFrame DEF StoreInv, Inv1
  <2>4. job'[p].meta = job[p].meta
    BY DEF ClockTick, StoreInv, Inv1, TypeInv, TypeOK, Job
  <2>3. st'[p].sched.suppress = Less(st[p].sched.suppress)
    BY <2>2 DEF Sooner
  <2> QED
    BY <1>1, <1>2, <1>4, <2>1, <2>2, <2>3, <2>4 DEF RecordOf, Known, Agrees, Writing
<1> QED
  BY <1>3, <1>4

LEMMA TickRecord == StoreInv /\ TickBegin => \A k \in Disk : RecordOf(k)'
<1> SUFFICES ASSUME StoreInv, TickBegin, NEW k \in Disk PROVE RecordOf(k)'
  OBVIOUS
<1>1. PICK new \in FreshFor(Arrived) : Discover(new)
  BY DEF TickBegin
<1>2. job' = job /\ kept' = kept /\ file[k] \in Files /\ RecordOf(k)
  BY DEF TickBegin, StoreInv, Inv1, TypeInv, TypeOK
<1>3. CASE k \in Arrived
  <2>1. PICK p \in Ptr : p = new[k]
    BY <1>3, FreshFacts
  <2>2. disks'[k] = p /\ Free(p) /\ p # NoPtr
    BY <1>1, <1>3, <2>1, FreshFacts, SupervisorAssumption DEF Discover
  <2>3. file'[k].meta = NewMeta /\ file'[k].sched = file[k].sched /\ file'[k].rounds = file[k].rounds
    BY <1>1, <1>2, <1>3 DEF Discover, Arrived, Gone, Files
  <2>4. Nothing(k)
    BY <1>2, <1>3 DEF RecordOf, Arrived
  <2>5. st'[p].sched = NewSchedule /\ st'[p].meta = NewMeta
    BY <1>1, <1>3, <2>1, <2>2, DiscoveredFrame, NewStateFields DEF Discover, StoreInv, Inv1
  <2> QED
    BY <1>2, <2>2, <2>3, <2>4, <2>5
    DEF RecordOf, Known, Agrees, Nothing, Free, NewSchedule, NewMeta
<1>4. CASE k \in Gone
  <2>1. disks'[k] = NoPtr /\ file'[k] = NoFiles
    BY <1>1, <1>4 DEF Discover, Gone, Arrived, Known
  <2>2. ~kept[k]
    BY <1>2, <1>4 DEF Gone, Swept, RecordOf, Agrees
  <2> QED
    BY <1>2, <2>1, <2>2 DEF RecordOf, Known, Nothing, NoFiles, NoMeta, NewSchedule
<1>5. CASE k \notin Arrived /\ k \notin Gone
  <2>1. disks'[k] = disks[k] /\ file'[k] = file[k]
    BY <1>1, <1>5 DEF Discover
  <2>2. ASSUME Known(k)
        PROVE  st'[disks[k]].sched = st[disks[k]].sched /\ st'[disks[k]].meta = st[disks[k]].meta
    <3>1. disks[k] \in Ptr /\ ~Free(disks[k])
      BY <2>2 DEF Known, Free, StoreInv, Inv1, TypeInv, TypeOK
    <3> QED
      BY <1>1, <3>1, DiscoveredFrame DEF Discover, StoreInv, Inv1
  <2> QED
    BY <1>2, <2>1, <2>2 DEF RecordOf, Known, Agrees, Nothing, Writing
<1> QED
  BY <1>3, <1>4, <1>5

LEMMA ConsiderRecord ==
  ASSUME StoreInv, NEW p \in Ptr, Consider(p)
  PROVE  \A k \in Disk : RecordOf(k)'
<1> DEFINE s == Adopted(st[p])
<1>00. PICK key \in Disk : key = st[p].key
  BY DEF StoreInv, Inv1, TypeInv, TypeOK, DiskState
<1>0. /\ st \in [Ptr -> DiskState] /\ job \in [Ptr -> Job] /\ st[p] \in DiskState
      /\ file \in [Disk -> Files] /\ kept \in [Disk -> BOOLEAN]
      /\ st[p].meta \in Meta /\ p # NoPtr
  BY SupervisorAssumption DEF StoreInv, Inv1, TypeInv, TypeOK, DiskState
<1>1. p \in queue /\ disks[key] = p /\ disks' = disks
  BY <1>00, ConsiderFrame DEF StoreInv, Inv1, Attached, Tracked
<1>2. /\ job[p].pc = "idle" /\ ~Writing(p) /\ ~Writing(p)' /\ job'[p].pc # "save_meta"
      /\ job'[p].pc \notin {"reschedule", "save_schedule", "copy_meta", "save_meta"}
  BY ConsiderSchedule, BusyFlags DEF Busy, StoreInv, Inv1, Writing
<1>3. Agrees(p, key)
  BY <1>0, <1>1 DEF StoreInv, RecordOf, Known
<1>4. /\ s.key = key /\ s.meta.adopted /\ s.meta.known = st[p].meta.known
      /\ st[p].meta.adopted => s = st[p]
  BY <1>00, <1>0 DEF Adopted, DiskState, Meta
<1>5. /\ st' = [st EXCEPT ![p] = IF Starts(s) THEN Started(s) ELSE s]
      /\ file' = IF ~st[p].meta.adopted
                 THEN [file EXCEPT ![key] = [@ EXCEPT !.meta = s.meta, !.sched = s.sched]]
                 ELSE file
      /\ kept' = [kept EXCEPT ![key] = @ \/ ~st[p].meta.adopted]
  BY <1>00, <1>4 DEF Consider
<1>6. Started(s).meta = s.meta /\ Started(s).sched = s.sched
  BY <1>0, AdoptedType DEF Started, DiskState
<1> HIDE DEF s
<1>7. st'[p].meta = s.meta /\ st'[p].sched = s.sched
  BY <1>0, <1>5, <1>6
<1>8. /\ \A j \in Disk \ {key} : file'[j] = file[j] /\ kept'[j] = kept[j]
      /\ st[p].meta.adopted => file' = file
      /\ ~st[p].meta.adopted => file'[key].meta = s.meta /\ file'[key].sched = s.sched
  BY <1>0, <1>5 DEF Files
<1>9. Agrees(p, key)'
  BY <1>2, <1>3, <1>4, <1>7, <1>8 DEF Agrees
<1> SUFFICES ASSUME NEW k \in Disk PROVE RecordOf(k)'
  OBVIOUS
<1>10. CASE k = key
  BY <1>0, <1>1, <1>9, <1>10 DEF RecordOf, Known
<1>11. CASE k # key
  <2>1. ASSUME Known(k) PROVE disks[k] \in Ptr \ {p}
    BY <1>00, <1>11, <2>1 DEF Known, StoreInv, Inv1, TypeInv, TypeOK
  <2>2. Known(k) => st'[disks[k]] = st[disks[k]] /\ job'[disks[k]] = job[disks[k]]
    BY <2>1, ConsiderFrame DEF StoreInv, Inv1
  <2> QED
    BY <1>1, <1>8, <1>11, <2>2 DEF StoreInv, RecordOf, Known, Agrees, Nothing, Writing
<1> QED
  BY <1>10, <1>11

LEMMA RequestRecord ==
  ASSUME SavesAtOnce, StoreInv, NEW k \in Disk, Request(k)
  PROVE  toggles' = {} /\ \A j \in Disk : RecordOf(j)'
<1> USE DEF World
<1>1. PICK p \in Ptr : p = disks[k]
  BY RequestFrame DEF StoreInv, Inv1
<1>2. /\ Known(k) /\ st[p].key = k /\ p # NoPtr
      /\ \A q \in Ptr \ {p} : st'[q] = st[q] /\ job'[q] = job[q]
  BY <1>1, RequestFrame, SupervisorAssumption DEF StoreInv, Inv1
<1>3. /\ st \in [Ptr -> DiskState] /\ st[p] \in DiskState /\ st[p].sched \in Schedule
      /\ st[p].meta \in Meta /\ file \in [Disk -> Files] /\ kept \in [Disk -> BOOLEAN]
      /\ disks \in [Disk -> Ptr \cup {NoPtr}] /\ job \in [Ptr -> Job]
  BY DEF StoreInv, Inv1, TypeInv, TypeOK, DiskState
<1>4. Agrees(p, k)
  BY <1>1, <1>2 DEF StoreInv, RecordOf
<1>5. Idle(st[p]) => job[p].pc = "idle"
  BY BusyFlags DEF Idle, StoreInv, Inv1
<1>6. /\ Overridden(st[p]).meta = st[p].meta /\ Overridden(st[p]).sched.suppress = 0
      /\ \A j \in Disk \ {k} : OverrideFiles(st[p])[j] = file[j]
      /\ OverrideFiles(st[p])[k].meta = file[k].meta
      /\ OverrideFiles(st[p])[k].rounds = file[k].rounds
      /\ file[k].sched.suppress = st[p].sched.suppress => OverrideFiles(st[p])[k].sched.suppress = 0
  BY <1>2, <1>3 DEF Overridden, OverrideFiles, DiskState, Schedule, Files
<1>7. ASSUME NEW force \in BOOLEAN, RequestScan(k, force)
      PROVE  /\ Agrees(p, k)' /\ disks' = disks /\ toggles' = toggles
             /\ \A j \in Disk \ {k} : file'[j] = file[j] /\ kept'[j] = kept[j]
  <2>1. /\ Idle(st[p]) /\ job' = job /\ kept' = kept /\ disks' = disks /\ toggles' = toggles
        /\ file' = OverrideFiles(st[p])
        /\ st'[p] = [Overridden(st[p]) EXCEPT !.sched.next = 0, !.scanReq = TRUE]
    BY <1>1, <1>3, <1>7 DEF RequestScan
  <2>2. st'[p].meta = Overridden(st[p]).meta /\ st'[p].sched.suppress = Overridden(st[p]).sched.suppress
    BY <1>3, <2>1, AdoptedType DEF DiskState, Schedule
  <2> QED
    BY <1>4, <1>5, <1>6, <2>1, <2>2 DEF Agrees, Writing
<1>8. ASSUME NEW force \in BOOLEAN, RequestSpeedTest(k, force)
      PROVE  /\ Agrees(p, k)' /\ disks' = disks /\ toggles' = toggles
             /\ \A j \in Disk \ {k} : file'[j] = file[j] /\ kept'[j] = kept[j]
  <2>1. /\ Idle(st[p]) /\ kept' = kept /\ disks' = disks /\ toggles' = toggles
        /\ file' = OverrideFiles(st[p]) /\ job'[p].pc = "speed_open"
        /\ st'[p] = [Overridden(st[p]) EXCEPT !.testing = TRUE]
    BY <1>1, <1>3, <1>8 DEF RequestSpeedTest, NoJob
  <2>2. st'[p].meta = Overridden(st[p]).meta /\ st'[p].sched.suppress = Overridden(st[p]).sched.suppress
    BY <1>3, <2>1, AdoptedType DEF DiskState
  <2> QED
    BY <1>4, <1>5, <1>6, <2>1, <2>2 DEF Agrees, Writing
<1>9. ASSUME StopScan(k)
      PROVE  /\ Agrees(p, k)' /\ disks' = disks /\ toggles' = toggles
             /\ \A j \in Disk \ {k} : file'[j] = file[j] /\ kept'[j] = kept[j]
  BY <1>1, <1>3, <1>4, <1>9 DEF StopScan, DiskState, Agrees, Writing
<1>10. ASSUME NEW enabled \in BOOLEAN, SetEnabled(k, enabled) \/ SetEnabledAtOnce(k, enabled)
       PROVE  /\ Agrees(p, k)' /\ disks' = disks /\ toggles' = toggles
              /\ \A j \in Disk \ {k} : file'[j] = file[j] /\ kept'[j] = kept[j]
  <2>1. SetEnabledAtOnce(k, enabled)
    BY <1>10 DEF SavesAtOnce, SetEnabled
  <2>2. /\ job' = job /\ disks' = disks /\ toggles' = toggles
        /\ st' = [st EXCEPT ![p].meta.enabled = enabled]
        /\ file' = [file EXCEPT ![k].meta = st'[p].meta]
        /\ kept' = [kept EXCEPT ![k] = KeptAfter(k, enabled)]
    BY <1>1, <2>1 DEF SetEnabledAtOnce
  <2>3. /\ st'[p].meta.adopted = st[p].meta.adopted /\ st'[p].meta.known = st[p].meta.known
        /\ st'[p].meta.enabled = enabled /\ st'[p].sched = st[p].sched
    BY <1>3, <2>2 DEF DiskState, Meta
  <2>4. /\ file'[k].meta = st'[p].meta /\ file'[k].sched = file[k].sched
        /\ file'[k].rounds = file[k].rounds
        /\ kept'[k] => st[p].meta.adopted \/ ~enabled
    BY <1>1, <1>3, <2>2 DEF Files, KeptAfter
  <2> QED
    BY <1>3, <1>4, <2>2, <2>3, <2>4 DEF Agrees, Writing
<1>11. ASSUME Forget(k)
       PROVE  /\ disks'[k] = NoPtr /\ Nothing(k)' /\ toggles' = toggles
              /\ \A j \in Disk \ {k} : /\ disks'[j] = disks[j]
                                       /\ file'[j] = file[j] /\ kept'[j] = kept[j]
  BY <1>3, <1>11 DEF Forget, Nothing, NoFiles, NoMeta, NewSchedule
<1>12. \/ Agrees(p, k)' /\ disks'[k] = p
       \/ Nothing(k)' /\ disks'[k] = NoPtr
  BY <1>1, <1>7, <1>8, <1>9, <1>10, <1>11 DEF Request
<1>13. /\ toggles' = toggles
       /\ \A j \in Disk \ {k} : disks'[j] = disks[j] /\ file'[j] = file[j] /\ kept'[j] = kept[j]
  BY <1>7, <1>8, <1>9, <1>10, <1>11 DEF Request
<1>14. ASSUME NEW j \in Disk \ {k} PROVE RecordOf(j)'
  <2>1. Known(j) => disks[j] \in Ptr \ {p}
    BY <1>1, <1>2 DEF Known, StoreInv, Inv1, TypeInv, TypeOK
  <2>2. Known(j) => st'[disks[j]] = st[disks[j]] /\ job'[disks[j]] = job[disks[j]]
    BY <1>2, <2>1
  <2> QED
    BY <1>13, <2>2 DEF StoreInv, RecordOf, Known, Agrees, Nothing, Writing
<1> QED
  BY <1>2, <1>12, <1>13, <1>14 DEF StoreInv, RecordOf, Known

LEMMA RestartRecord == StoreInv /\ Restart => \A k \in Disk : RecordOf(k)'
<1> SUFFICES ASSUME StoreInv, Restart, NEW k \in Disk PROVE RecordOf(k)'
  OBVIOUS
<1>1. PICK ptr \in {f \in [Recorded -> Ptr] : Injection(f)} :
        /\ disks' = [d \in Disk |-> IF d \in Recorded THEN ptr[d] ELSE NoPtr]
        /\ st' = [p \in Ptr |-> Reloaded(p, ptr)]
  BY DEF Restart
<1>2. (\A p \in Ptr : job'[p] = NoJob) /\ file' = file /\ kept' = kept /\ RecordOf(k)
  BY RestartFrame DEF Restart, StoreInv
<1>3. CASE k \notin Recorded
  BY <1>1, <1>2, <1>3 DEF Recorded, Known, RecordOf, Agrees, Nothing
<1>4. CASE k \in Recorded
  <2>1. PICK p \in Ptr : p = ptr[k]
    BY <1>1, <1>4
  <2>2. disks'[k] = p /\ p # NoPtr
    BY <1>1, <1>4, <2>1, SupervisorAssumption
  <2>3. {d \in Recorded : ptr[d] = p} = {k}
    BY <1>1, <1>4, <2>1 DEF Injection
  <2>4. (CHOOSE d \in {k} : TRUE) = k
    OBVIOUS
  <2>5. st'[p] = NewState(k, file[k].meta, file[k].sched)
    BY <1>1, <2>3, <2>4 DEF Reloaded
  <2>6. st'[p].meta = file[k].meta /\ st'[p].sched = file[k].sched
    BY <2>5 DEF NewState
  <2>7. Agrees(disks[k], k)
    BY <1>2, <1>4 DEF RecordOf, Recorded, Nothing
  <2> QED
    BY <1>2, <1>4, <2>1, <2>2, <2>6, <2>7 DEF RecordOf, Known, Agrees, Writing, NoJob, Recorded
<1> QED
  BY <1>3, <1>4

LEMMA StoreNext ==
  ASSUME SavesAtOnce, NeverForgetsMidTick, NeverTestsProbation
  PROVE  StoreInv /\ [Next]_vars => StoreInv'
<1> SUFFICES ASSUME StoreInv, [Next]_vars PROVE toggles' = {} /\ \A k \in Disk : RecordOf(k)'
  BY Inv1Next DEF StoreInv
<1>1. CASE Aside
  <2>1. UNCHANGED <<disks, st, job, file, kept, toggles>>
    BY <1>1 DEF Aside, StoreInv, Plug, Unplug, Pass, SaveToggle, Terminate, vars, history
  <2> QED
    BY <2>1 DEF StoreInv, RecordOf, Known, Agrees, Nothing, Writing
<1>2. CASE ClockTick
  BY <1>2, ClockRecord DEF ClockTick, StoreInv
<1>3. CASE TickBegin
  BY <1>3, TickRecord DEF TickBegin, StoreInv
<1>4. CASE Restart
  BY <1>4, RestartRecord DEF Restart
<1>5. ASSUME NEW p \in Ptr, RoundStep(p) \/ SpeedStep(p)
      PROVE  toggles' = {} /\ \A k \in Disk : RecordOf(k)'
  <2>1. toggles' = toggles
    BY <1>5
    DEF World, RoundStep, SpeedStep, OpenRound, RoundFails, RoundDropout,
        Reattached, RoundReturns, Postpone, SavePostponed, SaveHistory, Reschedule,
        SaveSchedule, CopyMeta, SaveMeta, RoundEnd, OpenSpeedTest, SpeedTestDone,
        SpeedDropout, SetWindow, SaveWindow, SpeedEnd
  <2> QED
    BY <1>5, <2>1, GoroutineRecord DEF StoreInv
<1>6. ASSUME NEW p \in Ptr, Consider(p)
      PROVE  toggles' = {} /\ \A k \in Disk : RecordOf(k)'
  BY <1>6, ConsiderRecord DEF Consider, StoreInv
<1> QED
  BY <1>1, <1>2, <1>3, <1>4, <1>5, <1>6, RequestRecord DEF Next, Aside

\* Between saves a restart would find what memory holds, meta and window, unless
\* SetEnabled's two halves are torn apart, Forget lands inside a tick or a disk
\* is speed-tested in probation.
THEOREM StoreAlwaysAgrees ==
  ASSUME SavesAtOnce, NeverForgetsMidTick, NeverTestsProbation
  PROVE  Spec => []StoreAgrees
<1> QED
  BY StoreInit, StoreNext, StoreHolds, PTL DEF Spec

\* What was adopted, or excluded by hand, is never swept, and no history stands
\* beside a record that is not an adopted disk's, on the same conditions.
THEOREM KeptStaysOnDisk ==
  ASSUME SavesAtOnce, NeverForgetsMidTick, NeverTestsProbation
  PROVE  Spec => []KeptOnDisk
<1> QED
  BY StoreInit, StoreNext, StoreHolds, PTL DEF Spec

-----------------------------------------------------------------------------
(***************************************************************************)
(* The supervisor keeps the promise of Cooldown: every step of its         *)
(* goroutines, ticks, requests and restarts is a step of the abstract      *)
(* specification, or changes nothing it speaks of.                         *)
(***************************************************************************)

\* No window is longer than the two cooldowns together.
Longest == Cooldown["near_hang"] + Cooldown["dropout"]
WithinLongest(p) == st[p].sched.suppress <= Longest /\ job[p].left <= Longest
FilesWithin(k) == file[k].sched.suppress <= Longest /\ file[k].prog <= Longest

\* A goroutine the disk failed under is on its way to open the window; until
\* then the schedule has none, nor has that of a disk in probation.
Unopened == {"open", "round", "reattach", "save_history", "reschedule",
             "speed_open", "speed_test", "set_window"}
HitShape(p) ==
  /\ job[p].out \in Opening =>
       job[p].pc \in {"reattach", "save_history", "reschedule", "set_window"}
  /\ job[p].pc \in Unopened => st[p].sched.suppress = 0
  /\ ~st[p].meta.adopted => st[p].sched.suppress = 0

Shaped == /\ \A p \in Ptr : WithinLongest(p) /\ HitShape(p)
          /\ \A k \in Disk : FilesWithin(k)

PromiseInv == Inv2 /\ StoreInv /\ Shaped

LEMMA LongestFacts ==
  /\ Longest \in Nat
  /\ \A out \in Opening : /\ Cooldown[out] \in (0 .. Longest) \ {0}
                          /\ Cooldown[out] \in Nat /\ Cooldown[out] <= Longest
  BY SupervisorAssumption DEF Longest, Opening

\* What a goroutine does, in the words of Cooldown.
Silent(p) == /\ job'[p].pc # "idle" /\ window' = window
             /\ job'[p].out \in Opening <=> job[p].out \in Opening
             /\ st'[p].sched.suppress = st[p].sched.suppress
Hits(p) == /\ job'[p].pc # "idle"
           /\ job[p].out \notin Opening /\ job'[p].out \in Opening
           /\ st'[p].sched.suppress = st[p].sched.suppress
           /\ \E w \in (0 .. Longest) \ {0} : window' = [window EXCEPT ![st[p].key] = w]
Opens(p) == /\ job'[p].pc # "idle" /\ job'[p].out \notin Opening /\ window' = window
            /\ st'[p].sched.suppress \in 0 .. Longest
            /\ st'[p].sched.suppress >= st[p].sched.suppress
            /\ st'[p].sched.suppress >= window[st[p].key]
Ends(p) == /\ job[p].out \notin Opening /\ job'[p].pc = "idle" /\ window' = window
           /\ st'[p].sched.suppress = st[p].sched.suppress

GoroutineMove(p) ==
  /\ Silent(p) \/ Hits(p) \/ Opens(p) \/ Ends(p)
  /\ WithinLongest(p)' /\ HitShape(p)'
  /\ FilesWithin(st[p].key)'

LEMMA RoundMove ==
  ASSUME TypeInv, NEW p \in Ptr, RoundStep(p), st[p].meta.adopted,
         WithinLongest(p), HitShape(p), FilesWithin(st[p].key), Covered(p, window[st[p].key])
  PROVE  GoroutineMove(p)
<1> USE DEF TypeInv, TypeOK, World, Goto, At, GoroutineMove, WithinLongest, HitShape,
            FilesWithin, Unopened
<1>0. /\ st[p] \in DiskState /\ job[p] \in Job /\ st[p].key \in Disk
      /\ st[p].sched \in Schedule /\ st[p].sched.suppress \in Nat
      /\ file[st[p].key] \in Files /\ file[st[p].key].prog \in Nat
      /\ window[st[p].key] \in Nat
  BY DEF DiskState, Schedule, Files
<1>1. CASE OpenRound(p)
  BY <1>0, <1>1 DEF OpenRound, Job, Silent
<1>2. CASE RoundFails(p)
  BY <1>0, <1>2 DEF RoundFails, Job, Silent
<1>3. CASE RoundDropout(p)
  <2>1. "dropout" \in Opening
    BY DEF Opening
  <2>2. /\ job[p].pc = "round" /\ job'[p].pc = "reattach" /\ job'[p].out = "dropout"
        /\ job'[p].left = job[p].left /\ st' = st
        /\ window' = [window EXCEPT ![st[p].key] = Cooldown["dropout"]]
        /\ file'[st[p].key].prog = Cooldown["dropout"]
        /\ file'[st[p].key].sched = file[st[p].key].sched
    BY <1>0, <1>3 DEF RoundDropout, Job, Files
  <2>3. Hits(p)
    <3>1. Cooldown["dropout"] \in (0 .. Longest) \ {0}
      BY <2>1, LongestFacts
    <3>2. job[p].out \notin Opening
      BY <2>2
    <3> QED
      BY <2>1, <2>2, <3>1, <3>2 DEF Hits
  <2>4. Cooldown["dropout"] <= Longest
    BY <2>1, LongestFacts
  <2>5. WithinLongest(p)' /\ FilesWithin(st[p].key)'
    BY <2>2, <2>4, LongestFacts
  <2>6. HitShape(p)'
    BY <2>2
  <2> QED
    BY <2>3, <2>5, <2>6
<1>4. CASE Reattached(p)
  BY <1>0, <1>4 DEF Reattached, Job, Silent
<1>5. ASSUME NEW out \in Outcome, RoundReturns(p, out) PROVE GoroutineMove(p)
  <2>1. /\ job[p].pc = "round" /\ job'[p].out = out /\ st' = st /\ file' = file
        /\ job'[p].pc = IF out = "empty" THEN "postpone" ELSE "save_history"
        /\ job'[p].left = job[p].left
        /\ window' = IF out \in Opening THEN [window EXCEPT ![st[p].key] = Cooldown[out]]
                     ELSE window
    BY <1>0, <1>5 DEF RoundReturns, Job
  <2>2. "empty" \notin Opening
    BY DEF Opening
  <2>3. ASSUME out \in Opening PROVE Hits(p)
    <3>1. Cooldown[out] \in (0 .. Longest) \ {0}
      BY <2>3, LongestFacts
    <3>2. job[p].out \notin Opening
      BY <2>1
    <3> QED
      BY <2>1, <2>2, <2>3, <3>1, <3>2 DEF Hits
  <2>4. out \notin Opening => Silent(p)
    BY <2>1, <2>2 DEF Silent
  <2>5. WithinLongest(p)' /\ FilesWithin(st[p].key)' /\ HitShape(p)'
    BY <2>1, <2>2
  <2> QED
    BY <2>3, <2>4, <2>5
<1>6. CASE Postpone(p)
  BY <1>0, <1>6 DEF Postpone, Job, DiskState, Schedule, Silent
<1>7. CASE SavePostponed(p)
  BY <1>0, <1>7 DEF SavePostponed, Job, Files, Silent
<1>8. CASE SaveHistory(p)
  BY <1>0, <1>8 DEF SaveHistory, Job, Files, Silent
<1>9. CASE Reschedule(p)
  <2> DEFINE out == job[p].out
             prog == file[st[p].key].prog
             next == NextSchedule(st[p].sched, out, prog)
  <2>1. /\ job[p].pc = "reschedule" /\ job'[p].pc = "save_schedule"
        /\ job'[p].out = "none" /\ job'[p].left = job[p].left
        /\ st'[p].sched = next /\ st'[p].meta = st[p].meta /\ st'[p].key = st[p].key
        /\ window' = window /\ file' = file
    BY <1>0, <1>9 DEF Reschedule, Job, DiskState
  <2>2. "none" \notin Opening
    BY DEF Opening
  <2>3. st[p].sched.suppress = 0
    BY <2>1
  <2>4. next.suppress \in Nat /\ next.suppress <= Longest
    BY <1>0, <2>3, LongestFacts DEF NextSchedule, Later
  <2>5. window[st[p].key] <= next.suppress
    BY <1>0, <2>1, <2>3, LongestFacts DEF NextSchedule, Later, Covered, Earning
  <2> HIDE DEF next
  <2>6. Opens(p)
    BY <1>0, <2>1, <2>2, <2>3, <2>4, <2>5, LongestFacts DEF Opens
  <2> QED
    BY <2>1, <2>2, <2>4, <2>6
<1>10. CASE SaveSchedule(p)
  BY <1>0, <1>10 DEF SaveSchedule, Job, Files, Silent
<1>11. CASE CopyMeta(p)
  BY <1>0, <1>11 DEF CopyMeta, Job, Silent
<1>12. CASE SaveMeta(p)
  BY <1>0, <1>12 DEF SaveMeta, Job, Files, Silent
<1>13. CASE RoundEnd(p)
  <2>1. NoJob.out \notin Opening /\ NoJob.pc = "idle" /\ NoJob.left = 0
    BY DEF NoJob, Opening
  <2>2. /\ job[p].pc = "round_end" /\ job'[p] = NoJob /\ window' = window /\ file' = file
        /\ st'[p].sched = st[p].sched /\ st'[p].meta = st[p].meta /\ st'[p].key = st[p].key
    BY <1>0, <1>13 DEF RoundEnd, DiskState
  <2> QED
    BY <1>0, <2>1, <2>2, LongestFacts DEF Ends
<1> QED
  BY <1>1, <1>2, <1>3, <1>4, <1>5, <1>6, <1>7, <1>8, <1>9, <1>10, <1>11, <1>12, <1>13
  DEF RoundStep

LEMMA SpeedMove ==
  ASSUME TypeInv, NEW p \in Ptr, SpeedStep(p), st[p].meta.adopted,
         WithinLongest(p), HitShape(p), FilesWithin(st[p].key), Covered(p, window[st[p].key])
  PROVE  GoroutineMove(p)
<1> USE DEF TypeInv, TypeOK, World, Goto, At, GoroutineMove, WithinLongest, HitShape,
            FilesWithin, Unopened
<1>0. /\ st[p] \in DiskState /\ job[p] \in Job /\ st[p].key \in Disk
      /\ st[p].sched \in Schedule /\ st[p].sched.suppress \in Nat
      /\ file[st[p].key] \in Files /\ window[st[p].key] \in Nat /\ job[p].left \in Nat
  BY DEF DiskState, Schedule, Files, Job
<1>1. CASE OpenSpeedTest(p)
  BY <1>0, <1>1 DEF OpenSpeedTest, Job, Silent
<1>2. CASE SpeedTestDone(p)
  BY <1>0, <1>2 DEF SpeedTestDone, Job, Silent
<1>3. CASE SpeedDropout(p)
  <2>1. "dropout" \in Opening
    BY DEF Opening
  <2>2. /\ job[p].pc = "speed_test" /\ job'[p].pc = "set_window" /\ job'[p].out = "dropout"
        /\ job'[p].left = Cooldown["dropout"] /\ st' = st
        /\ window' = [window EXCEPT ![st[p].key] = Cooldown["dropout"]]
        /\ file'[st[p].key].prog = Cooldown["dropout"]
        /\ file'[st[p].key].sched = file[st[p].key].sched
    BY <1>0, <1>3 DEF SpeedDropout, Job, Files
  <2>3. Hits(p)
    <3>1. Cooldown["dropout"] \in (0 .. Longest) \ {0}
      BY <2>1, LongestFacts
    <3>2. job[p].out \notin Opening
      BY <2>2
    <3> QED
      BY <2>1, <2>2, <3>1, <3>2 DEF Hits
  <2>4. Cooldown["dropout"] <= Longest
    BY <2>1, LongestFacts
  <2>5. WithinLongest(p)' /\ FilesWithin(st[p].key)'
    BY <2>2, <2>4, LongestFacts
  <2>6. HitShape(p)'
    BY <2>2
  <2> QED
    BY <2>3, <2>5, <2>6
<1>4. CASE SetWindow(p)
  <2>1. /\ job[p].pc = "set_window" /\ job'[p].pc = "save_window"
        /\ job'[p].out = "none" /\ job'[p].left = 0
        /\ st'[p].sched.suppress = job[p].left /\ st'[p].meta = st[p].meta
        /\ st'[p].key = st[p].key
        /\ window' = window /\ file' = file
    BY <1>0, <1>4 DEF SetWindow, Job, DiskState, Schedule
  <2>2. "none" \notin Opening
    BY DEF Opening
  <2>3. Opens(p)
    BY <1>0, <2>1, <2>2, LongestFacts DEF Opens, Covered
  <2> QED
    BY <2>1, <2>2, <2>3, LongestFacts
<1>5. CASE SaveWindow(p)
  BY <1>0, <1>5 DEF SaveWindow, Job, Files, Silent
<1>6. CASE SpeedEnd(p)
  <2>1. NoJob.out \notin Opening /\ NoJob.pc = "idle" /\ NoJob.left = 0
    BY DEF NoJob, Opening
  <2>2. /\ job[p].pc = "speed_end" /\ job'[p] = NoJob /\ window' = window /\ file' = file
        /\ st'[p].sched = st[p].sched /\ st'[p].meta = st[p].meta /\ st'[p].key = st[p].key
    BY <1>0, <1>6 DEF SpeedEnd, DiskState
  <2> QED
    BY <1>0, <2>1, <2>2, LongestFacts DEF Ends
<1> QED
  BY <1>1, <1>2, <1>3, <1>4, <1>5, <1>6 DEF SpeedStep

LEMMA GoroutineShaped ==
  ASSUME Inv2, StoreInv, Shaped, NEW p \in Ptr, RoundStep(p) \/ SpeedStep(p)
  PROVE  /\ Shaped' /\ GoroutineMove(p) /\ OthersAlone(p)
         /\ disks[st[p].key] = p /\ job[p].pc # "idle" /\ st[p].key \in Disk
<1>1. OthersAlone(p) /\ job[p].pc # "idle"
  BY RoundFrame, SpeedFrame, DisjointPc DEF Inv2, Inv1
<1>2. disks[st[p].key] = p /\ st[p].meta.adopted
  BY <1>1 DEF Inv2, Inv1, Attached, Tracked
<1>3. st[p].key \in Disk /\ p # NoPtr
  BY SupervisorAssumption DEF Inv2, Inv1, TypeInv, TypeOK, DiskState
<1>4. Covered(p, window[st[p].key])
  BY <1>2, <1>3 DEF Inv2, WindowKept, Known
<1>5. WithinLongest(p) /\ HitShape(p) /\ FilesWithin(st[p].key)
  BY <1>3 DEF Shaped
<1>6. GoroutineMove(p)
  BY <1>2, <1>4, <1>5, RoundMove, SpeedMove DEF Inv2, Inv1
<1>7. \A j \in Disk \ {st[p].key} : file'[j] = file[j]
  BY <1>2, RoundRecord, SpeedRecord DEF RecordStep, StoreInv, Inv1
<1>8. \A q \in Ptr : WithinLongest(q)' /\ HitShape(q)'
  BY <1>1, <1>6 DEF GoroutineMove, OthersAlone, Shaped, WithinLongest, HitShape
<1>9. ASSUME NEW j \in Disk PROVE FilesWithin(j)'
  <2>1. CASE j = st[p].key
    BY <1>1, <1>6, <2>1 DEF GoroutineMove, OthersAlone, FilesWithin
  <2>2. CASE j # st[p].key
    BY <1>7, <2>2 DEF Shaped, FilesWithin
  <2> QED
    BY <2>1, <2>2
<1> QED
  BY <1>1, <1>2, <1>3, <1>6, <1>8, <1>9 DEF Shaped

-----------------------------------------------------------------------------
(* The steps of Cooldown, disk by disk.                                    *)

SameFor(j) == Reader(j)' = Reader(j) /\ window'[j] = window[j] /\ Held(j)' = Held(j)
Windowed == window \in [Disk -> Nat] /\ window' \in [Disk -> Nat]

LEMMA AbstractStutter ==
  ASSUME Windowed, \A j \in Disk : SameFor(j)
  PROVE  UNCHANGED Abstract!vars
  BY DEF Windowed, SameFor, Abstract!vars

LEMMA AbstractBegin ==
  ASSUME Windowed, NEW k \in Disk, \A j \in Disk \ {k} : SameFor(j),
         Reader(k) = "none", window[k] = 0, Held(k) = 0,
         Reader(k)' = "reading", window'[k] = window[k], Held(k)' = Held(k)
  PROVE  Abstract!Next
<1>1. window' = window
  BY DEF Windowed, SameFor
<1>2. [j \in Disk |-> Held(j)]' = [j \in Disk |-> Held(j)]
  BY DEF SameFor
<1>3. [j \in Disk |-> Reader(j)]' = [[j \in Disk |-> Reader(j)] EXCEPT ![k] = "reading"]
  BY DEF SameFor
<1>4. Abstract!Begin(k)
  BY <1>1, <1>2, <1>3 DEF Abstract!Begin
<1> QED
  BY <1>4 DEF Abstract!Next

LEMMA AbstractHit ==
  ASSUME Windowed, NEW k \in Disk, \A j \in Disk \ {k} : SameFor(j),
         Reader(k) = "reading", Reader(k)' = "hit", Held(k)' = Held(k),
         NEW w \in (0 .. Longest) \ {0}, window' = [window EXCEPT ![k] = w]
  PROVE  Abstract!Next
<1>1. Abstract!Hit(k)
  BY DEF Windowed, SameFor, Abstract!Hit, Longest
<1> QED
  BY <1>1 DEF Abstract!Next

LEMMA AbstractOpen ==
  ASSUME Windowed, NEW k \in Disk, \A j \in Disk \ {k} : SameFor(j),
         Reader(k) # "none", Reader(k)' = "reading", window'[k] = window[k],
         Held(k)' \in 0 .. Longest, Held(k)' >= window[k], Held(k)' >= Held(k)
  PROVE  Abstract!Next
<1>1. window' = window
  BY DEF Windowed, SameFor
<1>2. [j \in Disk |-> Held(j)]' = [[j \in Disk |-> Held(j)] EXCEPT ![k] = Held(k)']
  BY DEF SameFor
<1>3. [j \in Disk |-> Reader(j)]' = [[j \in Disk |-> Reader(j)] EXCEPT ![k] = "reading"]
  BY DEF SameFor
<1>4. Abstract!Open(k)
  BY <1>1, <1>2, <1>3 DEF Abstract!Open, Longest
<1> QED
  BY <1>4 DEF Abstract!Next

LEMMA AbstractEnd ==
  ASSUME Windowed, NEW k \in Disk, \A j \in Disk \ {k} : SameFor(j),
         Reader(k) = "reading", Reader(k)' = "none", window'[k] = window[k],
         Held(k)' = Held(k)
  PROVE  Abstract!Next
<1>1. window' = window
  BY DEF Windowed, SameFor
<1>2. [j \in Disk |-> Held(j)]' = [j \in Disk |-> Held(j)]
  BY DEF SameFor
<1>3. [j \in Disk |-> Reader(j)]' = [[j \in Disk |-> Reader(j)] EXCEPT ![k] = "none"]
  BY DEF SameFor
<1>4. Abstract!End(k)
  BY <1>1, <1>2, <1>3 DEF Abstract!End
<1> QED
  BY <1>4 DEF Abstract!Next

LEMMA AbstractOverride ==
  ASSUME Windowed, NEW k \in Disk, \A j \in Disk \ {k} : SameFor(j),
         Reader(k) = "none", Reader(k)' \in {"none", "reading"},
         window'[k] = 0, Held(k)' = 0
  PROVE  Abstract!Next
<1>1. Abstract!Override(k)
  BY DEF Windowed, SameFor, Abstract!Override
<1> QED
  BY <1>1 DEF Abstract!Next

LEMMA AbstractForget ==
  ASSUME Windowed, NEW ks \in SUBSET Disk, \A j \in Disk \ ks : SameFor(j),
         \A k \in ks : /\ Reader(k) = "none" /\ Reader(k)' = "none"
                       /\ window'[k] = 0 /\ Held(k)' = 0
  PROVE  Abstract!Next
<1>1. Abstract!Forget(ks)
  BY DEF Windowed, SameFor, Abstract!Forget, Abstract!Cleared
<1> QED
  BY <1>1 DEF Abstract!Next

LEMMA AbstractTick ==
  ASSUME Windowed,
         \A j \in Disk : /\ Reader(j)' = Reader(j) /\ window'[j] = Less(window[j])
                         /\ Held(j)' = Less(Held(j))
  PROVE  Abstract!Next
<1>1. Abstract!Tick
  BY DEF Windowed, Less, Abstract!Tick, Abstract!Less
<1> QED
  BY <1>1 DEF Abstract!Next

LEMMA AbstractDie ==
  ASSUME Windowed,
         \A j \in Disk : /\ Reader(j)' = "none" /\ Held(j)' \in 0 .. Longest
                         /\ window'[j] \in 0 .. Longest
                         /\ window'[j] <= window[j] /\ window'[j] <= Held(j)'
  PROVE  Abstract!Next
<1>1. Abstract!Die
  BY DEF Windowed, Abstract!Die, Longest
<1> QED
  BY <1>1 DEF Abstract!Next

-----------------------------------------------------------------------------
(* Every step of the supervisor.                                           *)

Implemented == Shaped' /\ [Abstract!Next]_(Abstract!vars)

\* One disk's goroutine: the others of the map see nothing of it.
LEMMA OthersSame ==
  ASSUME TypeInv, NEW p \in Ptr, OthersAlone(p), NEW j \in Disk, j # st[p].key
  PROVE  Reader(j)' = Reader(j) /\ Held(j)' = Held(j)
<1>1. Known(j) => disks[j] \in Ptr \ {p}
  BY DEF Known, TypeInv, TypeOK
<1>2. Known(j) => st'[disks[j]] = st[disks[j]] /\ job'[disks[j]] = job[disks[j]]
  BY <1>1 DEF OthersAlone
<1> QED
  BY <1>2 DEF OthersAlone, Reader, Held, Known

LEMMA GoroutineImplements ==
  ASSUME PromiseInv, Windowed, NEW p \in Ptr, RoundStep(p) \/ SpeedStep(p)
  PROVE  Implemented
<1>1. PICK k \in Disk : k = st[p].key
  BY GoroutineShaped DEF PromiseInv
<1>2. /\ Shaped' /\ GoroutineMove(p) /\ OthersAlone(p)
      /\ disks[k] = p /\ job[p].pc # "idle" /\ p # NoPtr
  BY <1>1, GoroutineShaped, SupervisorAssumption DEF PromiseInv
<1>3. \A j \in Disk \ {k} : Reader(j)' = Reader(j) /\ Held(j)' = Held(j)
  BY <1>1, <1>2, OthersSame DEF PromiseInv, Inv2, Inv1
<1>4. /\ Reader(k) = IF job[p].out \in Opening THEN "hit" ELSE "reading"
      /\ Held(k) = st[p].sched.suppress
      /\ Held(k)' = st'[p].sched.suppress
      /\ Reader(k)' = IF job'[p].pc = "idle" THEN "none"
                      ELSE IF job'[p].out \in Opening THEN "hit" ELSE "reading"
  BY <1>2 DEF Reader, Held, Known, OthersAlone
<1>5. window' = window => \A j \in Disk \ {k} : SameFor(j)
  BY <1>3 DEF SameFor
<1>6. CASE Silent(p)
  <2>1. \A j \in Disk : SameFor(j)
    BY <1>4, <1>5, <1>6 DEF Silent, SameFor
  <2> QED
    BY <1>2, <2>1, AbstractStutter DEF Implemented
<1>7. CASE Hits(p)
  <2>1. PICK w \in (0 .. Longest) \ {0} : window' = [window EXCEPT ![k] = w]
    BY <1>1, <1>7 DEF Hits
  <2>2. \A j \in Disk \ {k} : SameFor(j)
    BY <1>3, <2>1 DEF SameFor, Windowed
  <2>3. Abstract!Next
    BY <1>4, <1>7, <2>1, <2>2, AbstractHit DEF Hits
  <2> QED
    BY <1>2, <2>3 DEF Implemented
<1>8. CASE Opens(p)
  <2>1. Abstract!Next
    BY <1>1, <1>4, <1>5, <1>8, AbstractOpen DEF Opens
  <2> QED
    BY <1>2, <2>1 DEF Implemented
<1>9. CASE Ends(p)
  <2>1. Abstract!Next
    BY <1>4, <1>5, <1>9, AbstractEnd DEF Ends
  <2> QED
    BY <1>2, <2>1 DEF Implemented
<1> QED
  BY <1>2, <1>6, <1>7, <1>8, <1>9 DEF GoroutineMove

LEMMA ClockImplements ==
  ASSUME PromiseInv, Windowed, ClockTick
  PROVE  Implemented
<1>1. ASSUME NEW p \in Ptr PROVE WithinLongest(p)' /\ HitShape(p)'
  <2>1. /\ job'[p].pc = job[p].pc /\ job'[p].out = job[p].out
        /\ job'[p].left = Less(job[p].left)
        /\ st'[p].sched = Sooner(st[p].sched) /\ st'[p].meta = st[p].meta
    BY ClockFrame DEF PromiseInv, Inv2, Inv1
  <2>2. /\ job[p].left \in Nat /\ st[p].sched.suppress \in Nat
        /\ st'[p].sched.suppress = Less(st[p].sched.suppress)
    BY <2>1 DEF Sooner, PromiseInv, Inv2, Inv1, TypeInv, TypeOK, DiskState, Schedule, Job
  <2>3. WithinLongest(p) /\ HitShape(p)
    BY DEF PromiseInv, Shaped
  <2> QED
    BY <2>1, <2>2, <2>3, LongestFacts DEF WithinLongest, HitShape, Less
<1>2. ASSUME NEW k \in Disk PROVE FilesWithin(k)'
  <2>1. /\ file[k] \in Files /\ file[k].sched.suppress \in Nat /\ file[k].prog \in Nat
    BY DEF PromiseInv, Inv2, Inv1, TypeInv, TypeOK, Files, Schedule
  <2>2. /\ file'[k].sched = Sooner(file[k].sched) /\ file'[k].prog = Less(file[k].prog)
    BY <2>1 DEF ClockTick, Files
  <2> QED
    BY <2>1, <2>2, LongestFacts DEF PromiseInv, Shaped, FilesWithin, Sooner, Less
<1>3. ASSUME NEW j \in Disk
      PROVE  /\ Reader(j)' = Reader(j) /\ window'[j] = Less(window[j])
             /\ Held(j)' = Less(Held(j))
  <2>1. disks' = disks /\ window'[j] = Less(window[j])
    BY DEF ClockTick
  <2>2. CASE ~Known(j)
    BY <2>1, <2>2 DEF Reader, Held, Known, Less
  <2>3. CASE Known(j)
    <3>1. PICK p \in Ptr : p = disks[j]
      BY <2>3 DEF Known, PromiseInv, Inv2, Inv1, TypeInv, TypeOK
    <3>2. /\ job'[p].pc = job[p].pc /\ job'[p].out = job[p].out
          /\ st'[p].sched = Sooner(st[p].sched)
      BY ClockFrame DEF PromiseInv, Inv2, Inv1
    <3>3. st'[p].sched.suppress = Less(st[p].sched.suppress)
      BY <3>2 DEF Sooner
    <3> QED
      BY <2>1, <2>3, <3>1, <3>2, <3>3 DEF Reader, Held, Known
  <2> QED
    BY <2>2, <2>3
<1> QED
  BY <1>1, <1>2, <1>3, AbstractTick DEF Implemented, Shaped

LEMMA TickImplements ==
  ASSUME PromiseInv, Windowed, TickBegin
  PROVE  Implemented
<1>1. PICK new \in FreshFor(Arrived) : Discover(new)
  BY DEF TickBegin
<1>2. job' = job
  BY DEF TickBegin
<1>3. ASSUME NEW p \in Ptr PROVE WithinLongest(p)' /\ HitShape(p)'
  <2>1. st'[p] = Discovered(p, new)
    BY <1>1 DEF Discover
  <2>2. WithinLongest(p) /\ HitShape(p)
    BY DEF PromiseInv, Shaped
  <2>3. \/ Free(p) /\ st'[p].sched = NewSchedule
        \/ st'[p].sched = st[p].sched /\ st'[p].meta = st[p].meta
    BY <2>1, DiscoveredFrame, NewStateFields DEF PromiseInv, Inv2, Inv1
  <2> QED
    BY <1>2, <2>2, <2>3, LongestFacts
    DEF WithinLongest, HitShape, Free, NewSchedule, Unopened
<1>4. ASSUME NEW k \in Disk PROVE FilesWithin(k)'
  <2>1. file[k] \in Files /\ FilesWithin(k)
    BY DEF PromiseInv, Shaped, Inv2, Inv1, TypeInv, TypeOK
  <2>2. \/ file'[k] = NoFiles
        \/ file'[k].sched = file[k].sched /\ file'[k].prog = file[k].prog
    BY <1>1, <2>1 DEF Discover, Files
  <2> QED
    BY <2>1, <2>2, LongestFacts DEF FilesWithin, NoFiles, NewSchedule
<1>5. ASSUME NEW k \in Gone
      PROVE  /\ Reader(k) = "none" /\ Reader(k)' = "none"
             /\ window'[k] = 0 /\ Held(k)' = 0
  <2>1. k \in Disk /\ Known(k) /\ disks[k] \in Ptr /\ ~st[disks[k]].meta.adopted
    BY DEF Gone, Swept, Known, PromiseInv, Inv2, Inv1, TypeInv, TypeOK
  <2>2. job[disks[k]].pc = "idle"
    BY <2>1 DEF PromiseInv, Inv2, Inv1, Attached
  <2>3. disks'[k] = NoPtr /\ window'[k] = 0
    BY <1>1, <2>1 DEF Discover, Arrived
  <2> QED
    BY <2>2, <2>3 DEF Reader, Held, Known
<1>6. ASSUME NEW j \in Disk \ Gone PROVE SameFor(j)
  <2>1. window'[j] = window[j]
    BY <1>1 DEF Discover
  <2>2. CASE j \in Arrived
    <3>1. PICK p \in Ptr : p = new[j]
      BY <2>2, FreshFacts
    <3>2. disks'[j] = p /\ Free(p)
      BY <1>1, <2>2, <3>1, FreshFacts DEF Discover
    <3>3. st'[p].sched.suppress = 0
      BY <1>1, <2>2, <3>1, DiscoveredFrame, NewStateFields
      DEF Discover, NewSchedule, PromiseInv, Inv2, Inv1
    <3> QED
      BY <1>2, <2>1, <2>2, <3>2, <3>3 DEF SameFor, Reader, Held, Known, Free, Arrived
  <2>3. CASE j \notin Arrived
    <3>1. disks'[j] = disks[j]
      BY <1>1, <2>3 DEF Discover
    <3>2. ASSUME Known(j) PROVE st'[disks[j]].sched = st[disks[j]].sched
      <4>1. disks[j] \in Ptr /\ ~Free(disks[j])
        BY <3>2 DEF Known, Free, PromiseInv, Inv2, Inv1, TypeInv, TypeOK
      <4> QED
        BY <1>1, <4>1, DiscoveredFrame DEF Discover, PromiseInv, Inv2, Inv1
    <3> QED
      BY <1>2, <2>1, <3>1, <3>2 DEF SameFor, Reader, Held, Known
  <2> QED
    BY <2>2, <2>3
<1>7. Gone \in SUBSET Disk
  BY DEF Gone
<1>8. Abstract!Next
  BY <1>5, <1>6, <1>7, AbstractForget
<1> QED
  BY <1>3, <1>4, <1>8 DEF Implemented, Shaped

LEMMA ConsiderImplements ==
  ASSUME PromiseInv, Windowed, NEW p \in Ptr, Consider(p)
  PROVE  Implemented
<1> DEFINE s == Adopted(st[p])
<1>1. PICK k \in Disk : k = st[p].key
  BY DEF PromiseInv, Inv2, Inv1, TypeInv, TypeOK, DiskState
<1>2. /\ disks[k] = p /\ disks' = disks /\ p # NoPtr /\ window' = window
      /\ \A q \in Ptr \ {p} : st'[q] = st[q] /\ job'[q] = job[q]
      /\ st'[p].meta.adopted /\ st'[p].sched.suppress \in Nat
  BY <1>1, ConsiderFrame, ConsiderSchedule, SupervisorAssumption
  DEF PromiseInv, Inv2, Inv1, Attached, Tracked
<1>3. job[p].pc = "idle" /\ WithinLongest(p) /\ HitShape(p)
  BY ConsiderSchedule, BusyFlags DEF Busy, PromiseInv, Shaped, Inv2, Inv1
<1>4. /\ st[p] \in DiskState /\ st \in [Ptr -> DiskState] /\ job \in [Ptr -> Job]
      /\ file \in [Disk -> Files] /\ job[p] \in Job
  BY DEF PromiseInv, Inv2, Inv1, TypeInv, TypeOK
<1>5. /\ s.key = k /\ s.sched \in Schedule /\ Started(s).sched = s.sched
      /\ s.sched.suppress = st[p].sched.suppress
      /\ Starts(s) => s.sched.suppress = 0
  <2>1. st[p].meta.adopted => s = st[p]
    BY DEF Adopted
  <2>2. ~st[p].meta.adopted => s.sched = NewSchedule /\ st[p].sched.suppress = 0
    BY <1>3, <1>4 DEF Adopted, DiskState, HitShape
  <2>3. s \in DiskState /\ s.key = k
    BY <1>1, <1>4, AdoptedType DEF Adopted, DiskState
  <2> QED
    BY <2>1, <2>2, <2>3 DEF Starts, Started, Due, DiskState, NewSchedule
<1>6. /\ st' = [st EXCEPT ![p] = IF Starts(s) THEN Started(s) ELSE s]
      /\ job' = IF Starts(s) THEN [job EXCEPT ![p] = [NoJob EXCEPT !.pc = "open"]] ELSE job
      /\ \/ file' = file
         \/ file' = [file EXCEPT ![k] = [@ EXCEPT !.meta = s.meta, !.sched = s.sched]]
  BY <1>5 DEF Consider
<1> HIDE DEF s
<1>7. st'[p].sched.suppress = st[p].sched.suppress
  BY <1>4, <1>5, <1>6
<1>8. \/ job' = job
      \/ /\ job'[p].pc = "open" /\ job'[p].out = "none" /\ job'[p].left = 0
         /\ st[p].sched.suppress = 0
  BY <1>4, <1>5, <1>6 DEF NoJob
<1>9. "none" \notin Opening
  BY DEF Opening
<1>10. \A q \in Ptr : WithinLongest(q)' /\ HitShape(q)'
  <2>1. WithinLongest(p)' /\ HitShape(p)'
    BY <1>2, <1>3, <1>7, <1>8, <1>9, LongestFacts DEF WithinLongest, HitShape, Unopened
  <2> QED
    BY <1>2, <2>1 DEF PromiseInv, Shaped, WithinLongest, HitShape
<1>11. ASSUME NEW j \in Disk PROVE FilesWithin(j)'
  <2>1. \/ file'[j] = file[j]
        \/ file'[j].prog = file[j].prog /\ file'[j].sched.suppress = st[p].sched.suppress
    <3>1. file[k].prog = [file[k] EXCEPT !.meta = s.meta, !.sched = s.sched].prog
      BY <1>4 DEF Files
    <3>2. [file[k] EXCEPT !.meta = s.meta, !.sched = s.sched].sched = s.sched
      BY <1>4 DEF Files
    <3>3. \/ file'[j] = file[j]
          \/ file'[j] = [file[k] EXCEPT !.meta = s.meta, !.sched = s.sched] /\ j = k
      BY <1>4, <1>6
    <3> QED
      BY <1>5, <3>1, <3>2, <3>3
  <2> QED
    BY <1>3, <2>1 DEF PromiseInv, Shaped, FilesWithin, WithinLongest
<1>12. ASSUME NEW j \in Disk \ {k} PROVE SameFor(j)
  <2>1. Known(j) => disks[j] \in Ptr \ {p}
    BY <1>1 DEF Known, PromiseInv, Inv2, Inv1, TypeInv, TypeOK
  <2> QED
    BY <1>2, <2>1 DEF SameFor, Reader, Held, Known
<1>13. Reader(k) = "none" /\ Held(k) = st[p].sched.suppress /\ Held(k)' = Held(k)
  BY <1>2, <1>3, <1>7 DEF Reader, Held, Known
<1>14. CASE job' = job
  <2>1. \A j \in Disk : SameFor(j)
    BY <1>2, <1>12, <1>13, <1>14 DEF SameFor, Reader, Known
  <2> QED
    BY <1>10, <1>11, <2>1, AbstractStutter DEF Implemented, Shaped
<1>15. CASE job'[p].pc = "open" /\ job'[p].out = "none" /\ st[p].sched.suppress = 0
  <2>1. Reader(k)' = "reading"
    BY <1>2, <1>9, <1>15 DEF Reader, Known
  <2>2. window[k] = 0
    BY <1>2, <1>3, <1>15 DEF Windowed, PromiseInv, Inv2, WindowKept, Known, Covered, Earning
  <2>3. window'[k] = window[k] /\ Held(k) = 0
    BY <1>2, <1>13, <1>15
  <2>4. Abstract!Next
    BY <1>12, <1>13, <2>1, <2>2, <2>3, AbstractBegin
  <2> QED
    BY <1>10, <1>11, <2>4 DEF Implemented, Shaped
<1> QED
  BY <1>8, <1>14, <1>15

\* What a request does to the goroutine and the files of its disk.
LEMMA RequestMove ==
  ASSUME TypeInv, NEW k \in Disk, Request(k), NEW p \in Ptr, p = disks[k]
  PROVE  /\ \/ job'[p] = job[p]
            \/ job'[p].pc = "speed_open" /\ job'[p].out = "none" /\ job'[p].left = 0
         /\ \A j \in Disk : \/ /\ file'[j].sched.suppress = file[j].sched.suppress
                               /\ file'[j].prog = file[j].prog
                            \/ /\ file'[j].sched.suppress = 0
                               /\ file'[j].prog \in {0, file[j].prog}
<1> DEFINE FileStep == \A j \in Disk : \/ /\ file'[j].sched.suppress = file[j].sched.suppress
                                          /\ file'[j].prog = file[j].prog
                                       \/ /\ file'[j].sched.suppress = 0
                                          /\ file'[j].prog \in {0, file[j].prog}
<1> USE DEF TypeInv, TypeOK, World
<1>0. /\ st[p] \in DiskState /\ st[p].key = k /\ st[p].sched \in Schedule
      /\ file \in [Disk -> Files] /\ st \in [Ptr -> DiskState] /\ job \in [Ptr -> Job]
  BY RequestFrame DEF DiskState
<1>1. \A j \in Disk : \/ OverrideFiles(st[p])[j] = file[j]
                      \/ /\ OverrideFiles(st[p])[j].sched.suppress = 0
                         /\ OverrideFiles(st[p])[j].prog = file[j].prog
  BY <1>0 DEF OverrideFiles, Overridden, DiskState, Schedule, Files
<1>2. ASSUME NEW force \in BOOLEAN, RequestScan(k, force)
      PROVE  job' = job /\ FileStep
  BY <1>1, <1>2 DEF RequestScan
<1>3. ASSUME NEW force \in BOOLEAN, RequestSpeedTest(k, force)
      PROVE  /\ job'[p].pc = "speed_open" /\ job'[p].out = "none" /\ job'[p].left = 0
             /\ FileStep
  BY <1>0, <1>1, <1>3 DEF RequestSpeedTest, NoJob
<1>4. CASE StopScan(k)
  BY <1>4 DEF StopScan
<1>5. ASSUME NEW enabled \in BOOLEAN, SetEnabled(k, enabled) \/ SetEnabledAtOnce(k, enabled)
      PROVE  job' = job /\ FileStep
  BY <1>0, <1>5 DEF SetEnabled, SetEnabledAtOnce, Files
<1>6. CASE Forget(k)
  BY <1>0, <1>6 DEF Forget, NoFiles, NewSchedule
<1> QED
  BY <1>2, <1>3, <1>4, <1>5, <1>6 DEF Request

LEMMA RequestImplements ==
  ASSUME PromiseInv, Windowed, NEW k \in Disk, Request(k)
  PROVE  Implemented
<1>1. PICK p \in Ptr : p = disks[k]
  BY RequestFrame DEF PromiseInv, Inv2, Inv1
<1>2. /\ Known(k) /\ st[p].key = k /\ p # NoPtr
      /\ st'[p].meta.adopted = st[p].meta.adopted
      /\ \A q \in Ptr \ {p} : st'[q] = st[q] /\ job'[q] = job[q]
      /\ \A j \in Disk \ {k} : window'[j] = window[j] /\ disks'[j] = disks[j]
  BY <1>1, RequestFrame, RequestSchedule, SupervisorAssumption
  DEF PromiseInv, Inv2, Inv1, TypeInv, TypeOK
<1>3. /\ WithinLongest(p) /\ HitShape(p) /\ st[p].sched.suppress \in Nat
      /\ Idle(st[p]) => job[p].pc = "idle"
  BY BusyFlags DEF Idle, PromiseInv, Shaped, Inv2, Inv1, TypeInv, TypeOK, DiskState, Schedule
<1>4. "none" \notin Opening
  BY DEF Opening
<1>5. \/ st'[p].sched = st[p].sched /\ job'[p] = job[p]
      \/ st'[p].sched.suppress = 0 /\ job'[p] = job[p]
      \/ /\ st'[p].sched.suppress = 0 /\ job'[p].pc = "speed_open"
         /\ job'[p].out = "none" /\ job'[p].left = 0
      \/ st' = st /\ job'[p] = job[p]
  <2>1. disks[k] # NoPtr /\ TypeInv
    BY <1>2 DEF Known, PromiseInv, Inv2, Inv1
  <2>2. st' = st \/ disks' = disks
    BY <1>1, <2>1, RequestFrame
  <2>3. \/ st'[p].sched = st[p].sched \/ st'[p].sched.suppress = 0
    BY <1>1, <2>1, <2>2, RequestSchedule
  <2>4. \/ job'[p] = job[p]
        \/ /\ job'[p].pc = "speed_open" /\ st'[p].sched.suppress = 0
           /\ job'[p].out = "none" /\ job'[p].left = 0
    BY <1>1, <2>1, RequestMove, RequestSchedule
  <2> QED
    BY <2>3, <2>4
<1>6. WithinLongest(p)' /\ HitShape(p)'
  BY <1>2, <1>3, <1>4, <1>5, LongestFacts DEF WithinLongest, HitShape
<1>7. \A q \in Ptr : WithinLongest(q)' /\ HitShape(q)'
  BY <1>2, <1>6 DEF PromiseInv, Shaped, WithinLongest, HitShape
<1>8. ASSUME NEW j \in Disk PROVE FilesWithin(j)'
  <2>1. FilesWithin(j)
    BY DEF PromiseInv, Shaped
  <2> QED
    BY <1>1, <2>1, RequestMove, LongestFacts DEF FilesWithin, PromiseInv, Inv2, Inv1
<1>9. ASSUME NEW j \in Disk \ {k} PROVE SameFor(j)
  <2>1. Known(j) => disks[j] \in Ptr \ {p}
    BY <1>1, <1>2 DEF Known, PromiseInv, Inv2, Inv1, TypeInv, TypeOK
  <2> QED
    BY <1>2, <2>1 DEF SameFor, Reader, Held, Known
<1>10. Held(k) = st[p].sched.suppress
  BY <1>1, <1>2 DEF Held
<1>11. CASE /\ disks' = disks /\ window'[k] = window[k]
            /\ st'[p].sched = st[p].sched /\ job' = job
  <2>1. SameFor(k)
    BY <1>1, <1>11 DEF SameFor, Reader, Held, Known
  <2> QED
    BY <1>7, <1>8, <1>9, <2>1, AbstractStutter DEF Implemented, Shaped
<1>12. CASE /\ disks' = disks /\ Idle(st[p]) /\ st'[p].sched.suppress = 0
            /\ window'[k] = IF st[p].sched.suppress = 0 THEN window[k] ELSE 0
            /\ job' = job \/ job'[p].pc = "speed_open"
  <2>1. Reader(k) = "none" /\ Held(k)' = 0 /\ job[p].pc = "idle"
    BY <1>1, <1>2, <1>3, <1>12 DEF Reader, Held, Known
  <2>2. \/ job' = job /\ Reader(k)' = "none"
        \/ Reader(k)' = "reading"
    BY <1>1, <1>2, <1>4, <1>12, <2>1, RequestMove
    DEF Reader, Known, PromiseInv, Inv2, Inv1
  <2>3. window[k] <= st[p].sched.suppress /\ window[k] \in Nat
    BY <1>1, <1>2, <2>1 DEF Windowed, PromiseInv, Inv2, WindowKept, Covered, Earning
  <2>4. CASE st[p].sched.suppress = 0 /\ Reader(k)' = "none"
    <3>1. SameFor(k)
      BY <1>10, <1>12, <2>1, <2>4 DEF SameFor
    <3> QED
      BY <1>7, <1>8, <1>9, <3>1, AbstractStutter DEF Implemented, Shaped
  <2>5. CASE st[p].sched.suppress = 0 /\ Reader(k)' = "reading"
    <3>1. window[k] = 0 /\ window'[k] = window[k] /\ Held(k) = 0 /\ Held(k)' = Held(k)
      BY <1>10, <1>12, <2>1, <2>3, <2>5
    <3>2. Abstract!Next
      BY <1>9, <2>1, <2>5, <3>1, AbstractBegin
    <3> QED
      BY <1>7, <1>8, <3>2 DEF Implemented, Shaped
  <2>6. CASE st[p].sched.suppress # 0
    <3>1. window'[k] = 0 /\ Reader(k)' \in {"none", "reading"}
      BY <1>12, <2>2, <2>6
    <3>2. Abstract!Next
      BY <1>9, <2>1, <3>1, AbstractOverride
    <3> QED
      BY <1>7, <1>8, <3>2 DEF Implemented, Shaped
  <2> QED
    BY <2>2, <2>4, <2>5, <2>6
<1>13. CASE /\ Idle(st[p]) /\ disks'[k] = NoPtr /\ window'[k] = 0
  <2>1. /\ Reader(k) = "none" /\ Reader(k)' = "none" /\ Held(k)' = 0
    BY <1>1, <1>3, <1>13 DEF Reader, Held, Known
  <2>2. /\ {k} \in SUBSET Disk
        /\ \A j \in {k} : /\ Reader(j) = "none" /\ Reader(j)' = "none"
                         /\ window'[j] = 0 /\ Held(j)' = 0
    BY <1>13, <2>1
  <2>3. Abstract!Next
    BY <1>9, <2>2, AbstractForget
  <2> QED
    BY <1>7, <1>8, <2>3 DEF Implemented, Shaped
<1> QED
  BY <1>1, <1>2, <1>11, <1>12, <1>13, RequestFrame, RequestSchedule DEF PromiseInv, Inv2, Inv1

\* A start knows what the files keep, and the abstract one no more.
LEMMA RestartImplements ==
  ASSUME KeepsWindows, PromiseInv, Windowed, Restart
  PROVE  Implemented
<1>1. PICK ptr \in {f \in [Recorded -> Ptr] : Injection(f)} :
        /\ disks' = [k \in Disk |-> IF k \in Recorded THEN ptr[k] ELSE NoPtr]
        /\ st' = [p \in Ptr |-> Reloaded(p, ptr)]
  BY DEF Restart
<1>2. (\A p \in Ptr : job'[p] = NoJob) /\ file' = file
  BY RestartFrame DEF Restart
<1>3. NoJob.pc = "idle" /\ NoJob.left = 0 /\ NoJob.out \notin Opening
  BY DEF NoJob, Opening
<1>4. ASSUME NEW k \in Recorded
      PROVE  /\ k \in Disk /\ file[k].sched.suppress \in 0 .. Longest
             /\ ~file[k].meta.adopted => file[k].sched.suppress = 0
  <2>1. k \in Disk /\ file[k].meta.known /\ file[k] \in Files
    BY DEF Recorded, PromiseInv, Inv2, Inv1, TypeInv, TypeOK
  <2>2. FilesWithin(k) /\ file[k].sched.suppress \in Nat
    BY <2>1 DEF PromiseInv, Shaped, Files, Schedule
  <2>3. Known(k) /\ Agrees(disks[k], k)
    BY <2>1 DEF PromiseInv, StoreInv, RecordOf, Nothing
  <2>4. disks[k] \in Ptr
    BY <2>1, <2>3 DEF Known, PromiseInv, Inv2, Inv1, TypeInv, TypeOK
  <2>5. HitShape(disks[k])
    BY <2>4 DEF PromiseInv, Shaped
  <2>6. ~st[disks[k]].meta.adopted => ~Writing(disks[k])
    BY <2>4 DEF PromiseInv, Inv2, Inv1, Attached, Writing
  <2> QED
    BY <2>1, <2>2, <2>3, <2>5, <2>6, LongestFacts DEF FilesWithin, HitShape, Agrees
<1>5. ASSUME NEW p \in Ptr PROVE WithinLongest(p)' /\ HitShape(p)'
  <2>1. \/ st'[p].sched = NewSchedule
        \/ \E k \in Recorded : st'[p].sched = file[k].sched /\ st'[p].meta = file[k].meta
    <3> DEFINE mine == {k \in Recorded : ptr[k] = p}
    <3>1. CASE mine = {}
      BY <1>1, <3>1, NewStateFields DEF Reloaded
    <3>2. CASE mine # {}
      <4>1. (CHOOSE d \in mine : TRUE) \in mine
        BY <3>2
      <4> QED
        BY <1>1, <3>2, <4>1, NewStateFields DEF Reloaded
    <3> QED
      BY <3>1, <3>2
  <2> QED
    BY <1>2, <1>3, <1>4, <2>1, LongestFacts
    DEF WithinLongest, HitShape, NewSchedule, Unopened
<1>6. \A k \in Disk : FilesWithin(k)'
  BY <1>2 DEF PromiseInv, Shaped, FilesWithin
<1>7. ASSUME NEW j \in Disk
      PROVE  /\ Reader(j)' = "none" /\ Held(j)' \in 0 .. Longest
             /\ window'[j] \in 0 .. Longest
             /\ window'[j] <= window[j] /\ window'[j] <= Held(j)'
  <2>1. window'[j] = Remembered(j) /\ window[j] \in Nat
    BY DEF Restart, KeepsWindows, Windowed
  <2>2. /\ Remembered(j) \in Nat /\ Remembered(j) <= file[j].sched.suppress
        /\ Remembered(j) # 0 => j \in Recorded
    BY RememberedFacts DEF Recorded, PromiseInv, Inv2, Inv1
  <2>3. Remembered(j) <= window[j]
    BY <2>1 DEF Remembered, PromiseInv, Inv2, Inv1, TypeInv, TypeOK, Files, Schedule
  <2>4. CASE j \notin Recorded
    BY <1>1, <2>1, <2>2, <2>3, <2>4, LongestFacts DEF Reader, Held, Known
  <2>5. CASE j \in Recorded
    <3>1. PICK p \in Ptr : p = ptr[j]
      BY <1>1, <2>5
    <3>2. disks'[j] = p /\ p # NoPtr
      BY <1>1, <2>5, <3>1, SupervisorAssumption
    <3>3. {d \in Recorded : ptr[d] = p} = {j}
      BY <1>1, <2>5, <3>1 DEF Injection
    <3>4. (CHOOSE d \in {j} : TRUE) = j
      OBVIOUS
    <3>5. st'[p] = NewState(j, file[j].meta, file[j].sched)
      BY <1>1, <3>3, <3>4 DEF Reloaded
    <3>6. Held(j)' = file[j].sched.suppress /\ Reader(j)' = "none"
      BY <1>2, <1>3, <3>2, <3>5, NewStateFields DEF Held, Reader, Known
    <3> QED
      BY <1>4, <2>1, <2>2, <2>3, <2>5, <3>6, LongestFacts
  <2> QED
    BY <2>4, <2>5
<1>8. Abstract!Next
  BY <1>7, AbstractDie
<1> QED
  BY <1>5, <1>6, <1>8 DEF Implemented, Shaped

LEMMA AsideImplements ==
  ASSUME PromiseInv, Windowed, Aside
  PROVE  Implemented
<1>1. UNCHANGED <<disks, st, job, window, file>>
  BY DEF Aside, PromiseInv, StoreInv, Plug, Unplug, Pass, SaveToggle, Terminate, vars, history
<1>2. \A j \in Disk : SameFor(j)
  BY <1>1 DEF SameFor, Reader, Held, Known
<1>3. Shaped'
  BY <1>1 DEF PromiseInv, Shaped, WithinLongest, HitShape, FilesWithin
<1> QED
  BY <1>2, <1>3, AbstractStutter DEF Implemented

LEMMA PromiseInit == Init => PromiseInv /\ Abstract!Init
<1> SUFFICES ASSUME Init PROVE PromiseInv /\ Abstract!Init
  OBVIOUS
<1>1. \A k \in Disk : ~Known(k)
  BY DEF Init, Known
<1>2. Inv2
  BY <1>1, StoreInit DEF StoreInv, Init, Inv2, WindowKept
<1>3. \A p \in Ptr : st[p].sched = NewSchedule /\ job[p] = NoJob
  BY NewStateFields DEF Init
<1>4. Shaped
  BY <1>3, LongestFacts
  DEF Init, Shaped, WithinLongest, HitShape, FilesWithin, NewSchedule, NoJob, NoFiles,
      Opening, Unopened
<1>5. \A k \in Disk : Reader(k) = "none" /\ Held(k) = 0
  BY <1>1 DEF Reader, Held
<1>6. Abstract!Init
  BY <1>5 DEF Abstract!Init, Init
<1> QED
  BY <1>2, <1>4, <1>6, StoreInit DEF PromiseInv

LEMMA PromiseNext ==
  ASSUME KeepsWindows, SavesAtOnce, NeverForgetsMidTick, NeverTestsProbation
  PROVE  PromiseInv /\ [Next]_vars => PromiseInv' /\ [Abstract!Next]_(Abstract!vars)
<1> SUFFICES ASSUME PromiseInv, [Next]_vars
             PROVE  PromiseInv' /\ [Abstract!Next]_(Abstract!vars)
  OBVIOUS
<1>1. Inv2' /\ StoreInv'
  BY Inv1Next, NextWindow, StoreNext DEF PromiseInv, Inv2
<1>2. Windowed
  BY <1>1 DEF Windowed, PromiseInv, Inv2, Inv1, TypeInv, TypeOK
<1>3. Implemented
  BY <1>2, AsideImplements, ClockImplements, TickImplements, RestartImplements,
     GoroutineImplements, ConsiderImplements, RequestImplements DEF Next, Aside
<1> QED
  BY <1>1, <1>3 DEF Implemented, PromiseInv

\* The supervisor implements Cooldown: what earns a window is in the schedule
\* before its reader is gone, for as long as was earned, and only time, a
\* forced request, forgetting or a death before the save shortens it.
THEOREM PromiseKept ==
  ASSUME KeepsWindows, SavesAtOnce, NeverForgetsMidTick, NeverTestsProbation
  PROVE  Spec => CooldownPromise
<1> QED
  BY PromiseInit, PromiseNext, PTL DEF Spec, CooldownPromise, Abstract!Spec
=============================================================================
