------------------------------ MODULE Supervisor ------------------------------
(***************************************************************************)
(* The supervisor of reclaimd: discovery, adoption, the rounds and speed   *)
(* tests it starts, the requests the web page makes, and what a restart    *)
(* finds on disk.  One action is one critical section of Supervisor.mu, or *)
(* one file written by the store, or one thing the outside world does.     *)
(*                                                                         *)
(* The map s.disks holds POINTERS to diskState values, and goroutines keep *)
(* a pointer after the map has dropped it.  Ptr is the set of diskState    *)
(* values, disks is the map, and job[p] is the one goroutine (a round or a *)
(* speed test) started on p, with the copies it carries between locks.     *)
(*                                                                         *)
(* Time is kept relative: a deadline is the number of clock ticks left     *)
(* until it, 0 once it is past (the code only ever compares a deadline     *)
(* with now, or with another deadline that may be in the future).  The     *)
(* wall clock is past SanityEpoch and never steps; clock correction        *)
(* belongs to the schedule itself.  The wake channel only makes a tick     *)
(* come sooner than the ticker would, and the ticker may fire here at any  *)
(* moment, so it adds nothing.                                             *)
(***************************************************************************)
EXTENDS Naturals, FiniteSets

CONSTANTS
  Disk,          \* disk keys
  Ptr,           \* diskState values: a bound on those alive at the same time
  NoPtr,         \* a key the map does not hold
  Ops,           \* the requests the page makes in this instance
  Disturbances,  \* what may go wrong at an awkward moment in this instance
  AdoptAfter,    \* probation
  Cooldown,      \* suppression window of each outcome that opens one
  Delay,         \* time to the next round after each outcome
  MaxToggles     \* bound on SetEnabled calls between their two halves

AllOps == {"scan", "scan_force", "speed", "speed_force", "stop", "toggle", "forget"}

\* crash: the process dies at any point, or is told to stop.
\* crash_window: a window that dies with the process was earned nevertheless.
\* forget_mid_tick: Forget lands between a tick's unlock and its last disk.
\* toggle_mid_save: SetEnabled's lock and its SaveMeta are not one step.
\* speed_unadopted: somebody speed-tests a disk still in probation.
AllDisturbances == {"crash", "crash_window", "forget_mid_tick", "toggle_mid_save",
                    "speed_unadopted"}

\* How a round ends.  "empty" is a cancelled round that read no block and
\* "slow" stands for media errors too, which the schedule treats alike.
Outcome == {"clean", "slow", "near_hang", "dropout", "external", "cancelled", "empty"}
Opening == {"near_hang", "dropout"}

ASSUME SupervisorAssumption ==
  /\ Disk # {}
  /\ NoPtr \notin Ptr
  /\ Ops \subseteq AllOps
  /\ Disturbances \subseteq AllDisturbances
  /\ AdoptAfter \in Nat
  /\ Cooldown \in [Opening -> Nat \ {0}]
  /\ Delay \in [Outcome -> Nat \ {0}]
  /\ MaxToggles \in Nat

VARIABLES
  plugged,   \* the keys discovery would report
  disks,     \* s.disks
  st,        \* the diskState values
  job,       \* the goroutine of each diskState
  queue,     \* the candidates a running tick has still to consider
  toggles,   \* SetEnabled calls that have yet to save the meta they copied
  file,      \* the state directory
  grace,     \* the machine booted less than MinUptime ago
  leaving,   \* the daemon's context is cancelled
  window,    \* history: what is left of the cooldown the disk has earned
  kept       \* history: adopted or excluded, and not forgotten since

vars == <<plugged, disks, st, job, queue, toggles, file, grace, leaving, window, kept>>
history == <<window, kept>>

-----------------------------------------------------------------------------
(* What the variables hold.                                                *)

\* Meta.Identity.Key # "", AdoptedAt set, Enabled.  The zero Meta is also
\* what a directory with no meta.json amounts to.
Meta == [known : BOOLEAN, adopted : BOOLEAN, enabled : BOOLEAN]
NoMeta == [known |-> FALSE, adopted |-> FALSE, enabled |-> FALSE]
NewMeta == [known |-> TRUE, adopted |-> FALSE, enabled |-> TRUE]

\* NextScanAt and SuppressUntil.  A missing schedule.json reads as NewSchedule.
Schedule == [next : Nat, suppress : Nat]
NewSchedule == [next |-> 0, suppress |-> 0]

DiskState ==
  [key : Disk, present : BOOLEAN, age : Nat, meta : Meta, sched : Schedule,
   scanning : BOOLEAN, testing : BOOLEAN, stopReq : BOOLEAN, scanReq : BOOLEAN]
NewState(k, meta, sched) ==
  [key |-> k, present |-> FALSE, age |-> 0, meta |-> meta, sched |-> sched,
   scanning |-> FALSE, testing |-> FALSE, stopReq |-> FALSE, scanReq |-> FALSE]

\* Where a goroutine stands: the statement it executes next.
RoundPc == {"open", "round", "reattach", "postpone", "save_postponed", "save_history",
            "reschedule", "save_schedule", "copy_meta", "save_meta", "round_end"}
SpeedPc == {"speed_open", "speed_test", "set_window", "save_window", "speed_end"}
\* With its outcome until that is in the schedule, the window a speed test's
\* dropout was given (prog in recordSpeedDropout), and the meta it copied.
Job == [pc : {"idle"} \cup RoundPc \cup SpeedPc, out : Outcome \cup {"none"},
        left : Nat, meta : Meta]
NoJob == [pc |-> "idle", out |-> "none", left |-> 0, meta |-> NoMeta]

\* disks/<key>/: meta.json, schedule.json, the window of progress.json, and
\* whether there is any round history.
Files == [meta : Meta, sched : Schedule, prog : Nat, rounds : BOOLEAN]
NoFiles == [meta |-> NoMeta, sched |-> NewSchedule, prog |-> 0, rounds |-> FALSE]

Known(k) == disks[k] # NoPtr
Tracked(p) == disks[st[p].key] = p

\* A diskState that nothing refers to, so that a new one may take its place.
Free(p) == /\ \A k \in Disk : disks[k] # p
           /\ p \notin queue
           /\ job[p].pc = "idle"

Init ==
  /\ plugged \in SUBSET Disk
  /\ disks = [k \in Disk |-> NoPtr]
  /\ st = [p \in Ptr |-> NewState(CHOOSE k \in Disk : TRUE, NoMeta, NewSchedule)]
  /\ job = [p \in Ptr |-> NoJob]
  /\ queue = {}
  /\ toggles = {}
  /\ file = [k \in Disk |-> NoFiles]
  /\ grace \in BOOLEAN
  /\ leaving = FALSE
  /\ window = [k \in Disk |-> 0]
  /\ kept = [k \in Disk |-> FALSE]

-----------------------------------------------------------------------------
(* The world: sticks come and go, time passes.                             *)

Plug(k) ==
  /\ k \notin plugged
  /\ plugged' = plugged \cup {k}
  /\ UNCHANGED <<disks, st, job, queue, toggles, file, grace, leaving, history>>

Unplug(k) ==
  /\ k \in plugged
  /\ plugged' = plugged \ {k}
  /\ UNCHANGED <<disks, st, job, queue, toggles, file, grace, leaving, history>>

\* One tick of the clock: every deadline is one nearer, a past one stays past.
Less(n) == IF n = 0 THEN 0 ELSE n - 1
Sooner(s) == [next |-> Less(s.next), suppress |-> Less(s.suppress)]
\* Presence is only compared with AdoptAfter, so it is counted that far.
Aged(n) == IF n < AdoptAfter THEN n + 1 ELSE n

ClockTick ==
  /\ st' = [p \in Ptr |-> [st[p] EXCEPT !.age = Aged(@), !.sched = Sooner(@)]]
  /\ file' = [k \in Disk |-> [file[k] EXCEPT !.sched = Sooner(@), !.prog = Less(@)]]
  /\ job' = [p \in Ptr |-> [job[p] EXCEPT !.left = Less(@)]]
  /\ window' = [k \in Disk |-> Less(window[k])]
  /\ grace' = FALSE
  /\ UNCHANGED <<plugged, disks, queue, toggles, leaving, kept>>

-----------------------------------------------------------------------------
(* The supervisor's own goroutine: tick.  Its first half runs under the    *)
(* lock and picks the candidates; the second considers each of them under  *)
(* the lock again, in the order the map happens to give.                   *)

\* A stick discovery found, and one it did not find.
\* Mutants of Seen, Missed and Swept: every tick restarts probation, a request
\* outlives its stick, an exclusion does not survive the sweep.
SeenAnew(s) == [s EXCEPT !.present = TRUE, !.age = 0]
MissedButAsked(s) == [s EXCEPT !.present = FALSE]
SweptThoughExcluded(s) == ~s.meta.adopted /\ ~s.scanning

Seen(s) == IF s.present THEN s ELSE [s EXCEPT !.present = TRUE, !.age = 0]
Missed(s) == [s EXCEPT !.present = FALSE, !.scanReq = FALSE]
Swept(s) == ~s.meta.adopted /\ s.meta.enabled /\ ~s.scanning

Injection(f) == \A a, b \in DOMAIN f : f[a] = f[b] => a = b
FreshFor(keys) == {f \in [keys -> {p \in Ptr : Free(p)}] : Injection(f)}

\* The keys that went away and take their records with them, and those that
\* came and get a diskState.
Gone == {k \in Disk \ plugged : Known(k) /\ Swept(st[disks[k]])}
Arrived == {k \in plugged : ~Known(k)}

\* What discovery makes of a diskState, new ones being those of new.
Discovered(p, new) ==
  LET mine == {k \in Arrived : new[k] = p}
  IN IF mine # {} THEN Seen(NewState(CHOOSE k \in mine : TRUE, NewMeta, NewSchedule))
     ELSE IF ~Tracked(p) THEN st[p]
     ELSE IF st[p].key \in plugged THEN Seen(st[p]) ELSE Missed(st[p])

Discover(new) ==
  /\ disks' = [k \in Disk |-> IF k \in Arrived THEN new[k]
                            ELSE IF k \in Gone THEN NoPtr ELSE disks[k]]
  /\ st' = [p \in Ptr |-> Discovered(p, new)]
  /\ file' = [k \in Disk |-> IF k \in Gone THEN NoFiles
                           ELSE IF k \in Arrived
                           THEN [file[k] EXCEPT !.meta = NewMeta] ELSE file[k]]
  /\ window' = [k \in Disk |-> IF k \in Gone THEN 0 ELSE window[k]]

\* tick, up to the unlock.  Stopping does not shut it out: select may pick
\* the ticker although the context is done as well.
TickBegin ==
  /\ queue = {}
  /\ \E new \in FreshFor(Arrived) : Discover(new)
  /\ queue' = {disks'[k] : k \in Disk} \ {NoPtr}
  /\ UNCHANGED <<plugged, job, toggles, grace, leaving, kept>>

\* considerDisk's early returns before anything is changed.
BusyScanningOnly(s) == s.scanning \/ ~s.present  \* mutant of Busy
Busy(s) == s.scanning \/ s.testing \/ ~s.present
OnProbation(s) == ~s.meta.adopted /\ ~s.scanReq /\ s.age < AdoptAfter
DueInWindow(sched) == sched.next = 0             \* mutant of Due
Due(sched) == sched.suppress = 0 /\ sched.next = 0

Adopted(s) == IF s.meta.adopted THEN s
              ELSE [s EXCEPT !.meta.adopted = TRUE, !.sched = NewSchedule]
Starts(s) == s.meta.enabled /\ (~grace \/ s.scanReq) /\ Due(s.sched)
Started(s) == [s EXCEPT !.scanning = TRUE, !.scanReq = FALSE]

Pass(p) ==
  /\ p \in queue
  /\ Busy(st[p]) \/ OnProbation(st[p])
  /\ queue' = queue \ {p}
  /\ UNCHANGED <<plugged, disks, st, job, toggles, file, grace, leaving, history>>

Consider(p) ==
  /\ p \in queue
  /\ ~Busy(st[p]) /\ ~OnProbation(st[p])
  /\ queue' = queue \ {p}
  /\ LET s == Adopted(st[p])
         k == s.key
         adopts == ~st[p].meta.adopted
     IN /\ st' = [st EXCEPT ![p] = IF Starts(s) THEN Started(s) ELSE s]
        /\ job' = IF Starts(s) THEN [job EXCEPT ![p] = [NoJob EXCEPT !.pc = "open"]] ELSE job
        /\ file' = IF adopts
                   THEN [file EXCEPT ![k] = [@ EXCEPT !.meta = s.meta, !.sched = s.sched]]
                   ELSE file
        /\ kept' = [kept EXCEPT ![k] = @ \/ adopts]
  /\ UNCHANGED <<plugged, disks, toggles, grace, leaving, window>>

-----------------------------------------------------------------------------
(* A round: runRound, recordRound and persistRound.                        *)

At(p, pc) == job[p].pc = pc
Goto(p, pc) == job' = [job EXCEPT ![p].pc = pc]
\* What a goroutine leaves alone unless it says otherwise.
World == <<plugged, disks, queue, toggles, grace, leaving, kept>>

\* OpenDevice and WarmUp; a failure ends the round with its schedule untouched.
OpenRound(p) ==
  /\ At(p, "open")
  /\ \/ st[p].key \in plugged /\ Goto(p, "round")
     \/ Goto(p, "round_end")
  /\ UNCHANGED <<World, st, file, window>>

\* The round's own context is done: StopScan cancels it, and so does the
\* daemon's (the mutant hears the daemon alone).
CancelledByDaemon(s) == leaving
Cancelled(s) == s.stopReq \/ leaving

\* Round returns with what it found.  A dropout that ends it here was met
\* while the baseline was learned, where nothing writes progress.json.
RoundReturns(p, out) ==
  /\ At(p, "round")
  /\ out \in {"clean", "slow", "near_hang", "external"} => st[p].key \in plugged
  /\ out = "cancelled" => Cancelled(st[p])
  /\ job' = [job EXCEPT ![p].out = out,
                        ![p].pc = IF out = "empty" THEN "postpone" ELSE "save_history"]
  /\ window' = IF out \in Opening THEN [window EXCEPT ![st[p].key] = Cooldown[out]] ELSE window
  /\ UNCHANGED <<World, st, file>>

\* Round refuses the device's alignment: no result, nothing recorded.
RoundFails(p) ==
  /\ At(p, "round")
  /\ Goto(p, "round_end")
  /\ UNCHANGED <<World, st, file, window>>

\* onDropout: progress.json is synced before anything else ...
RoundDropout(p) ==
  /\ At(p, "round")
  /\ job' = [job EXCEPT ![p].out = "dropout", ![p].pc = "reattach"]
  /\ file' = [file EXCEPT ![st[p].key].prog = Cooldown["dropout"]]
  /\ window' = [window EXCEPT ![st[p].key] = Cooldown["dropout"]]
  /\ UNCHANGED <<World, st>>

\* ... and the round ends when the device is back or ReattachTimeout is over.
Reattached(p) ==
  /\ At(p, "reattach")
  /\ Goto(p, "save_history")
  /\ UNCHANGED <<World, st, file, window>>

\* recordRound of a round that read nothing.
Postpone(p) ==
  /\ At(p, "postpone")
  /\ Goto(p, "save_postponed")
  /\ st' = [st EXCEPT ![p].sched.next = Delay["empty"]]
  /\ UNCHANGED <<World, file, window>>

SavePostponed(p) ==
  /\ At(p, "save_postponed")
  /\ Goto(p, "round_end")
  /\ file' = [file EXCEPT ![st[p].key].sched = st[p].sched]
  /\ UNCHANGED <<World, st, window>>

\* SaveProfile, SaveDeferred, AppendRound and SaveFreshness.
SaveHistory(p) ==
  /\ At(p, "save_history")
  /\ Goto(p, "reschedule")
  /\ file' = [file EXCEPT ![st[p].key].rounds = TRUE]
  /\ UNCHANGED <<World, st, window>>

Later(a, b) == IF a < b THEN b ELSE a
NextWithoutNearHang(sched, out, prog) ==  \* mutant of NextSchedule
  [next |-> Delay[out],
   suppress |-> Later(IF out = "dropout" THEN Cooldown[out] ELSE sched.suppress, prog)]

\* Schedule.Next, with the window progress.json holds kept if it is later.
NextSchedule(sched, out, prog) ==
  [next |-> Delay[out],
   suppress |-> Later(IF out \in Opening THEN Cooldown[out] ELSE sched.suppress, prog)]

Reschedule(p) ==
  /\ At(p, "reschedule")
  /\ job' = [job EXCEPT ![p].pc = "save_schedule", ![p].out = "none"]
  /\ st' = [st EXCEPT ![p].sched = NextSchedule(@, job[p].out, file[st[p].key].prog)]
  /\ UNCHANGED <<World, file, window>>

\* SaveSchedule: no one else changes the schedule of a busy diskState, so the
\* copy taken under the lock is what the diskState still holds.
SaveSchedule(p) ==
  /\ At(p, "save_schedule")
  /\ Goto(p, "copy_meta")
  /\ file' = [file EXCEPT ![st[p].key].sched = st[p].sched]
  /\ UNCHANGED <<World, st, window>>

\* The meta is copied under the lock and saved after it.
CopyMeta(p) ==
  /\ At(p, "copy_meta")
  /\ job' = [job EXCEPT ![p].pc = "save_meta", ![p].meta = st[p].meta]
  /\ UNCHANGED <<World, st, file, window>>

SaveMeta(p) ==
  /\ At(p, "save_meta")
  /\ Goto(p, "round_end")
  /\ file' = [file EXCEPT ![st[p].key].meta = job[p].meta]
  /\ UNCHANGED <<World, st, window>>

\* runRound's deferred function.
RoundEnd(p) ==
  /\ At(p, "round_end")
  /\ job' = [job EXCEPT ![p] = NoJob]
  /\ st' = [st EXCEPT ![p].scanning = FALSE, ![p].stopReq = FALSE]
  /\ UNCHANGED <<World, file, window>>

RoundStep(p) ==
  \/ OpenRound(p) \/ RoundFails(p) \/ RoundDropout(p) \/ Reattached(p)
  \/ \E out \in Outcome : RoundReturns(p, out)
  \/ Postpone(p) \/ SavePostponed(p) \/ SaveHistory(p) \/ Reschedule(p)
  \/ SaveSchedule(p) \/ CopyMeta(p) \/ SaveMeta(p) \/ RoundEnd(p)

-----------------------------------------------------------------------------
(* A speed test: runSpeedTest and recordSpeedDropout.  Its result file and *)
(* its events are not modelled.                                            *)

OpenSpeedTest(p) ==
  /\ At(p, "speed_open")
  /\ \/ st[p].key \in plugged /\ Goto(p, "speed_test")
     \/ Goto(p, "speed_end")
  /\ UNCHANGED <<World, st, file, window>>

SpeedTestDone(p) ==
  /\ At(p, "speed_test")
  /\ Goto(p, "speed_end")
  /\ UNCHANGED <<World, st, file, window>>

SpeedDropout(p) ==
  /\ At(p, "speed_test")
  /\ job' = [job EXCEPT ![p].pc = "set_window", ![p].out = "dropout",
                        ![p].left = Cooldown["dropout"]]
  /\ file' = [file EXCEPT ![st[p].key].prog = Cooldown["dropout"]]
  /\ window' = [window EXCEPT ![st[p].key] = Cooldown["dropout"]]
  /\ UNCHANGED <<World, st>>

SetWindow(p) ==
  /\ At(p, "set_window")
  /\ job' = [job EXCEPT ![p].pc = "save_window", ![p].out = "none", ![p].left = 0]
  /\ st' = [st EXCEPT ![p].sched.suppress = job[p].left]
  /\ UNCHANGED <<World, file, window>>

SaveWindow(p) ==
  /\ At(p, "save_window")
  /\ Goto(p, "speed_end")
  /\ file' = [file EXCEPT ![st[p].key].sched = st[p].sched]
  /\ UNCHANGED <<World, st, window>>

SpeedEnd(p) ==
  /\ At(p, "speed_end")
  /\ job' = [job EXCEPT ![p] = NoJob]
  /\ st' = [st EXCEPT ![p].testing = FALSE]
  /\ UNCHANGED <<World, file, window>>

SpeedStep(p) ==
  \/ OpenSpeedTest(p) \/ SpeedTestDone(p) \/ SpeedDropout(p)
  \/ SetWindow(p) \/ SaveWindow(p) \/ SpeedEnd(p)

-----------------------------------------------------------------------------
(* The requests the page makes.  A refused request changes nothing, so     *)
(* each action is the request that is granted.                             *)

Serves(op) == op \in Ops /\ ~leaving
IdleThoughTesting(s) == ~s.scanning   \* mutant of Idle
Idle(s) == ~s.scanning /\ ~s.testing

\* overrideCooldownLocked: a request inside a cooldown is granted only with
\* force, which clears the window and saves the schedule at once.
CooledDown(s, force) == s.sched.suppress = 0 \/ force
Overridden(s) == [s EXCEPT !.sched.suppress = 0]
OverrideUnsaved(s) == file  \* mutant of OverrideFiles
OverrideFiles(s) ==
  IF s.sched.suppress = 0 THEN file
  ELSE [file EXCEPT ![s.key].sched = Overridden(s).sched]
OverrideWindow(s) ==
  IF s.sched.suppress = 0 THEN window ELSE [window EXCEPT ![s.key] = 0]

RequestScan(k, force) ==
  /\ Serves(IF force THEN "scan_force" ELSE "scan")
  /\ Known(k)
  /\ LET p == disks[k]
         s == st[p]
     IN /\ Idle(s) /\ CooledDown(s, force)
        /\ st' = [st EXCEPT ![p] = [Overridden(s) EXCEPT !.sched.next = 0, !.scanReq = TRUE]]
        /\ file' = OverrideFiles(s)
        /\ window' = OverrideWindow(s)
  /\ UNCHANGED <<World, job>>

RequestSpeedTest(k, force) ==
  /\ Serves(IF force THEN "speed_force" ELSE "speed")
  /\ Known(k)
  /\ LET p == disks[k]
         s == st[p]
     IN /\ s.present /\ Idle(s) /\ CooledDown(s, force)
        /\ s.meta.adopted \/ "speed_unadopted" \in Disturbances
        /\ st' = [st EXCEPT ![p] = [Overridden(s) EXCEPT !.testing = TRUE]]
        /\ job' = [job EXCEPT ![p] = [NoJob EXCEPT !.pc = "speed_open"]]
        /\ file' = OverrideFiles(s)
        /\ window' = OverrideWindow(s)
  /\ UNCHANGED World

StopScan(k) ==
  /\ Serves("stop")
  /\ Known(k)
  /\ st[disks[k]].scanning /\ ~st[disks[k]].stopReq
  /\ st' = [st EXCEPT ![disks[k]].stopReq = TRUE]
  /\ UNCHANGED <<World, job, file, window>>

\* Adopted, or excluded by hand, when the request is answered.
KeptAfter(k, enabled) == Known(k) /\ (st[disks[k]].meta.adopted \/ ~enabled)

\* SetEnabled changes the meta under the lock and saves a copy after it.  An
\* exclusion is promised when the save is through, and withdrawn at once.
SetEnabled(k, enabled) ==
  /\ Serves("toggle")
  /\ "toggle_mid_save" \in Disturbances
  /\ Cardinality(toggles) < MaxToggles
  /\ Known(k)
  /\ LET p == disks[k]
     IN /\ st' = [st EXCEPT ![p].meta.enabled = enabled]
        /\ toggles' = toggles \cup {[key |-> k, meta |-> st'[p].meta]}
  /\ kept' = [kept EXCEPT ![k] = @ /\ KeptAfter(k, enabled)]
  /\ UNCHANGED <<plugged, disks, job, queue, file, grace, leaving, window>>

SaveToggle(t) ==
  /\ toggles' = toggles \ {t}
  /\ file' = [file EXCEPT ![t.key].meta = t.meta]
  /\ kept' = [kept EXCEPT ![t.key] = KeptAfter(t.key, t.meta.enabled)]
  /\ UNCHANGED <<plugged, disks, st, job, queue, grace, leaving, window>>

\* The same request when nothing comes between its halves.  A round that has
\* copied the meta by then saves the older copy over it.
SetEnabledAtOnce(k, enabled) ==
  /\ Serves("toggle")
  /\ "toggle_mid_save" \notin Disturbances
  /\ Known(k)
  /\ LET p == disks[k]
     IN /\ st' = [st EXCEPT ![p].meta.enabled = enabled]
        /\ file' = [file EXCEPT ![k].meta = st'[p].meta]
        /\ kept' = [kept EXCEPT ![k] = KeptAfter(k, enabled)]
  /\ UNCHANGED <<plugged, disks, job, queue, toggles, grace, leaving, window>>

Forget(k) ==
  /\ Serves("forget")
  /\ Known(k)
  /\ Idle(st[disks[k]])
  /\ queue = {} \/ "forget_mid_tick" \in Disturbances
  /\ disks' = [disks EXCEPT ![k] = NoPtr]
  /\ file' = [file EXCEPT ![k] = NoFiles]
  /\ window' = [window EXCEPT ![k] = 0]
  /\ kept' = [kept EXCEPT ![k] = FALSE]
  /\ UNCHANGED <<plugged, st, job, queue, toggles, grace, leaving>>

Request(k) ==
  \/ \E force \in BOOLEAN : RequestScan(k, force) \/ RequestSpeedTest(k, force)
  \/ \E enabled \in BOOLEAN : SetEnabled(k, enabled) \/ SetEnabledAtOnce(k, enabled)
  \/ StopScan(k) \/ Forget(k)

-----------------------------------------------------------------------------
(* Stopping, dying and starting again.                                     *)

\* runDaemon cancels the context.  The supervisor's Run returns at its next
\* select, and nothing waits for the goroutines of rounds.
Terminate ==
  /\ "crash" \in Disturbances
  /\ ~leaving
  /\ leaving' = TRUE
  /\ UNCHANGED <<plugged, disks, st, job, queue, toggles, file, grace, history>>

\* loadKnownDisks: a diskState for every record, of meta.json and
\* schedule.json.  progress.json is not read.
Recorded == {k \in Disk : file[k].meta.known}
Reloaded(p, ptr) ==
  LET mine == {k \in Recorded : ptr[k] = p}
      k == CHOOSE d \in mine : TRUE
  IN IF mine = {} THEN NewState(st[p].key, NoMeta, NewSchedule)
     ELSE NewState(k, file[k].meta, file[k].sched)

\* What the files of an adopted disk keep of the window it has earned.
Remembered(k) ==
  IF ~file[k].meta.known \/ ~file[k].meta.adopted THEN 0
  ELSE IF window[k] < file[k].sched.suppress THEN window[k] ELSE file[k].sched.suppress

\* The process ends, at any point, and a new one loads what is on disk.  The
\* machine may have gone down with it.  Without crash_window the history
\* forgives what had not been saved yet.
Restart ==
  /\ "crash" \in Disturbances
  /\ \E ptr \in {f \in [Recorded -> Ptr] : Injection(f)} :
       /\ disks' = [k \in Disk |-> IF k \in Recorded THEN ptr[k] ELSE NoPtr]
       /\ st' = [p \in Ptr |-> Reloaded(p, ptr)]
  /\ job' = [p \in Ptr |-> NoJob]
  /\ queue' = {}
  /\ toggles' = {}
  /\ leaving' = FALSE
  /\ grace' \in BOOLEAN
  /\ window' = IF "crash_window" \in Disturbances THEN window
               ELSE [k \in Disk |-> Remembered(k)]
  /\ UNCHANGED <<plugged, file, kept>>

Next ==
  \/ \E k \in Disk : Plug(k) \/ Unplug(k) \/ Request(k)
  \/ ClockTick \/ TickBegin \/ Terminate \/ Restart
  \/ \E p \in Ptr : Pass(p) \/ Consider(p) \/ RoundStep(p) \/ SpeedStep(p)
  \/ \E t \in toggles : SaveToggle(t)

Spec == Init /\ [][Next]_vars

\* The daemon's loop and its goroutines keep running, and time passes: every
\* read ends within the controller's watchdog, every wait has a timeout.  A
\* round that reads may go on reading, for as long as its disk is long; one
\* whose context is done looks at that between two reads and in every wait.
\* Nothing is assumed of the page or of the sticks.
Fairness ==
  /\ WF_vars(ClockTick) /\ WF_vars(TickBegin)
  /\ \A p \in Ptr :
       /\ WF_vars(Pass(p) \/ Consider(p))
       /\ WF_vars(~At(p, "round") /\ RoundStep(p))
       /\ WF_vars(Cancelled(st[p]) /\ \E out \in Outcome : RoundReturns(p, out))
       /\ WF_vars(SpeedStep(p))

FairSpec == Spec /\ Fairness

-----------------------------------------------------------------------------
(* Safety.                                                                 *)

\* Every variable holds what the code's types let it hold, and the map files
\* a diskState under its own key.
TypeOK ==
  /\ plugged \subseteq Disk
  /\ disks \in [Disk -> Ptr \cup {NoPtr}]
  /\ st \in [Ptr -> DiskState]
  /\ job \in [Ptr -> Job]
  /\ queue \subseteq Ptr
  /\ toggles \subseteq [key : Disk, meta : Meta]
  /\ file \in [Disk -> Files]
  /\ grace \in BOOLEAN
  /\ leaving \in BOOLEAN
  /\ window \in [Disk -> Nat]
  /\ kept \in [Disk -> BOOLEAN]
  /\ \A k \in Disk : Known(k) => st[disks[k]].key = k

\* Scanning says a round's goroutine runs and Testing that a speed test's
\* does, never both on one diskState, and a stop is only ever pending on a
\* running round (supervisor.go:40-49): no path out of a goroutine leaves a
\* flag behind, and no request or tick starts a second goroutine beside one.
GoroutineFlags ==
  \A p \in Ptr : /\ st[p].scanning <=> job[p].pc \in RoundPc
                 /\ st[p].testing <=> job[p].pc \in SpeedPc
                 /\ st[p].stopReq => st[p].scanning

Reading(p) == job[p].pc \in {"open", "round", "reattach", "speed_open", "speed_test"}

\* A stick never has two readers, which "would only measure each other"
\* (supervisor.go:40-41), even while an older diskState of the same key is
\* still held by a goroutine or by a tick.
OneReader ==
  \A p, q \in Ptr : Reading(p) /\ Reading(q) /\ st[p].key = st[q].key => p = q

\* Between saves, meta.json and the window in schedule.json say what memory
\* says, whatever tick, goroutines and requests have interleaved: a restart
\* then finds the adoption and the cooldown the daemon had.  It finds the
\* exclusion too, until a round has been recorded: a round saves the meta it
\* copied before the save, over that of a SetEnabled that came in between, and
\* then memory has the exclusion and the file has not (supervisor.go:517-526).
Saving(k) == \/ job[disks[k]].pc \in {"save_schedule", "save_window"}
             \/ \E t \in toggles : t.key = k
StoreAgrees ==
  \A k \in Disk : Known(k) /\ ~Saving(k) =>
     /\ file[k].meta.known = st[disks[k]].meta.known
     /\ file[k].meta.adopted = st[disks[k]].meta.adopted
     /\ file[k].rounds \/ file[k].meta.enabled = st[disks[k]].meta.enabled
     /\ file[k].sched.suppress = st[disks[k]].sched.suppress

\* "Anything it has adopted, or that you excluded by hand, is kept until you
\* delete it" (README.md:99): the record of such a disk is never swept.  And a
\* history stands only beside the record of an adopted disk: what Forget or the
\* sweep deleted is not written back by a goroutine that outlived it.
KeptOnDisk ==
  \A k \in Disk : /\ kept[k] => file[k].meta.known
                  /\ file[k].rounds => file[k].meta.adopted

\* A round or a speed test begins only when the disk has sat out the window
\* its last dropout or near-hang earned, or somebody forced it.
Begins(p) == job[p].pc = "idle" /\ job'[p].pc # "idle"
WindowHonoured == [][\A p \in Ptr : Begins(p) => window'[st[p].key] = 0]_vars

\* The same promise in the words of Cooldown: an outcome that earns a window is
\* in the schedule in memory before its reader is gone, for as long as was
\* earned, and nothing but time, a forced request or forgetting shortens it.
Reader(k) == IF ~Known(k) \/ job[disks[k]].pc = "idle" THEN "none"
             ELSE IF job[disks[k]].out \in Opening THEN "hit" ELSE "reading"
Held(k) == IF Known(k) THEN st[disks[k]].sched.suppress ELSE 0
Abstract == INSTANCE Cooldown WITH
  Windows <- 0 .. Cooldown["near_hang"] + Cooldown["dropout"],
  reader <- [k \in Disk |-> Reader(k)],
  owed <- window,
  window <- [k \in Disk |-> Held(k)]
CooldownPromise == Abstract!Spec

-----------------------------------------------------------------------------
(* Liveness, under FairSpec.                                               *)

\* A round asked for on a disk that takes part in the schedule is started, or
\* the request is withdrawn by pulling the stick or excluding the disk.
Asked(k) == Known(k) /\ st[disks[k]].scanReq /\ st[disks[k]].meta.enabled
RequestServed == \A k \in Disk : Asked(k) ~> ~Asked(k)

\* A stop that was granted ends the round, of whatever length it would have
\* been: wherever the round stands, opening its device, reading, waiting for it
\* to come back or writing down what it found (StopScan, runRound).
Stopping(k) == Known(k) /\ st[disks[k]].stopReq
StopEnds == \A k \in Disk : Stopping(k) ~> ~Stopping(k)

\* A disk that stays in the port and is not excluded is scanned again and
\* again, whatever its rounds find, unless one of them never comes to an end.
Scanned(k) == Known(k) /\ st[disks[k]].scanning
TakesPart(k) == k \in plugged /\ (Known(k) => st[disks[k]].meta.enabled)
KeepsScanning == \A k \in Disk : <>[]TakesPart(k) => []<>Scanned(k)
=============================================================================
